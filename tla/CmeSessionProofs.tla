------------------------- MODULE CmeSessionProofs -------------------------
(***************************************************************************)
(* The session of the CME handler, for any number of messages, sessions,   *)
(* faults and commands, and any size of a batch.                           *)
(*                                                                         *)
(* Phases says where the login is: what is under way between the process   *)
(* and the exchange, and what was received.  It holds whatever happens,    *)
(* and with Losses gives that a crash loses one message at most.           *)
(*                                                                         *)
(* InSession says in which order the messages of an established session    *)
(* stand in the inbox, what was asked for and what is queued.  It holds    *)
(* while the exchange is less than a batch ahead (Paced) and the operator  *)
(* commands no retransmission; with Counted it gives that each message is  *)
(* handled once, and that a gap has no hole before it.                     *)
(*                                                                         *)
(* From the same invariant the session implements OrderedDelivery.         *)
(***************************************************************************)
EXTENDS CmeSession, SequenceTheorems, FiniteSetTheorems, WellFoundedInduction, TLAPS

-----------------------------------------------------------------------------
(* The inductive invariant.                                                *)

\* The process is about to send its next login message.
Starting == st \in {"StartingLoginProcess", "Negotiated"}

Connected == link \in {"open", "closed"}

\* No login message is under way,
Nothing == inbox = <<>> /\ outbox = <<>> /\ ~ex.on

\* or one that the exchange has not seen,
Asking ==
    /\ Connected /\ ~Starting /\ ~ex.on
    /\ inbox = <<>> /\ Len(outbox) = 1
    /\ outbox[1].type \in {"Negotiate", "Establish"}
    /\ sess.neg <=> outbox[1].type = "Establish"

\* or an answer that does not open the session,
Answered ==
    /\ Connected /\ ~Starting /\ ~ex.on
    /\ outbox = <<>> /\ Len(inbox) = 1
    /\ inbox[1].type \in {"NegotiationResponse", "NegotiationReject", "EstablishmentReject"}
    /\ sess.neg <=> inbox[1].type = "EstablishmentReject"

\* or one that does; only the messages of the session follow it.
Acknowledged ==
    /\ Connected /\ ~Starting /\ sess.neg
    /\ outbox = <<>> /\ inbox # <<>>
    /\ inbox[1].type = "EstablishmentAck"
    /\ inbox[1].next = inbox[1].prev + 1 /\ inbox[1].prev <= ex.sent
    /\ \A i \in DOMAIN inbox : i = 1 \/ inbox[i].type \in {"App", "Terminate"}

\* Up to the end of the login nothing was received.
LoggingIn ==
    /\ st \notin {"Established", "WaitingForRetransmission"}
    /\ gap = NoGap /\ recov = {} /\ Idle
    /\ link # "down" => base = sess.seqIn
    /\ st = "Negotiated" => sess.neg
    /\ Nothing \/ Asking \/ Answered \/ Acknowledged

\* After it no login message is under way, and never will be.
LoggedIn ==
    /\ Connected /\ sess.neg
    /\ st \in {"Established", "WaitingForRetransmission", "Terminating", "Disconnected"}
    /\ \A i \in DOMAIN inbox : inbox[i].type \in {"App", "Terminate", "RetransmitReject"}
    /\ \A i \in DOMAIN outbox : outbox[i].type \in {"RetransmitRequest", "Terminate"}
    /\ ~Idle => st = "Established"

Phases ==
    /\ LoggingIn \/ LoggedIn
    /\ link = "down" => Nothing
    /\ link # "down" => saved = sess /\ (disk.neg => sess.neg)

\* A step that is not an acknowledgement leaves the login where it is, and only the
\* end of the process leads back to it.
Stays ==
    /\ LoggingIn => LoggingIn'
    /\ LoggedIn => LoggedIn' \/ Gone

\* Messages counted as received that are not handled and not in hand.
Missed(from, to) == ((from + 1) .. to) \ (ever \cup {inHand})

\* What a crash may have lost, of the session as it is and as the file has it.
Losses ==
    /\ \A k \in FaultKinds : left[k] <= Faults[k]
    /\ link # "down" => /\ Cardinality(Missed(floor, sess.seqIn)) <= Crashes
                        /\ ~sess.neg => sess.seqIn <= floor
    /\ Cardinality(Missed(fileFloor, disk.seqIn)) <= Crashes
    /\ ~disk.neg => disk.seqIn <= fileFloor

-----------------------------------------------------------------------------
(* The order of the messages of a session.                                 *)

\* An application message of the inbox.
App(i) == i \in DOMAIN inbox /\ inbox[i].type = "App"

\* A message sent once, and one sent again because it was asked for.
Live(i) == App(i) /\ inbox[i].seq > gap.end
Wanted(i) == App(i) /\ inbox[i].seq <= gap.end

Refusal(i) == i \in DOMAIN inbox /\ inbox[i].type = "RetransmitReject"
Request(i) == i \in DOMAIN outbox /\ outbox[i].type = "RetransmitRequest"

\* Until the acknowledgement is taken, only what was sent after it follows it.
AckedInOrder ==
    \A i \in DOMAIN inbox : App(i) =>
        /\ inbox[1].prev < inbox[i].seq /\ inbox[i].seq <= ex.sent /\ inbox[i].seq < MaxBatch
        /\ \A j \in DOMAIN inbox : App(j) /\ j < i => inbox[j].seq < inbox[i].seq

\* What is counted, queued, missing or replayed was sent.
AllSent ==
    /\ sess.seqIn <= ex.sent /\ gap.end <= ex.sent /\ batch.to <= ex.sent
    /\ \A x \in recov : x <= ex.sent

\* Live messages are new, and not too far ahead.
LiveIsNew ==
    \A i \in DOMAIN inbox : Live(i) =>
        /\ inbox[i].seq <= ex.sent
        /\ sess.seqIn < inbox[i].seq /\ inbox[i].seq < MaxBatch + sess.seqIn
        /\ batch.to < inbox[i].seq
        /\ \A x \in recov : x < inbox[i].seq
        /\ \A j \in DOMAIN inbox : Live(j) /\ j < i => inbox[j].seq < inbox[i].seq

Remaining == gap.end - gap.start + 1

OpenGap == sess.seqIn < gap.start /\ gap.start <= gap.end

\* One request is under way, or its refusal, or the messages it asked for.
OneAnswer ==
    /\ \A i \in DOMAIN outbox : Request(i) =>
         /\ st # "Established" /\ OpenGap
         /\ outbox[i].from = gap.start
         /\ outbox[i].count = 0 => MaxBatch <= Remaining
         /\ outbox[i].count <= Remaining
         /\ \A j \in DOMAIN outbox : Request(j) => j = i
         /\ \A j \in DOMAIN inbox : ~Refusal(j) /\ ~Wanted(j)
    /\ \A i \in DOMAIN inbox : Refusal(i) =>
         /\ st # "Established" /\ OpenGap
         /\ \A j \in DOMAIN inbox : (Refusal(j) => j = i) /\ ~Wanted(j)

\* The messages asked for come from the first one missing, in order, with no hole.
WantedInOrder ==
    \A i \in DOMAIN inbox : Wanted(i) =>
        /\ st # "Established" /\ OpenGap
        /\ gap.start <= inbox[i].seq /\ inbox[i].seq < gap.start + MaxBatch
        /\ \A j \in DOMAIN inbox : Wanted(j) /\ j < i => inbox[j].seq < inbox[i].seq
        /\ \A x \in Nat : gap.start <= x /\ x < inbox[i].seq =>
             x \in recov \/ \E k \in DOMAIN inbox : Wanted(k) /\ k < i /\ inbox[k].seq = x

\* While it waits, all before the gap is queued.
Waits ==
    st = "WaitingForRetransmission" =>
        /\ OpenGap /\ gap.count = Uint16(Remaining)
        /\ \A x \in Nat : sess.seqIn < x /\ x < gap.start => x \in recov

\* What is replayed is ahead of SEQ_IN, and the next gap starts behind it.
Replays ==
    batch # NoBatch =>
        /\ batch.then # "none" /\ sess.seqIn <= batch.to
        /\ batch.then = "retrans" =>
             gap.start = batch.to + 1 /\ gap.start <= gap.end /\ gap.count = Uint16(Remaining)

InSession == AllSent /\ LiveIsNew /\ OneAnswer /\ WantedInOrder /\ Waits /\ Replays

Arrivals == (LoggingIn /\ AckedInOrder) \/ (LoggedIn /\ InSession)

\* Every message was handled that was counted, but for the one in hand.
Counted ==
    link # "down" =>
        /\ inHand \in {0, sess.seqIn} /\ base <= sess.seqIn
        /\ inHand # 0 => base < sess.seqIn
        /\ \A x \in Seqs : times[x] = IF base < x /\ x <= sess.seqIn /\ x # inHand THEN 1 ELSE 0

\* The invariant of a session whose exchange keeps pace.
Tame == ~Commanded => Arrivals /\ Counted

\* What is a number.
Facts ==
    /\ sess.seqIn \in Nat /\ gap.start \in Nat /\ gap.end \in Nat /\ gap.count \in Nat
    /\ batch.to \in Nat /\ ex.sent \in Nat /\ inHand \in Nat /\ base \in Nat
    /\ \A x \in recov : x \in Nat
    /\ Len(inbox) \in Nat /\ DOMAIN inbox = 1 .. Len(inbox)
    /\ Len(outbox) \in Nat /\ DOMAIN outbox = 1 .. Len(outbox)
    /\ \A i \in DOMAIN inbox : App(i) => inbox[i].seq \in Nat
    /\ \A i \in DOMAIN outbox : Request(i) => outbox[i].from \in Nat /\ outbox[i].count \in Nat

-----------------------------------------------------------------------------
(* Sequences.                                                              *)

\* Taking the head of a sequence shifts the rest by one.
LEMMA TailShifts ==
    ASSUME NEW S, NEW s \in Seq(S), s # <<>>
    PROVE  /\ Tail(s) \in Seq(S) /\ Head(s) \in S /\ Head(s) = s[1] /\ 1 \in DOMAIN s
           /\ Len(s) \in Nat \ {0} /\ DOMAIN s = 1 .. Len(s)
           /\ Len(Tail(s)) = Len(s) - 1 /\ DOMAIN Tail(s) = 1 .. Len(s) - 1
           /\ \A i \in DOMAIN Tail(s) :
                i \in Nat \ {0} /\ i + 1 \in DOMAIN s /\ Tail(s)[i] = s[i + 1]
<1>1. Len(s) \in Nat \ {0} /\ DOMAIN s = 1 .. Len(s)
  BY EmptySeq, LenProperties
<1>2. DOMAIN Tail(s) = 1 .. Len(s) - 1 /\ Tail(s) \in Seq(S) /\ Len(Tail(s)) = Len(s) - 1
  BY HeadTailProperties, LenProperties
<1> QED
  BY <1>1, <1>2, HeadTailProperties

\* What follows a sequence keeps its places and comes after them.
LEMMA ConcatAdds ==
    ASSUME NEW S, NEW s \in Seq(S), NEW t \in Seq(S)
    PROVE  /\ s \o t \in Seq(S)
           /\ Len(s) \in Nat /\ DOMAIN s = 1 .. Len(s)
           /\ Len(t) \in Nat /\ DOMAIN t = 1 .. Len(t)
           /\ Len(s \o t) = Len(s) + Len(t) /\ DOMAIN (s \o t) = 1 .. Len(s) + Len(t)
           /\ \A i \in DOMAIN (s \o t) :
                \/ i \in DOMAIN s /\ (s \o t)[i] = s[i]
                \/ i > Len(s) /\ i - Len(s) \in DOMAIN t /\ (s \o t)[i] = t[i - Len(s)]
<1>1. s \o t \in Seq(S) /\ Len(s \o t) = Len(s) + Len(t)
  BY ConcatProperties
<1>2. /\ Len(s) \in Nat /\ DOMAIN s = 1 .. Len(s) /\ Len(t) \in Nat /\ DOMAIN t = 1 .. Len(t)
      /\ DOMAIN (s \o t) = 1 .. Len(s) + Len(t)
  BY <1>1, LenProperties
<1>3. \A i \in 1 .. Len(s) + Len(t) : (s \o t)[i] = IF i <= Len(s) THEN s[i] ELSE t[i - Len(s)]
  BY ConcatProperties
<1> QED
  BY <1>1, <1>2, <1>3

\* An appended element is the last, the others keep their places.
LEMMA AppendAdds ==
    ASSUME NEW S, NEW s \in Seq(S), NEW x \in S
    PROVE  /\ Append(s, x) \in Seq(S) /\ Append(s, x) # <<>>
           /\ Len(s) \in Nat /\ DOMAIN s = 1 .. Len(s)
           /\ Len(Append(s, x)) = Len(s) + 1 /\ DOMAIN Append(s, x) = 1 .. Len(s) + 1
           /\ Append(s, x)[Len(s) + 1] = x
           /\ \A i \in DOMAIN Append(s, x) :
                \/ i \in DOMAIN s /\ Append(s, x)[i] = s[i]
                \/ i = Len(s) + 1 /\ Append(s, x)[i] = x
BY AppendProperties, LenProperties, EmptySeq

\* A prefix has the first elements at their places.
LEMMA PrefixKeeps ==
    ASSUME NEW S, NEW s \in Seq(S), NEW k \in 0 .. Len(s)
    PROVE  /\ SubSeq(s, 1, k) \in Seq(S) /\ DOMAIN SubSeq(s, 1, k) = 1 .. k
           /\ DOMAIN s = 1 .. Len(s) /\ Len(s) \in Nat
           /\ \A i \in DOMAIN SubSeq(s, 1, k) : i \in DOMAIN s /\ SubSeq(s, 1, k)[i] = s[i]
BY SubSeqProperties, LenProperties

\* A sequence of one element.
LEMMA Single ==
    ASSUME NEW S, NEW x \in S
    PROVE  <<x>> \in Seq(S) /\ Len(<<x>>) = 1 /\ DOMAIN <<x>> = {1} /\ <<x>>[1] = x
OBVIOUS

-----------------------------------------------------------------------------
(* Types.                                                                  *)

\* What a message of each type carries.
LEMMA Carries ==
    ASSUME NEW m \in Messages
    PROVE  /\ m.type = "App" => m.seq \in Seqs
           /\ m.type = "NegotiationResponse" => m.uuid \in 0 .. MaxUuid /\ m.prevUuid \in 0 .. MaxUuid
           /\ m.type = "EstablishmentAck" =>
                /\ m.uuid \in 0 .. MaxUuid /\ m.prevUuid \in 0 .. MaxUuid
                /\ m.next \in 1 .. MaxSeq + 1 /\ m.prev \in 0 .. MaxSeq
           /\ m.type = "EstablishmentReject" => m.next \in Seqs
BY DEF Messages

\* What a request of each type carries.
LEMMA RequestCarries ==
    ASSUME NEW m \in Requests
    PROVE  /\ m.type = "Establish" => m.uuid \in 0 .. MaxUuid
           /\ m.type = "RetransmitRequest" => m.from \in Nat /\ m.count \in 0 .. MaxBatch
BY DEF Requests

\* A message received is the first of the inbox.
LEMMA Received ==
    ASSUME TypeOK, NEW type, Receive(type)
    PROVE  /\ inbox' \in Seq(Messages) /\ inbox # <<>> /\ inbox' = Tail(inbox)
           /\ Head(inbox) \in Messages /\ Head(inbox) = inbox[1] /\ inbox[1].type = type
           /\ link # "down" /\ Idle
           /\ Len(inbox) \in Nat \ {0} /\ DOMAIN inbox = 1 .. Len(inbox)
           /\ DOMAIN inbox' = 1 .. Len(inbox) - 1 /\ Len(inbox') = Len(inbox) - 1
           /\ \A i \in DOMAIN inbox' :
                i \in Nat \ {0} /\ i + 1 \in DOMAIN inbox /\ inbox'[i] = inbox[i + 1]
<1>1. inbox \in Seq(Messages)
  BY DEF TypeOK
<1>2. /\ link # "down" /\ Idle /\ inbox # <<>> /\ Head(inbox).type = type
      /\ inbox' = Tail(inbox)
  BY DEF Receive
<1> QED
  BY <1>1, <1>2, TailShifts

\* A request taken by the exchange is the first of the outbox.
LEMMA ExReceived ==
    ASSUME TypeOK, NEW type, ExReceive(type)
    PROVE  /\ outbox' \in Seq(Requests) /\ outbox # <<>> /\ outbox' = Tail(outbox)
           /\ Head(outbox) \in Requests /\ Head(outbox) = outbox[1] /\ outbox[1].type = type
           /\ Len(outbox) \in Nat \ {0} /\ DOMAIN outbox = 1 .. Len(outbox)
           /\ DOMAIN outbox' = 1 .. Len(outbox) - 1 /\ Len(outbox') = Len(outbox) - 1
           /\ \A i \in DOMAIN outbox' :
                i \in Nat \ {0} /\ i + 1 \in DOMAIN outbox /\ outbox'[i] = outbox[i + 1]
<1>1. outbox \in Seq(Requests)
  BY DEF TypeOK
<1>2. outbox # <<>> /\ Head(outbox).type = type /\ outbox' = Tail(outbox)
  BY DEF ExReceive
<1> QED
  BY <1>1, <1>2, TailShifts

\* A retransmission request is one request.
LEMMA RequestTyped ==
    ASSUME NEW from \in Nat, NEW count \in Nat
    PROVE  /\ RetransmitRequest(from, count) \in Seq(Requests)
           /\ Len(RetransmitRequest(from, count)) = 1
           /\ LET r == RetransmitRequest(from, count)[1]
              IN  /\ r.type = "RetransmitRequest" /\ r.from = from
                  /\ r.count = IF count > MaxBatch THEN 0 ELSE count
BY SessionConstants DEF RetransmitRequest, Requests

\* What is put on the wire are requests.
LEMMA WireTyped ==
    ASSUME outbox \in Seq(Requests), NEW msgs \in Seq(Requests), Wire(msgs)
    PROVE  outbox' \in Seq(Requests)
BY ConcatProperties DEF Wire

\* A fault or command uses up one of those left.
LEMMA Spent ==
    ASSUME TypeOK, NEW kind \in FaultKinds, Spend(kind)
    PROVE  /\ left' \in [FaultKinds -> Nat] /\ left'[kind] = left[kind] - 1 /\ left[kind] \in Nat \ {0}
           /\ \A k \in FaultKinds \ {kind} : left'[k] = left[k]
<1>1. left \in [FaultKinds -> Nat]
  BY DEF TypeOK
<1>2. left[kind] > 0 /\ left' = [left EXCEPT ![kind] = @ - 1]
  BY DEF Spend
<1> QED
  BY <1>1, <1>2

\* The manager's records.
LEMMA FileTyped ==
    ASSUME NEW s \in Files
    PROVE  /\ s.uuid \in 0 .. MaxUuid /\ s.prevUuid \in 0 .. MaxUuid
           /\ s.seqIn \in 0 .. MaxSeq /\ s.neg \in BOOLEAN
           /\ \A n \in 0 .. MaxSeq : [s EXCEPT !.seqIn = n] \in Files
           /\ \A b \in BOOLEAN : [s EXCEPT !.neg = b] \in Files
           /\ \A u, p \in 0 .. MaxUuid : [s EXCEPT !.uuid = u, !.prevUuid = p] \in Files
BY DEF Files

\* A uint16_t is a number.
LEMMA Uint16Typed ==
    /\ \A n \in Int : Uint16(n) \in Uint16s
    /\ Uint16s \subseteq Nat
<1>1. \A n \in Int : n % 65536 \in Nat /\ n % 65536 < 65536
  BY SMT
<1>2. \A n \in Int : Uint16(n) \in Uint16s
  BY <1>1, SMT DEF Uint16, Uint16s
<1> QED
  BY <1>2, SMT DEF Uint16s

\* gapInfo holds whatever numbers it is given.
LEMMA GapTyped ==
    ASSUME NEW expected \in Nat, NEW incoming \in 1 .. MaxSeq + 1
    PROVE  GapBetween(expected, incoming) \in [start : Nat, end : 0 .. MaxSeq, count : Uint16s]
<1>1. incoming - 1 \in 0 .. MaxSeq /\ incoming - expected \in Int
  BY SessionConstants
<1> QED
  BY <1>1, Uint16Typed DEF GapBetween

\* The file of a fresh start.
LEMMA FreshTyped == FreshFile \in Files /\ NoGap \in [start : Nat, end : 0 .. MaxSeq, count : Uint16s]
                    /\ NoBatch \in [to : 0 .. MaxSeq, then : {"none", "status", "retrans"}]
                    /\ Fresh \in [Seqs -> 0 .. 2]
BY SessionConstants DEF FreshFile, Files, NoGap, NoBatch, Fresh, Uint16s

\* What a retransmission request is answered with: a refusal, or messages one after
\* the other from the one asked for, as many as were asked for and fit a batch.
LEMMA Resent ==
    ASSUME TypeOK, ExRetransmit
    PROVE  \/ inbox' = inbox \o <<[type |-> "RetransmitReject"]>>
           \/ \E more \in Seq(Messages) :
                /\ inbox' = inbox \o more
                /\ \A i \in DOMAIN more : more[i].type = "App" /\ more[i].seq = outbox[1].from + i - 1
                /\ Len(more) <= MaxBatch
                /\ outbox[1].from + Len(more) - 1 <= ex.sent
                /\ outbox[1].count # 0 => Len(more) <= outbox[1].count
<1>1. /\ Head(outbox) \in Requests /\ Head(outbox) = outbox[1]
      /\ outbox[1].type = "RetransmitRequest"
  <2>1. ExReceive("RetransmitRequest")
    BY DEF ExRetransmit
  <2> QED
    BY <2>1, ExReceived
<1> DEFINE req == Head(outbox)
           last == ex.sent
           upTo == IF req.count = 0 THEN last ELSE req.from + req.count - 1
           known == req.from \in 1 .. last /\ upTo <= last
           end == IF upTo > req.from + MaxBatch - 1 THEN req.from + MaxBatch - 1 ELSE upTo
           more == [i \in 1 .. (end - req.from + 1) |-> [type |-> "App", seq |-> req.from + i - 1]]
<1>2. \/ inbox' = inbox \o <<[type |-> "RetransmitReject"]>>
      \/ known /\ inbox' = inbox \o more
  BY DEF ExRetransmit
<1> SUFFICES ASSUME known, inbox' = inbox \o more
             PROVE  \E m \in Seq(Messages) :
                /\ inbox' = inbox \o m
                /\ \A i \in DOMAIN m : m[i].type = "App" /\ m[i].seq = outbox[1].from + i - 1
                /\ Len(m) <= MaxBatch
                /\ outbox[1].from + Len(m) - 1 <= ex.sent
                /\ outbox[1].count # 0 => Len(m) <= outbox[1].count
  BY <1>2
<1>3. /\ req.from \in Nat /\ req.count \in 0 .. MaxBatch /\ last \in 0 .. MaxSeq
      /\ MaxBatch \in Nat \ {0} /\ MaxSeq \in Nat \ {0}
  BY <1>1, RequestCarries, SessionConstants DEF TypeOK
<1>4. req.from \in 1 .. last /\ upTo <= last
  OBVIOUS
<1> DEFINE n == end - req.from + 1
<1>5. /\ n \in Nat /\ n <= MaxBatch /\ req.from + n - 1 <= last
      /\ req.count # 0 => n <= req.count
  <2>1. upTo = IF req.count = 0 THEN last ELSE req.from + req.count - 1
    OBVIOUS
  <2>2. end = IF upTo > req.from + MaxBatch - 1 THEN req.from + MaxBatch - 1 ELSE upTo
    OBVIOUS
  <2>3. n = end - req.from + 1
    OBVIOUS
  <2> HIDE DEF req, last, upTo, known, end, more, n
  <2>4. req.from \in Nat /\ req.count \in Nat /\ last \in Nat /\ MaxBatch \in Nat \ {0}
    BY <1>3
  <2>5. req.from >= 1 /\ req.from <= last /\ upTo <= last
    BY <1>4, <2>4
  <2>6. upTo \in Int /\ upTo >= req.from /\ (req.count # 0 => upTo = req.from + req.count - 1)
    BY <2>1, <2>4, <2>5
  <2>7. end \in Int /\ end <= upTo /\ end <= req.from + MaxBatch - 1 /\ end >= req.from
    BY <2>2, <2>4, <2>6
  <2>8. n \in Nat /\ n <= MaxBatch /\ req.from + n - 1 <= last
    BY <2>3, <2>4, <2>5, <2>6, <2>7
  <2>9. ASSUME req.count # 0 PROVE n <= req.count
    BY <2>3, <2>4, <2>6, <2>7, <2>9
  <2> QED
    BY <2>8, <2>9
<1>6. more = [i \in 1 .. n |-> [type |-> "App", seq |-> req.from + i - 1]]
  OBVIOUS
<1> HIDE DEF n, more, end, upTo, known, req, last
<1>7. \A i \in 1 .. n : req.from + i - 1 \in Seqs
  BY <1>3, <1>4, <1>5 DEF Seqs
<1>8. more \in Seq(Messages) /\ Len(more) = n /\ DOMAIN more = 1 .. n
  <2>1. \A i \in 1 .. n : [type |-> "App", seq |-> req.from + i - 1] \in Messages
    BY <1>7 DEF Messages
  <2> QED
    BY <2>1, <1>5, <1>6
<1>9. \A i \in DOMAIN more : more[i].type = "App" /\ more[i].seq = req.from + i - 1
  BY <1>6, <1>8
<1> QED
  BY <1>1, <1>5, <1>8, <1>9 DEF req, last

\* The exchange's steps keep the types.
LEMMA ExchangeTypeOK == TypeOK /\ Exchange => TypeOK'
<1> SUFFICES ASSUME TypeOK, Exchange PROVE TypeOK'
  OBVIOUS
<1>t. /\ inbox \in Seq(Messages) /\ outbox \in Seq(Requests)
      /\ ex \in [uuid : 0 .. MaxUuid, sent : 0 .. MaxSeq, known : BOOLEAN, on : BOOLEAN]
      /\ left \in [FaultKinds -> Nat]
  BY DEF TypeOK
<1>1. ASSUME NEW lost \in BOOLEAN, Publish(lost) PROVE TypeOK'
  <2>1. left' \in [FaultKinds -> Nat]
    BY <1>1, <1>t, Spent DEF Publish, FaultKinds
  <2>2. ex.sent + 1 \in Seqs /\ ex' = [ex EXCEPT !.sent = @ + 1]
    BY <1>1, <1>t, SessionConstants DEF Publish, Seqs
  <2>3. ex' \in [uuid : 0 .. MaxUuid, sent : 0 .. MaxSeq, known : BOOLEAN, on : BOOLEAN]
    <3>1. ex.sent + 1 \in 0 .. MaxSeq
      BY <2>2, SessionConstants DEF Seqs
    <3> QED
      BY <2>2, <3>1, <1>t
  <2>4. [type |-> "App", seq |-> ex.sent + 1] \in Messages
    BY <2>2 DEF Messages
  <2>5. inbox' \in Seq(Messages)
    BY <1>1, <2>4, <1>t, AppendAdds DEF Publish
  <2> QED
    BY <1>1, <2>1, <2>3, <2>5 DEF Publish, TypeOK, client, ghosts
<1>2. CASE ExNegotiate
  <2>1. outbox' \in Seq(Requests)
    BY <1>2, ExReceived DEF ExNegotiate
  <2>2. left' \in [FaultKinds -> Nat]
    BY <1>2, <1>t, Spent DEF ExNegotiate, FaultKinds
  <2>3. ex' \in [uuid : 0 .. MaxUuid, sent : 0 .. MaxSeq, known : BOOLEAN, on : BOOLEAN]
    <3>1. CASE /\ ex.uuid < MaxUuid
               /\ ex' = [uuid |-> ex.uuid + 1, sent |-> 0, known |-> FALSE, on |-> FALSE]
      <4>1. ex.uuid + 1 \in 0 .. MaxUuid /\ 0 \in 0 .. MaxSeq
        BY <3>1, <1>t, SessionConstants
      <4> QED
        BY <3>1, <4>1
    <3> QED
      BY <3>1, <1>2, <1>t DEF ExNegotiate
  <2>4. [type |-> "NegotiationReject"] \in Messages
    BY DEF Messages
  <2>5. ex.uuid < MaxUuid =>
            [type |-> "NegotiationResponse", uuid |-> ex.uuid + 1, prevUuid |-> ex.uuid] \in Messages
    BY <1>t, SessionConstants DEF Messages
  <2>6. inbox' \in Seq(Messages)
    <3>1. CASE ex.uuid < MaxUuid /\ inbox' = Append(inbox, [type |-> "NegotiationResponse",
                                     uuid |-> ex.uuid + 1, prevUuid |-> ex.uuid])
      BY <3>1, <2>5, <1>t, AppendAdds
    <3>2. CASE inbox' = Append(inbox, [type |-> "NegotiationReject"])
      BY <3>2, <2>4, <1>t, AppendAdds
    <3> QED
      BY <1>2, <3>1, <3>2 DEF ExNegotiate
  <2>7. ever' \subseteq Seqs
    BY <1>2 DEF ExNegotiate, TypeOK
  <2> QED
    BY <1>2, <2>1, <2>2, <2>3, <2>6, <2>7 DEF ExNegotiate, TypeOK, client
<1>3. CASE ExEstablish
  <2>1. outbox' \in Seq(Requests)
    BY <1>3, ExReceived DEF ExEstablish
  <2>2. left' \in [FaultKinds -> Nat]
    BY <1>3, <1>t, Spent DEF ExEstablish, FaultKinds
  <2>3. ex' \in [uuid : 0 .. MaxUuid, sent : 0 .. MaxSeq, known : BOOLEAN, on : BOOLEAN]
    BY <1>3, <1>t DEF ExEstablish
  <2>4. \A n \in Seqs : [type |-> "EstablishmentReject", next |-> n] \in Messages
    BY DEF Messages
  <2> DEFINE ack == [type |-> "EstablishmentAck", uuid |-> ex.uuid,
                     prevUuid |-> IF ex.known THEN ex.uuid ELSE ex.uuid - 1,
                     next |-> ex.sent + 1, prev |-> ex.sent]
  <2>5. ex.uuid # 0 => ack \in Messages
    <3>1. /\ ex.sent + 1 \in 1 .. MaxSeq + 1 /\ ex.sent \in 0 .. MaxSeq /\ ex.uuid \in 0 .. MaxUuid
      BY <1>t, SessionConstants
    <3>2. ex.uuid # 0 => (IF ex.known THEN ex.uuid ELSE ex.uuid - 1) \in 0 .. MaxUuid
      BY <3>1, SessionConstants
    <3> QED
      BY <3>1, <3>2 DEF Messages
  <2>6. inbox' \in Seq(Messages)
    <3>1. CASE ex.uuid # 0 /\ inbox' = Append(inbox, ack)
      BY <3>1, <2>5, <1>t, AppendAdds
    <3>2. CASE \E n \in Seqs : inbox' = Append(inbox, [type |-> "EstablishmentReject", next |-> n])
      BY <3>2, <2>4, <1>t, AppendAdds
    <3> QED
      BY <1>3, <3>1, <3>2 DEF ExEstablish
  <2> QED
    BY <1>3, <2>1, <2>2, <2>3, <2>6 DEF ExEstablish, TypeOK, client, ghosts
<1>4. CASE ExRetransmit
  <2>1. outbox' \in Seq(Requests) /\ Head(outbox) \in Requests /\ Head(outbox).type = "RetransmitRequest"
    BY <1>4, ExReceived DEF ExRetransmit
  <2>2. left' \in [FaultKinds -> Nat]
    BY <1>4, <1>t, Spent DEF ExRetransmit, FaultKinds
  <2>3. <<[type |-> "RetransmitReject"]>> \in Seq(Messages)
    BY Single DEF Messages
  <2>4. inbox' \in Seq(Messages)
    <3>1. CASE inbox' = inbox \o <<[type |-> "RetransmitReject"]>>
      BY <3>1, <2>3, <1>t, ConcatProperties
    <3>2. CASE \E more \in Seq(Messages) : inbox' = inbox \o more
      BY <3>2, <1>t, ConcatProperties
    <3> QED
      BY <1>4, <3>1, <3>2, Resent
  <2> QED
    BY <1>4, <2>1, <2>2, <2>4 DEF ExRetransmit, TypeOK, client, ghosts
<1>5. CASE ExIgnore
  BY <1>5, ExReceived DEF ExIgnore, TypeOK, client, ghosts
<1>6. [type |-> "Terminate"] \in Messages
  BY DEF Messages
<1>7. CASE ExTerminateReply
  <2>1. outbox' \in Seq(Requests)
    BY <1>7, ExReceived DEF ExTerminateReply
  <2>2. inbox' \in Seq(Messages)
    BY <1>7, <1>6, <1>t, AppendAdds DEF ExTerminateReply
  <2> QED
    BY <1>7, <2>1, <2>2 DEF ExTerminateReply, TypeOK, client, ghosts
<1>8. CASE ExTerminate
  <2>1. left' \in [FaultKinds -> Nat]
    BY <1>8, <1>t, Spent DEF ExTerminate, FaultKinds
  <2>2. inbox' \in Seq(Messages)
    BY <1>8, <1>6, <1>t, AppendAdds DEF ExTerminate
  <2> QED
    BY <1>8, <2>1, <2>2 DEF ExTerminate, TypeOK, client, ghosts
<1> QED
  BY <1>1, <1>2, <1>3, <1>4, <1>5, <1>7, <1>8 DEF Exchange, ExAnswer

\* What ends the process or starts it keeps the types.
LEMMA ProcessTypeOK == TypeOK /\ (Launch \/ Connect \/ Close \/ Exit \/ Persist \/ Wipe) => TypeOK'
<1> SUFFICES ASSUME TypeOK, Launch \/ Connect \/ Close \/ Exit \/ Persist \/ Wipe PROVE TypeOK'
  OBVIOUS
<1>t. /\ inbox \in Seq(Messages) /\ left \in [FaultKinds -> Nat]
      /\ sess \in Files /\ saved \in Files /\ disk \in Files
      /\ ex \in [uuid : 0 .. MaxUuid, sent : 0 .. MaxSeq, known : BOOLEAN, on : BOOLEAN]
      /\ fileFloor \in 0 .. MaxSeq /\ floor \in 0 .. MaxSeq
  BY DEF TypeOK
<1>0. <<>> \in Seq(Messages) /\ <<>> \in Seq(Requests) /\ 0 \in 0 .. MaxSeq
  BY EmptySeq, SessionConstants
<1>1. CASE Launch
  <2>1. left' \in [FaultKinds -> Nat]
    BY <1>1, <1>t, Spent DEF Launch, FaultKinds
  <2>2. sess' \in Files /\ saved' \in Files /\ disk.seqIn \in 0 .. MaxSeq
    BY <1>1, <1>t, FileTyped DEF Launch, Update
  <2>3. times' \in [Seqs -> 0 .. 2]
    BY <1>1, FreshTyped DEF Launch
  <2> QED
    BY <1>1, <2>1, <2>2, <2>3, <1>t DEF Launch, TypeOK, SessionStates
<1>2. CASE Connect
  <2>1. left' \in [FaultKinds -> Nat]
    BY <1>2, <1>t, Spent DEF Connect, FaultKinds
  <2> QED
    BY <1>2, <2>1 DEF Connect, TypeOK, ghosts
<1>3. CASE Close
  <2>1. left' \in [FaultKinds -> Nat]
    BY <1>3, <1>t, Spent DEF Close, FaultKinds
  <2>2. inbox' \in Seq(Messages)
    BY <1>3, <1>t, PrefixKeeps DEF Close
  <2>3. ex' \in [uuid : 0 .. MaxUuid, sent : 0 .. MaxSeq, known : BOOLEAN, on : BOOLEAN]
    BY <1>3, <1>t DEF Close
  <2> QED
    BY <1>3, <1>0, <2>1, <2>2, <2>3 DEF Close, TypeOK, ghosts
<1>4. CASE Exit
  <2>1. left' \in [FaultKinds -> Nat]
    BY <1>4, <1>t, Spent DEF Exit, FaultKinds
  <2> QED
    BY <1>4, <1>0, <2>1, <1>t, FreshTyped DEF Exit, Gone, TypeOK, ghosts, SessionStates
<1>5. CASE Persist
  BY <1>5 DEF Persist, TypeOK, client
<1>6. CASE Wipe
  <2>1. left' \in [FaultKinds -> Nat]
    BY <1>6, <1>t, Spent DEF Wipe, FaultKinds
  <2> QED
    BY <1>6, <1>0, <2>1, FreshTyped DEF Wipe, TypeOK, client
<1> QED
  BY <1>1, <1>2, <1>3, <1>4, <1>5, <1>6

\* The poll thread and the commands keep the types.
LEMMA PollTypeOK == TypeOK /\ (Dispatch \/ RetransCommand \/ TerminateCommand) => TypeOK'
<1> SUFFICES ASSUME TypeOK, Dispatch \/ RetransCommand \/ TerminateCommand PROVE TypeOK'
  OBVIOUS
<1>t. /\ outbox \in Seq(Requests) /\ left \in [FaultKinds -> Nat] /\ sess \in Files /\ saved \in Files
      /\ base \in 0 .. MaxSeq /\ floor \in 0 .. MaxSeq /\ 1 \in 0 .. MaxSeq
  BY SessionConstants DEF TypeOK
<1>0. <<[type |-> "Negotiate"]>> \in Seq(Requests) /\ TerminateRequest \in Seq(Requests)
      /\ <<[type |-> "Establish", uuid |-> sess.uuid]>> \in Seq(Requests)
  <2>1. [type |-> "Negotiate"] \in Requests /\ [type |-> "Terminate"] \in Requests
        /\ [type |-> "Establish", uuid |-> sess.uuid] \in Requests
    BY <1>t, FileTyped DEF Requests
  <2> QED
    BY <2>1, Single DEF TerminateRequest
<1>1. CASE Dispatch
  <2>0. TypeOK /\ UNCHANGED <<link, gap, recov, batch, inHand, disk, inbox, ex, left, times, ever,
                   fileFloor>>
    BY <1>1 DEF Dispatch
  <2>1. CASE st' = "Disconnected" /\ UNCHANGED <<sess, saved, outbox, base, floor>>
    BY <2>1, <2>0 DEF TypeOK, SessionStates
  <2>2. CASE EstablishSession
    <3>1. outbox' \in Seq(Requests)
      BY <2>2, <1>0, <1>t, WireTyped DEF EstablishSession
    <3> QED
      BY <2>2, <2>0, <3>1 DEF TypeOK, SessionStates, EstablishSession
  <2>3. CASE NegotiateSession
    <3>1. outbox' \in Seq(Requests)
      BY <2>3, <1>0, <1>t, WireTyped DEF NegotiateSession
    <3>2. sess' \in Files /\ saved' \in Files
      BY <2>3, <1>t, FileTyped DEF NegotiateSession, Update
    <3> QED
      BY <2>3, <2>0, <3>1, <3>2, <1>t DEF TypeOK, SessionStates, NegotiateSession
  <2> QED
    BY <1>1, <2>1, <2>2, <2>3 DEF Dispatch
<1>2. CASE RetransCommand
  <2>1. left' \in [FaultKinds -> Nat]
    BY <1>2, <1>t, Spent DEF RetransCommand, FaultKinds
  <2>2. outbox' \in Seq(Requests)
    <3>1. sess.seqIn \in Nat /\ 0 \in Nat
      <4>1. sess.seqIn \in 0 .. MaxSeq
        BY <1>t, FileTyped
      <4> QED
        BY <4>1, SessionConstants
    <3>2. RetransmitRequest(sess.seqIn, 0) \in Seq(Requests)
      BY <3>1, RequestTyped
    <3> QED
      BY <1>2, <1>t, <3>2, WireTyped DEF RetransCommand
  <2> QED
    BY <1>2, <2>1, <2>2 DEF RetransCommand, TypeOK, SessionStates, ghosts
<1>3. CASE TerminateCommand
  <2>1. left' \in [FaultKinds -> Nat]
    BY <1>3, <1>t, Spent DEF TerminateCommand, FaultKinds
  <2>2. outbox' \in Seq(Requests)
    BY <1>3, <1>t, <1>0, WireTyped DEF TerminateCommand
  <2>3. sess' \in Files /\ saved' \in Files
    BY <1>3, <1>t DEF TerminateCommand, Update
  <2> QED
    BY <1>3, <2>1, <2>2, <2>3 DEF TerminateCommand, TypeOK, SessionStates, ghosts
<1> QED
  BY <1>1, <1>2, <1>3

\* The session messages keep the types.
LEMMA SessionTypeOK == TypeOK /\ Session => TypeOK'
<1> SUFFICES ASSUME TypeOK, Session PROVE TypeOK'
  OBVIOUS
<1>t. /\ inbox \in Seq(Messages) /\ outbox \in Seq(Requests) /\ sess \in Files
      /\ ex \in [uuid : 0 .. MaxUuid, sent : 0 .. MaxSeq, known : BOOLEAN, on : BOOLEAN]
      /\ 0 \in 0 .. MaxSeq /\ base \in 0 .. MaxSeq /\ floor \in 0 .. MaxSeq
  BY SessionConstants DEF TypeOK
<1>1. CASE OnNegotiationResponse
  <2>1. inbox' \in Seq(Messages) /\ Head(inbox) \in Messages /\ Head(inbox).type = "NegotiationResponse"
    BY <1>1, Received DEF OnNegotiationResponse
  <2>2. Head(inbox).uuid \in 0 .. MaxUuid /\ Head(inbox).prevUuid \in 0 .. MaxUuid
    BY <2>1, Carries
  <2>3. sess' \in Files /\ saved' \in Files
    BY <1>1, <2>2, <1>t DEF OnNegotiationResponse, Update, Files
  <2> QED
    BY <1>1, <2>1, <2>3 DEF OnNegotiationResponse, TypeOK, SessionStates, ghosts
<1>2. CASE OnNegotiationReject
  BY <1>2, Received DEF OnNegotiationReject, TypeOK, SessionStates, Update, ghosts
<1>3. CASE OnEstablishmentAck
  <2>1. inbox' \in Seq(Messages) /\ Head(inbox) \in Messages /\ Head(inbox).type = "EstablishmentAck"
    BY <1>3, Received DEF OnEstablishmentAck
  <2> DEFINE ack == Head(inbox)
             s == [sess EXCEPT !.uuid = ack.uuid, !.prevUuid = ack.prevUuid]
  <2>2. /\ ack.uuid \in 0 .. MaxUuid /\ ack.prevUuid \in 0 .. MaxUuid
        /\ ack.next \in 1 .. MaxSeq + 1 /\ ack.prev \in 0 .. MaxSeq
    BY <2>1, Carries
  <2>3. s \in Files /\ s.seqIn \in 0 .. MaxSeq /\ [s EXCEPT !.seqIn = 0] \in Files /\ s.seqIn = sess.seqIn
    BY <2>2, <1>t, FileTyped DEF Files
  <2>4. sess' \in Files /\ saved' \in Files
    BY <1>3, <2>3 DEF OnEstablishmentAck, Update
  <2>5. gap' \in [start : Nat, end : 0 .. MaxSeq, count : Uint16s]
    <3>1. CASE UNCHANGED gap
      BY <3>1 DEF TypeOK
    <3>2. CASE gap' = GapBetween(s.seqIn + 1, ack.next)
      <4>1. s.seqIn + 1 \in Nat /\ ack.next \in 1 .. MaxSeq + 1
        BY <2>2, <2>3
      <4> HIDE DEF s, ack
      <4> QED
        BY <3>2, <4>1, GapTyped
    <3> QED
      BY <1>3, <3>1, <3>2 DEF OnEstablishmentAck
  <2>6. outbox' \in Seq(Requests)
    <3>1. CASE UNCHANGED outbox
      BY <3>1, <1>t
    <3>2. CASE ack.prev > s.seqIn /\ Wire(RetransmitRequest(s.seqIn + 1, ack.prev - s.seqIn))
      <4>1. s.seqIn + 1 \in Nat /\ ack.prev - s.seqIn \in Nat
        BY <3>2, <2>2, <2>3
      <4> QED
        BY <3>2, <4>1, RequestTyped, WireTyped, <1>t
    <3> QED
      BY <1>3, <3>1, <3>2 DEF OnEstablishmentAck
  <2>7. base' \in 0 .. MaxSeq /\ floor' \in 0 .. MaxSeq
    BY <1>3, <1>t DEF OnEstablishmentAck
  <2>8. st' \in SessionStates
    BY <1>3 DEF OnEstablishmentAck, SessionStates
  <2> QED
    BY <1>3, <2>1, <2>4, <2>5, <2>6, <2>7, <2>8 DEF OnEstablishmentAck, TypeOK
<1>4. CASE ExitOnAck
  BY <1>4, <1>t, FreshTyped, EmptySeq DEF ExitOnAck, Gone, TypeOK, SessionStates, ghosts
<1>5. CASE OnEstablishmentReject
  <2>1. inbox' \in Seq(Messages) /\ Head(inbox) \in Messages /\ Head(inbox).type = "EstablishmentReject"
    BY <1>5, Received DEF OnEstablishmentReject
  <2>2. Head(inbox).next \in 0 .. MaxSeq
    BY <2>1, Carries, SessionConstants DEF Seqs
  <2>3. sess' \in Files /\ saved' \in Files
    BY <1>5, <2>2, <1>t, FileTyped DEF OnEstablishmentReject, Update
  <2> QED
    BY <1>5, <2>1, <2>2, <2>3 DEF OnEstablishmentReject, TypeOK, SessionStates
<1>6. CASE OnTerminate
  BY <1>6, Received DEF OnTerminate, TypeOK, SessionStates, Update, ghosts
<1>7. CASE OnRetransmitReject
  BY <1>7, Received DEF OnRetransmitReject, TypeOK, SessionStates, ghosts
<1> QED
  BY <1>1, <1>2, <1>3, <1>4, <1>5, <1>6, <1>7 DEF Session

\* A set of sequence numbers has its smallest.
LEMMA SmallestIs ==
    ASSUME NEW S \in SUBSET Seqs, S # {}
    PROVE  Smallest(S) \in S /\ \A y \in S : Smallest(S) <= y
<1>1. S \in SUBSET Nat
  BY SessionConstants DEF Seqs
<1>2. \E x \in S : \A y \in S : ~(<<y, x>> \in OpToRel(<, Nat))
  BY <1>1, NatLessThanWellFounded, WFMin
<1>3. PICK x \in S : \A y \in S : ~(<<y, x>> \in OpToRel(<, Nat))
  BY <1>2
<1>4. ASSUME NEW y \in S PROVE x <= y
  <2>1. <<y, x>> \notin {ss \in Nat \X Nat : ss[1] < ss[2]}
    BY <1>3 DEF OpToRel
  <2>2. y \in Nat /\ x \in Nat
    BY <1>1
  <2> QED
    BY <2>1, <2>2
<1> QED
  BY <1>4 DEF Smallest

\* The run of queued messages ends at a message of the queue, or where it starts.
LEMMA RunEnds ==
    ASSUME sess \in Files, NEW queued \in SUBSET Seqs, NEW h \in sess.seqIn .. MaxSeq,
           EndOfRun(queued, h)
    PROVE  /\ h \in 0 .. MaxSeq /\ h >= sess.seqIn /\ h + 1 \notin queued
           /\ h > sess.seqIn => h \in queued
<1>1. sess.seqIn \in 0 .. MaxSeq /\ MaxSeq \in Nat
  BY FileTyped, SessionConstants
<1>2. /\ h >= sess.seqIn /\ h + 1 \notin queued
      /\ \A x \in (sess.seqIn + 1) .. h : x \in queued
  BY DEF EndOfRun
<1> QED
  BY <1>1, <1>2

\* The application messages keep the types.
LEMMA ApplicationTypeOK == TypeOK /\ Application => TypeOK'
<1> SUFFICES ASSUME TypeOK, Application PROVE TypeOK'
  OBVIOUS
<1>t. /\ inbox \in Seq(Messages) /\ outbox \in Seq(Requests) /\ sess \in Files
      /\ sess.seqIn \in 0 .. MaxSeq /\ recov \subseteq Seqs /\ inHand \in 0 .. MaxSeq
      /\ gap \in [start : Nat, end : 0 .. MaxSeq, count : Uint16s]
      /\ batch \in [to : 0 .. MaxSeq, then : {"none", "status", "retrans"}]
      /\ MaxSeq \in Nat \ {0} /\ MaxBatch \in Nat \ {0}
  BY SessionConstants, FileTyped DEF TypeOK
<1>0. TerminateRequest \in Seq(Requests)
  BY Single DEF TerminateRequest, Requests
<1>r. ASSUME Receive("App")
      PROVE  inbox' \in Seq(Messages) /\ Head(inbox).seq \in Seqs
  BY <1>r, Received, Carries
<1>1. CASE InSequence
  <2>1. sess' \in Files /\ saved' \in Files
    <3>1. sess.seqIn + 1 \in 0 .. MaxSeq
      BY <1>1, <1>r, <1>t DEF InSequence, Seqs
    <3> QED
      BY <1>1, <3>1, FileTyped, <1>t DEF InSequence, Update
  <2>2. inHand' \in 0 .. MaxSeq
    BY <1>1, <1>r, <1>t DEF InSequence, Seqs
  <2> QED
    BY <1>1, <1>r, <2>1, <2>2 DEF InSequence, TypeOK, ghosts
<1>2. CASE Gap
  <2>1. gap' \in [start : Nat, end : 0 .. MaxSeq, count : Uint16s]
    <3>1. sess.seqIn + 1 \in Nat /\ Head(inbox).seq \in 1 .. MaxSeq + 1
      BY <1>2, <1>r, <1>t DEF Gap, Seqs
    <3> QED
      BY <1>2, <3>1, GapTyped DEF Gap
  <2>2. outbox' \in Seq(Requests)
    <3>1. gap'.start \in Nat /\ gap'.count \in Nat
      BY <2>1, Uint16Typed
    <3>2. PICK from, count : from = gap'.start /\ count = gap'.count
      OBVIOUS
    <3>3. RetransmitRequest(from, count) \in Seq(Requests)
      BY <3>1, <3>2, RequestTyped
    <3>4. Wire(RetransmitRequest(from, count))
      BY <1>2, <3>2 DEF Gap
    <3> QED
      BY <3>3, <3>4, <1>t, WireTyped
  <2> QED
    BY <1>2, <1>r, <1>t, <2>1, <2>2 DEF Gap, TypeOK, SessionStates, ghosts
<1>3. CASE TooLow
  <2>1. outbox' \in Seq(Requests)
    BY <1>3, <1>0, <1>t, WireTyped DEF TooLow
  <2> QED
    BY <1>3, <1>r, <2>1 DEF TooLow, TypeOK, SessionStates, Update, ghosts
<1>4. CASE Drain
  <2> DEFINE queued == recov \cup {gap.end}
  <2>1. Head(inbox).seq = gap.end /\ gap.end \in Seqs
    BY <1>4, <1>r DEF Drain
  <2>2. queued \in SUBSET Seqs
    BY <2>1, <1>t
  <2>3. PICK h \in sess.seqIn .. MaxSeq :
              /\ EndOfRun(queued, h)
              /\ LET rest == {x \in queued : x > h}
                 IN  /\ recov' = rest
                     /\ IF rest = {}
                        THEN /\ batch' = IF h > sess.seqIn THEN [to |-> h, then |-> "status"]
                                         ELSE NoBatch
                             /\ inHand' = IF h > sess.seqIn THEN 0 ELSE gap.end
                             /\ UNCHANGED gap
                        ELSE /\ gap' = GapBetween(h + 1, Smallest(rest))
                             /\ batch' = [to |-> h, then |-> "retrans"]
                             /\ UNCHANGED inHand
    BY <1>4 DEF Drain
  <2> DEFINE rest == {x \in queued : x > h}
  <2> HIDE DEF queued
  <2>4. h \in 0 .. MaxSeq /\ rest \in SUBSET Seqs
    BY <2>2, <2>3, RunEnds, <1>t
  <2>5. recov' \subseteq Seqs
    BY <2>3, <2>4
  <2>6. batch' \in [to : 0 .. MaxSeq, then : {"none", "status", "retrans"}]
    BY <2>3, <2>4, FreshTyped
  <2>7. inHand' \in 0 .. MaxSeq
    BY <2>3, <1>t, <2>4
  <2>8. gap' \in [start : Nat, end : 0 .. MaxSeq, count : Uint16s]
    <3>1. CASE rest = {}
      BY <3>1, <2>3, <1>t
    <3>2. CASE rest # {}
      <4>1. Smallest(rest) \in Seqs
        BY <3>2, <2>4, SmallestIs
      <4>2. Smallest(rest) \in 1 .. MaxSeq + 1 /\ h + 1 \in Nat
        BY <4>1, <2>4, <1>t DEF Seqs
      <4> QED
        BY <3>2, <4>2, <2>3, GapTyped
    <3> QED
      BY <3>1, <3>2
  <2> QED
    BY <1>4, <1>r, <2>5, <2>6, <2>7, <2>8 DEF Drain, TypeOK, SessionStates, ghosts
<1>5. CASE NextBatch
  <2>1. gap' \in [start : Nat, end : 0 .. MaxSeq, count : Uint16s]
    <3>1. Head(inbox).seq + 1 \in Nat /\ gap.count - MaxBatch \in Int
      <4>1. gap.count \in Nat
        BY <1>t, Uint16Typed
      <4>2. Head(inbox).seq \in Seqs
        BY <1>5, <1>r DEF NextBatch
      <4>3. Head(inbox).seq \in Nat /\ MaxBatch \in Nat
        BY <4>2, <1>t, SessionConstants DEF Seqs
      <4> QED
        BY <4>1, <4>3
    <3>2. Uint16(gap.count - MaxBatch) \in Uint16s
      BY <3>1, Uint16Typed
    <3> QED
      BY <1>5, <3>1, <3>2, <1>t DEF NextBatch
  <2>2. outbox' \in Seq(Requests)
    <3>1. gap'.start \in Nat /\ gap'.count \in Nat
      BY <2>1, Uint16Typed
    <3>2. PICK from, count : from = gap'.start /\ count = gap'.count
      OBVIOUS
    <3>3. RetransmitRequest(from, count) \in Seq(Requests)
      BY <3>1, <3>2, RequestTyped
    <3>4. Wire(RetransmitRequest(from, count)) \/ UNCHANGED outbox
      BY <1>5, <3>2 DEF NextBatch
    <3> QED
      BY <3>3, <3>4, <1>t, WireTyped
  <2> QED
    BY <1>5, <1>r, <1>t, <2>1, <2>2 DEF NextBatch, TypeOK, ghosts
<1>6. CASE Queued
  BY <1>6, <1>r, <1>t DEF Queued, TypeOK, ghosts
<1>7. CASE ReplayNext
  <2>1. sess.seqIn + 1 \in 0 .. MaxSeq
    BY <1>7, <1>t DEF ReplayNext
  <2>2. sess' \in Files /\ saved' \in Files
    BY <1>7, <2>1, FileTyped, <1>t DEF ReplayNext, Update
  <2> QED
    BY <1>7, <2>1, <2>2 DEF ReplayNext, TypeOK, ghosts
<1>8. CASE ReplayDone
  <2>1. outbox' \in Seq(Requests)
    <3>1. gap.start \in Nat /\ gap.count \in Nat
      BY <1>t, Uint16Typed
    <3>2. RetransmitRequest(gap.start, gap.count) \in Seq(Requests)
      BY <3>1, RequestTyped
    <3> QED
      BY <3>2, <1>8, <1>t, WireTyped DEF ReplayDone
  <2>2. st' \in SessionStates
    BY <1>8 DEF ReplayDone, TypeOK, SessionStates
  <2> QED
    BY <1>8, <2>1, <2>2, FreshTyped DEF ReplayDone, TypeOK, ghosts
<1>9. CASE HandleMessage
  <2>1. inHand \in Seqs /\ times \in [Seqs -> 0 .. 2] /\ 0 \in 0 .. MaxSeq
    BY <1>9, <1>t DEF HandleMessage, Seqs, TypeOK
  <2>2. times' \in [Seqs -> 0 .. 2] /\ ever' \subseteq Seqs
    BY <1>9, <2>1 DEF HandleMessage, TypeOK
  <2> QED
    BY <1>9, <2>1, <2>2 DEF HandleMessage, TypeOK
<1> QED
  BY <1>1, <1>2, <1>3, <1>4, <1>5, <1>6, <1>7, <1>8, <1>9 DEF Application

\* No step breaks a type.
LEMMA NextTypeOK == TypeOK /\ [Next]_vars => TypeOK'
<1>1. TypeOK /\ UNCHANGED vars => TypeOK'
  BY DEF TypeOK, vars, client, ghosts
<1> QED
  BY <1>1, ExchangeTypeOK, ProcessTypeOK, PollTypeOK, SessionTypeOK, ApplicationTypeOK DEF Next

\* The types hold at the start.
LEMMA InitTypeOK == Init => TypeOK
<1> SUFFICES ASSUME Init PROVE TypeOK
  OBVIOUS
<1>1. <<>> \in Seq(Messages) /\ <<>> \in Seq(Requests) /\ 0 \in 0 .. MaxSeq /\ 0 \in 0 .. MaxUuid
  BY EmptySeq, SessionConstants
<1> QED
  BY <1>1, FreshTyped, SessionConstants DEF Init, TypeOK, SessionStates

-----------------------------------------------------------------------------
(* The login and what follows it.                                          *)

\* During the login only its own messages are received.
LEMMA LoginReceives ==
    ASSUME TypeOK, LoggingIn, NEW type, Receive(type)
    PROVE  /\ \/ Answered /\ inbox' = <<>> /\ type = inbox[1].type
              \/ Acknowledged /\ type = "EstablishmentAck"
           /\ Connected /\ outbox = <<>> /\ ~Starting
<1>1. /\ inbox # <<>> /\ inbox[1].type = type /\ Len(inbox') = Len(inbox) - 1
      /\ inbox' \in Seq(Messages)
  BY Received
<1>2. Answered \/ Acknowledged
  BY <1>1 DEF LoggingIn, Nothing, Asking
<1>3. Answered => inbox' = <<>>
  BY <1>1, EmptySeq DEF Answered
<1> QED
  BY <1>1, <1>2, <1>3 DEF Answered, Acknowledged

\* During the login the exchange receives one request of it, and nothing else.
LEMMA LoginSends ==
    ASSUME TypeOK, LoggingIn, NEW type, ExReceive(type)
    PROVE  Asking /\ outbox' = <<>> /\ type = outbox[1].type
<1>1. /\ outbox # <<>> /\ outbox[1].type = type /\ Len(outbox') = Len(outbox) - 1
      /\ outbox' \in Seq(Requests)
  BY ExReceived
<1>2. Asking
  BY <1>1 DEF LoggingIn, Nothing, Answered, Acknowledged
<1>3. outbox' = <<>>
  BY <1>1, <1>2, EmptySeq DEF Asking
<1> QED
  BY <1>1, <1>2, <1>3

\* A sequence of one message.
LEMMA AppendToNone ==
    ASSUME NEW x \in Messages
    PROVE  /\ Append(<<>>, x) # <<>> /\ Len(Append(<<>>, x)) = 1
           /\ Append(<<>>, x)[1] = x /\ DOMAIN Append(<<>>, x) = {1}
<1>1. <<>> \in Seq(Messages) /\ Len(<<>>) = 0
  BY EmptySeq
<1> QED
  BY <1>1, AppendAdds

\* The exchange's steps keep the phases.
LEMMA ExchangePhases == TypeOK /\ TypeOK' /\ Phases /\ Exchange => Phases' /\ Stays
<1> SUFFICES ASSUME TypeOK, TypeOK', Phases, Exchange PROVE Phases' /\ Stays
  OBVIOUS
<1>0. /\ inbox \in Seq(Messages) /\ outbox \in Seq(Requests) /\ inbox' \in Seq(Messages)
      /\ ex \in [uuid : 0 .. MaxUuid, sent : 0 .. MaxSeq, known : BOOLEAN, on : BOOLEAN]
  BY DEF TypeOK
<1>1. ASSUME NEW lost \in BOOLEAN, Publish(lost) PROVE Phases' /\ Stays
  <2>1. UNCHANGED <<client, disk, outbox, ghosts>>
    BY <1>1 DEF Publish
  <2>2. ex'.sent = ex.sent + 1 /\ ex'.on = ex.on
    BY <1>1, <1>0 DEF Publish
  <2>3. CASE UNCHANGED inbox
    <3>1. LoggingIn => LoggingIn'
      BY <2>1, <2>2, <2>3, <1>0, Carries
         DEF LoggingIn, Nothing, Asking, Answered, Acknowledged, Starting, Connected, client,
             ghosts, Idle
    <3>2. LoggedIn => LoggedIn'
      BY <2>1, <2>2, <2>3 DEF LoggedIn, Connected, client, Idle
    <3> QED
      BY <3>1, <3>2, <2>1, <2>2, <2>3 DEF Phases, Stays, client, Nothing
  <2>4. CASE ex.on /\ inbox' = Append(inbox, [type |-> "App", seq |-> ex.sent + 1])
    <3> DEFINE m == [type |-> "App", seq |-> ex.sent + 1]
    <3>1. ex.sent + 1 \in Seqs
      BY <1>1, <1>0, SessionConstants DEF Publish, Seqs
    <3>2. m \in Messages /\ m.type = "App"
      BY <3>1 DEF Messages
    <3> HIDE DEF m
    <3>3. /\ inbox' # <<>> /\ DOMAIN inbox = 1 .. Len(inbox) /\ Len(inbox) \in Nat
          /\ DOMAIN inbox' = 1 .. Len(inbox) + 1
          /\ \A i \in DOMAIN inbox' :
               \/ i \in DOMAIN inbox /\ inbox'[i] = inbox[i]
               \/ i = Len(inbox) + 1 /\ inbox'[i] = m
      BY <3>2, <2>4, <1>0, AppendAdds DEF m
    <3>4. LoggingIn => LoggingIn'
      <4> SUFFICES ASSUME LoggingIn PROVE LoggingIn'
        OBVIOUS
      <4>1. Acknowledged
        BY <2>4 DEF LoggingIn, Nothing, Asking, Answered
      <4>2. Len(inbox) > 0
        BY <4>1, <3>3, <1>0, EmptySeq DEF Acknowledged
      <4>3. inbox'[1] = inbox[1] /\ 1 \in DOMAIN inbox
        BY <4>2, <3>3
      <4>4. inbox[1].prev <= ex'.sent
        BY <4>1, <4>3, <2>2, <1>0, Carries, ElementOfSeq, <3>3, SessionConstants DEF Acknowledged
      <4>5. Acknowledged'
        BY <4>1, <4>2, <4>3, <4>4, <3>3, <3>2, <2>1 DEF Acknowledged, Starting, Connected, client
      <4> QED
        BY <4>5, <2>1 DEF LoggingIn, client, Idle, ghosts
    <3>5. LoggedIn => LoggedIn'
      BY <3>2, <3>3, <2>1 DEF LoggedIn, Connected, client, Idle
    <3> QED
      BY <3>4, <3>5, <2>1, <2>4 DEF Phases, Stays, client, Nothing
  <2> QED
    BY <1>1, <2>3, <2>4 DEF Publish
<1>2. CASE ExNegotiate
  <2>1. LoggingIn /\ ~LoggedIn
    <3>1. outbox[1].type = "Negotiate" /\ 1 \in DOMAIN outbox
      BY <1>2, ExReceived DEF ExNegotiate
    <3> QED
      BY <3>1 DEF Phases, LoggedIn
  <2>2. Asking /\ outbox' = <<>> /\ outbox[1].type = "Negotiate"
    BY <1>2, <2>1, LoginSends DEF ExNegotiate
  <2>3. inbox' # <<>> /\ Len(inbox') = 1 /\ ~ex'.on
        /\ inbox'[1].type \in {"NegotiationResponse", "NegotiationReject"}
    <3>1. [type |-> "NegotiationReject"] \in Messages
      BY DEF Messages
    <3>2. ex.uuid < MaxUuid =>
            [type |-> "NegotiationResponse", uuid |-> ex.uuid + 1, prevUuid |-> ex.uuid] \in Messages
      BY <1>0, SessionConstants DEF Messages
    <3> QED
      BY <1>2, <2>2, <3>1, <3>2, AppendToNone DEF ExNegotiate, Asking
  <2>4. UNCHANGED <<client, disk, base>>
    BY <1>2 DEF ExNegotiate
  <2>5. Answered'
    BY <2>2, <2>3, <2>4 DEF Asking, Answered, Connected, Starting, client
  <2> QED
    BY <2>1, <2>2, <2>4, <2>5 DEF Phases, Stays, LoggingIn, client, Idle, Asking, Connected
<1>3. CASE ExEstablish
  <2>1. LoggingIn /\ ~LoggedIn
    <3>1. outbox[1].type = "Establish" /\ 1 \in DOMAIN outbox
      BY <1>3, ExReceived DEF ExEstablish
    <3> QED
      BY <3>1 DEF Phases, LoggedIn
  <2>2. Asking /\ outbox' = <<>> /\ outbox[1].type = "Establish"
    BY <1>3, <2>1, LoginSends DEF ExEstablish
  <2>3. UNCHANGED <<client, disk, ghosts>>
    BY <1>3 DEF ExEstablish
  <2> DEFINE ack == [type |-> "EstablishmentAck", uuid |-> ex.uuid,
                     prevUuid |-> IF ex.known THEN ex.uuid ELSE ex.uuid - 1,
                     next |-> ex.sent + 1, prev |-> ex.sent]
  <2>4. CASE inbox' = Append(inbox, ack) /\ ex' = [ex EXCEPT !.known = TRUE, !.on = TRUE] /\ ex.uuid # 0
    <3>1. ack \in Messages
      <4>1. /\ ex.sent + 1 \in 1 .. MaxSeq + 1 /\ ex.sent \in 0 .. MaxSeq /\ ex.uuid \in 0 .. MaxUuid
        BY <1>0, SessionConstants
      <4>2. (IF ex.known THEN ex.uuid ELSE ex.uuid - 1) \in 0 .. MaxUuid
        BY <2>4, <4>1, SessionConstants
      <4> QED
        BY <4>1, <4>2 DEF Messages
    <3>2. ack.type = "EstablishmentAck" /\ ack.next = ack.prev + 1 /\ ack.prev = ex.sent
      OBVIOUS
    <3> HIDE DEF ack
    <3>3. inbox' # <<>> /\ inbox'[1] = ack /\ DOMAIN inbox' = {1}
      BY <3>1, <2>2, <2>4, AppendToNone DEF Asking
    <3>4. ex'.sent = ex.sent /\ ex.sent \in Nat
      BY <2>4, <1>0, SessionConstants
    <3>5. Acknowledged'
      BY <3>2, <3>3, <3>4, <2>2, <2>3 DEF Acknowledged, Asking, Connected, Starting, client
    <3> QED
      BY <2>1, <2>2, <2>3, <3>5
         DEF Phases, Stays, LoggingIn, client, Idle, ghosts, Asking, Connected
  <2>5. CASE (\E n \in Seqs : inbox' = Append(inbox, [type |-> "EstablishmentReject", next |-> n]))
             /\ UNCHANGED ex
    <3>1. \A n \in Seqs : [type |-> "EstablishmentReject", next |-> n] \in Messages
      BY DEF Messages
    <3>2. inbox' # <<>> /\ Len(inbox') = 1 /\ inbox'[1].type = "EstablishmentReject"
      BY <3>1, <2>2, <2>5, AppendToNone DEF Asking
    <3>3. Answered'
      BY <3>2, <2>2, <2>3, <2>5 DEF Answered, Asking, Connected, Starting, client
    <3> QED
      BY <2>1, <2>2, <2>3, <3>3
         DEF Phases, Stays, LoggingIn, client, Idle, ghosts, Asking, Connected
  <2> QED
    BY <1>3, <2>4, <2>5 DEF ExEstablish
<1>4. ASSUME NEW type \in {"RetransmitRequest", "Terminate"}, ExReceive(type)
      PROVE  LoggedIn /\ ~LoggingIn
  BY <1>4, LoginSends DEF Phases, Asking
<1>5. ASSUME LoggedIn, ~LoggingIn, UNCHANGED client, UNCHANGED disk,
             \A i \in DOMAIN inbox' : inbox'[i].type \in {"App", "Terminate", "RetransmitReject"},
             \A i \in DOMAIN outbox' : outbox'[i].type \in {"RetransmitRequest", "Terminate"}
      PROVE  Phases' /\ Stays
  BY <1>5 DEF Phases, Stays, LoggedIn, client, Idle, Connected
<1>6. ASSUME LoggedIn, NEW type, ExReceive(type)
      PROVE  \A i \in DOMAIN outbox' : outbox'[i].type \in {"RetransmitRequest", "Terminate"}
  BY <1>6, ExReceived DEF LoggedIn
<1>7. ASSUME LoggedIn, NEW more \in Seq(Messages), inbox' = inbox \o more,
             \A i \in DOMAIN more : more[i].type \in {"App", "Terminate", "RetransmitReject"}
      PROVE  \A i \in DOMAIN inbox' : inbox'[i].type \in {"App", "Terminate", "RetransmitReject"}
  BY <1>7, <1>0, ConcatAdds DEF LoggedIn
<1>8. CASE ExRetransmit
  <2>1. LoggedIn /\ ~LoggingIn
    BY <1>8, <1>4 DEF ExRetransmit
  <2>2. \A i \in DOMAIN outbox' : outbox'[i].type \in {"RetransmitRequest", "Terminate"}
    BY <1>8, <1>6, <2>1 DEF ExRetransmit
  <2>3. <<[type |-> "RetransmitReject"]>> \in Seq(Messages)
    BY Single DEF Messages
  <2>4. \A i \in DOMAIN inbox' : inbox'[i].type \in {"App", "Terminate", "RetransmitReject"}
    <3>1. CASE inbox' = inbox \o <<[type |-> "RetransmitReject"]>>
      <4> DEFINE m == <<[type |-> "RetransmitReject"]>>
      <4>1. \A i \in DOMAIN m : m[i].type = "RetransmitReject"
        OBVIOUS
      <4> HIDE DEF m
      <4> QED
        BY <4>1, <2>3, <3>1, <2>1, <1>7 DEF m
    <3>2. CASE \E more \in Seq(Messages) :
                 inbox' = inbox \o more /\ \A i \in DOMAIN more : more[i].type = "App"
      BY <3>2, <2>1, <1>7
    <3> QED
      BY <1>8, Resent, <3>1, <3>2
  <2> QED
    BY <1>8, <1>5, <2>1, <2>2, <2>4 DEF ExRetransmit
<1>9. CASE ExIgnore
  <2>1. LoggedIn /\ ~LoggingIn
    BY <1>9, <1>4 DEF ExIgnore
  <2>2. \A i \in DOMAIN inbox' : inbox'[i].type \in {"App", "Terminate", "RetransmitReject"}
    BY <1>9, <2>1 DEF ExIgnore, LoggedIn
  <2> QED
    BY <1>9, <1>5, <1>6, <2>1, <2>2 DEF ExIgnore
<1>10. [type |-> "Terminate"] \in Messages
  BY DEF Messages
<1>11. CASE ExTerminateReply
  <2>1. LoggedIn /\ ~LoggingIn
    BY <1>11, <1>4 DEF ExTerminateReply
  <2>2. \A i \in DOMAIN inbox' : inbox'[i].type \in {"App", "Terminate", "RetransmitReject"}
    BY <1>11, <2>1, <1>10, <1>0, AppendAdds DEF ExTerminateReply, LoggedIn
  <2> QED
    BY <1>11, <1>5, <1>6, <2>1, <2>2 DEF ExTerminateReply
<1>12. CASE ExTerminate
  <2> DEFINE m == [type |-> "Terminate"]
  <2>1. /\ DOMAIN inbox = 1 .. Len(inbox) /\ Len(inbox) \in Nat /\ inbox' # <<>>
        /\ DOMAIN inbox' = 1 .. Len(inbox) + 1
        /\ \A i \in DOMAIN inbox' :
             \/ i \in DOMAIN inbox /\ inbox'[i] = inbox[i]
             \/ i = Len(inbox) + 1 /\ inbox'[i] = m
    BY <1>12, <1>10, <1>0, AppendAdds DEF ExTerminate
  <2>2. UNCHANGED <<client, disk, outbox, ghosts>> /\ ex.on /\ ~ex'.on /\ ex'.sent = ex.sent
    BY <1>12, <1>0 DEF ExTerminate
  <2>3. CASE LoggedIn
    <3>1. \A i \in DOMAIN inbox' : inbox'[i].type \in {"App", "Terminate", "RetransmitReject"}
      BY <2>1, <2>3 DEF LoggedIn
    <3>2. \A i \in DOMAIN outbox' : outbox'[i].type \in {"RetransmitRequest", "Terminate"}
      BY <2>2, <2>3 DEF LoggedIn
    <3>3. ~Acknowledged
      <4>1. inbox # <<>> => 1 \in DOMAIN inbox
        BY <2>1, <1>0, EmptySeq
      <4> QED
        BY <4>1, <2>3 DEF LoggedIn, Acknowledged
    <3>4. ~LoggingIn
      BY <2>2, <3>3 DEF LoggingIn, Nothing, Asking, Answered
    <3> QED
      BY <1>5, <2>2, <2>3, <3>1, <3>2, <3>4
  <2>4. CASE LoggingIn /\ ~LoggedIn
    <3>1. Acknowledged
      BY <2>2, <2>4 DEF LoggingIn, Nothing, Asking, Answered
    <3>2. Len(inbox) > 0
      BY <3>1, <2>1, <1>0, EmptySeq DEF Acknowledged
    <3>3. inbox'[1] = inbox[1] /\ 1 \in DOMAIN inbox
      BY <3>2, <2>1
    <3>4. Acknowledged'
      BY <3>1, <3>3, <2>1, <2>2 DEF Acknowledged, Starting, Connected, client
    <3> QED
      BY <3>1, <3>4, <2>2, <2>4
         DEF Phases, Stays, LoggingIn, client, Idle, ghosts, Acknowledged, Connected
  <2> QED
    BY <2>3, <2>4 DEF Phases
<1> QED
  BY <1>1, <1>2, <1>3, <1>8, <1>9, <1>11, <1>12 DEF Exchange, ExAnswer

\* A process that is gone has nothing under way.
LEMMA GonePhases == Gone => Phases' /\ Stays
BY DEF Gone, Phases, Stays, LoggingIn, Nothing, Idle, Starting

\* What ends the process or starts it keeps the phases.
LEMMA ProcessPhases ==
    TypeOK /\ TypeOK' /\ Phases /\ (Launch \/ Connect \/ Close \/ Exit \/ Persist \/ Wipe)
        => Phases' /\ Stays
<1> SUFFICES ASSUME TypeOK, TypeOK', Phases,
                    Launch \/ Connect \/ Close \/ Exit \/ Persist \/ Wipe
             PROVE  Phases' /\ Stays
  OBVIOUS
<1>0. /\ inbox \in Seq(Messages) /\ disk \in Files
      /\ ex \in [uuid : 0 .. MaxUuid, sent : 0 .. MaxSeq, known : BOOLEAN, on : BOOLEAN]
  BY DEF TypeOK
<1>1. CASE Launch
  <2>1. LoggingIn /\ Nothing /\ ~LoggedIn
    BY <1>1 DEF Launch, Phases, LoggedIn, Connected
  <2>2. sess'.seqIn = disk.seqIn /\ saved' = sess' /\ (disk'.neg => sess'.neg) /\ base' = disk.seqIn
    <3>1. disk' = disk /\ base' = disk.seqIn
      BY <1>1 DEF Launch
    <3>2. Update(disk) \/ Update([disk EXCEPT !.neg = TRUE])
      BY <1>1 DEF Launch
    <3>3. CASE Update(disk)
      BY <3>1, <3>3 DEF Update
    <3>4. CASE Update([disk EXCEPT !.neg = TRUE])
      <4>1. sess' = [disk EXCEPT !.neg = TRUE] /\ saved' = sess'
        BY <3>4 DEF Update
      <4>2. [disk EXCEPT !.neg = TRUE].seqIn = disk.seqIn /\ [disk EXCEPT !.neg = TRUE].neg
        BY <1>0 DEF Files
      <4> QED
        BY <3>1, <4>1, <4>2
    <3> QED
      BY <3>2, <3>3, <3>4
  <2>3. Nothing' /\ link' = "connecting" /\ st' = "StartingLoginProcess"
        /\ gap' = NoGap /\ recov' = {} /\ Idle'
    BY <1>1, <2>1 DEF Launch, LoggingIn, Nothing, Idle
  <2> QED
    BY <2>1, <2>2, <2>3 DEF Phases, Stays, LoggingIn
<1>2. CASE Connect
  <2>1. LoggingIn /\ Nothing /\ ~LoggedIn
    BY <1>2 DEF Connect, Phases, LoggedIn, LoggingIn, Asking, Answered, Acknowledged, Connected
  <2>2. Nothing' /\ link' # "down" /\ LoggingIn'
    BY <1>2, <2>1 DEF Connect, LoggingIn, Nothing, Idle, ghosts
  <2> QED
    BY <1>2, <2>1, <2>2 DEF Phases, Stays, Connect
<1>3. CASE Close
  <2>1. PICK n \in 0 .. Len(inbox) : inbox' = SubSeq(inbox, 1, n)
    BY <1>3 DEF Close
  <2>2. /\ inbox' \in Seq(Messages) /\ DOMAIN inbox' = 1 .. n /\ DOMAIN inbox = 1 .. Len(inbox)
        /\ Len(inbox) \in Nat /\ n \in Nat
        /\ \A i \in DOMAIN inbox' : i \in DOMAIN inbox /\ inbox'[i] = inbox[i]
    BY <2>1, <1>0, PrefixKeeps
  <2>3. Len(inbox') = n
    BY <2>2, LenProperties
  <2>4. n = 0 => inbox' = <<>>
    BY <2>2, <2>3, EmptySeq
  <2>5. /\ outbox' = <<>> /\ ~ex'.on /\ ex'.sent = ex.sent /\ Connected' /\ Connected
        /\ UNCHANGED <<st, sess, gap, recov, batch, inHand, saved, disk, ghosts>>
    BY <1>3, <1>0 DEF Close, Connected
  <2>6. LoggedIn => LoggedIn'
    BY <2>2, <2>5, EmptySeq DEF LoggedIn, Idle
  <2>7. ASSUME LoggingIn PROVE LoggingIn'
    <3>1. Nothing' \/ n # 0
      BY <2>4, <2>5 DEF Nothing
    <3>2. ASSUME n # 0 PROVE inbox # <<>> /\ inbox' # <<>> /\ inbox'[1] = inbox[1] /\ 1 \in DOMAIN inbox
      BY <3>2, <2>2, <2>3, EmptySeq
    <3>3. ASSUME n # 0, Answered PROVE Answered'
      <4>1. n = 1
        BY <3>3, <2>2 DEF Answered
      <4> QED
        BY <4>1, <3>2, <3>3, <2>3, <2>5 DEF Answered, Starting
    <3>4. ASSUME n # 0, Acknowledged PROVE Acknowledged'
      BY <3>4, <3>2, <2>2, <2>5 DEF Acknowledged, Starting
    <3>5. Nothing' \/ Answered' \/ Acknowledged'
      BY <3>1, <3>2, <3>3, <3>4, <2>7 DEF LoggingIn, Nothing, Asking
    <3> QED
      BY <3>5, <2>5, <2>7 DEF LoggingIn, Idle, ghosts, Connected
  <2> QED
    BY <2>5, <2>6, <2>7 DEF Phases, Stays, Connected
<1>4. CASE Exit
  BY <1>4, GonePhases DEF Exit
<1>5. CASE Persist
  <2>1. UNCHANGED <<client, inbox, outbox, ex, base>> /\ disk' = saved /\ link # "down"
    BY <1>5 DEF Persist
  <2>2. LoggingIn => LoggingIn'
    BY <2>1 DEF LoggingIn, Nothing, Asking, Answered, Acknowledged, Starting, Connected, client, Idle
  <2>3. LoggedIn => LoggedIn'
    BY <2>1 DEF LoggedIn, Connected, client, Idle
  <2> QED
    BY <2>1, <2>2, <2>3 DEF Phases, Stays, client
<1>6. CASE Wipe
  <2>1. UNCHANGED <<client, inbox, outbox, ex, base>> /\ link = "down"
    BY <1>6 DEF Wipe
  <2>2. LoggingIn => LoggingIn'
    BY <2>1 DEF LoggingIn, Nothing, Asking, Answered, Acknowledged, Starting, Connected, client, Idle
  <2>3. ~LoggedIn
    BY <2>1 DEF LoggedIn, Connected
  <2> QED
    BY <2>1, <2>2, <2>3 DEF Phases, Stays, client, Nothing
<1> QED
  BY <1>1, <1>2, <1>3, <1>4, <1>5, <1>6

\* What one request adds to an outbox.
LEMMA WireAdds ==
    ASSUME outbox \in Seq(Requests), NEW m \in Requests, Wire(<<m>>)
    PROVE  /\ outbox' \in Seq(Requests)
           /\ link # "open" => outbox' = outbox
           /\ link = "open" =>
                /\ DOMAIN outbox = 1 .. Len(outbox) /\ Len(outbox) \in Nat
                /\ Len(outbox') = Len(outbox) + 1 /\ DOMAIN outbox' = 1 .. Len(outbox) + 1
                /\ outbox'[Len(outbox) + 1] = m
                /\ \A i \in DOMAIN outbox' : \/ i \in DOMAIN outbox /\ outbox'[i] = outbox[i]
                                             \/ i = Len(outbox) + 1 /\ outbox'[i] = m
<1>1. <<m>> \in Seq(Requests) /\ Len(<<m>>) = 1 /\ DOMAIN <<m>> = {1} /\ <<m>>[1] = m
  BY Single
<1> DEFINE one == <<m>>
<1> HIDE DEF one
<1>2. one \in Seq(Requests) /\ Len(one) = 1 /\ DOMAIN one = {1} /\ one[1] = m
  BY <1>1 DEF one
<1>3. link = "open" => outbox' = outbox \o one
  BY DEF Wire, one
<1>4. link # "open" => outbox' = outbox
  BY DEF Wire
<1>5. ASSUME link = "open"
      PROVE  /\ outbox' \in Seq(Requests)
             /\ DOMAIN outbox = 1 .. Len(outbox) /\ Len(outbox) \in Nat
             /\ Len(outbox') = Len(outbox) + 1 /\ DOMAIN outbox' = 1 .. Len(outbox) + 1
             /\ \A i \in DOMAIN outbox' : \/ i \in DOMAIN outbox /\ outbox'[i] = outbox[i]
                                          \/ i = Len(outbox) + 1 /\ outbox'[i] = m
  <2>1. outbox' = outbox \o one
    BY <1>3, <1>5
  <2>2. PICK out : out = outbox'
    OBVIOUS
  <2>3. out = outbox \o one
    BY <2>1, <2>2
  <2>4. /\ out \in Seq(Requests)
        /\ Len(outbox) \in Nat /\ DOMAIN outbox = 1 .. Len(outbox)
        /\ Len(out) = Len(outbox) + 1 /\ DOMAIN out = 1 .. Len(outbox) + 1
        /\ \A i \in DOMAIN out :
             \/ i \in DOMAIN outbox /\ out[i] = outbox[i]
             \/ i > Len(outbox) /\ i - Len(outbox) \in DOMAIN one /\ out[i] = one[i - Len(outbox)]
    BY <2>3, <1>2, ConcatAdds
  <2>5. \A i \in DOMAIN out : \/ i \in DOMAIN outbox /\ out[i] = outbox[i]
                              \/ i = Len(outbox) + 1 /\ out[i] = m
    BY <2>4, <1>2
  <2> QED
    BY <2>2, <2>4, <2>5
<1>6. link = "open" => outbox'[Len(outbox) + 1] = m
  BY <1>5
<1> QED
  BY <1>4, <1>5, <1>6

\* On the wire a retransmission request is one message, and so is a logout.
LEMMA RequestOnWire ==
    ASSUME outbox \in Seq(Requests), NEW from \in Nat, NEW count \in Nat
    PROVE  \E m \in Requests :
             /\ RetransmitRequest(from, count) = <<m>>
             /\ m.type = "RetransmitRequest" /\ m.from = from
             /\ m.count = IF count > MaxBatch THEN 0 ELSE count
<1> DEFINE m == [type |-> "RetransmitRequest", from |-> from,
                 count |-> IF count > MaxBatch THEN 0 ELSE count]
<1>1. m \in Requests
  BY SessionConstants DEF Requests
<1>2. RetransmitRequest(from, count) = <<m>>
  BY DEF RetransmitRequest
<1> QED
  BY <1>1, <1>2

\* After the login a request leaves the outbox with requests only.
LEMMA WireLoggedIn ==
    ASSUME outbox \in Seq(Requests), LoggedIn, NEW m \in Requests, Wire(<<m>>),
           m.type \in {"RetransmitRequest", "Terminate"}
    PROVE  \A i \in DOMAIN outbox' : outbox'[i].type \in {"RetransmitRequest", "Terminate"}
BY WireAdds DEF LoggedIn

\* A step of a session that stays up keeps the phase.
LEMMA StaysLoggedIn ==
    ASSUME LoggedIn, link' = link, sess'.neg, disk' = disk, saved' = sess',
           st' \in {"Established", "WaitingForRetransmission", "Terminating", "Disconnected"},
           \A i \in DOMAIN inbox' : inbox'[i].type \in {"App", "Terminate", "RetransmitReject"},
           \A i \in DOMAIN outbox' : outbox'[i].type \in {"RetransmitRequest", "Terminate"},
           Idle' \/ st' = "Established"
    PROVE  Phases' /\ LoggedIn'
BY DEF Phases, LoggedIn, Connected

\* The poll thread and the commands keep the phases.
LEMMA PollPhases ==
    TypeOK /\ TypeOK' /\ Phases /\ (Dispatch \/ RetransCommand \/ TerminateCommand)
        => Phases' /\ Stays
<1> SUFFICES ASSUME TypeOK, TypeOK', Phases, Dispatch \/ RetransCommand \/ TerminateCommand
             PROVE  Phases' /\ Stays
  OBVIOUS
<1>0. outbox \in Seq(Requests) /\ sess \in Files
  BY DEF TypeOK
<1>1. CASE Dispatch
  <2>0. UNCHANGED <<link, gap, recov, batch, inHand, disk, inbox, ex, left, times, ever, fileFloor>>
    BY <1>1 DEF Dispatch
  <2>1. LoggedIn => st \notin {"StartingLoginProcess", "Negotiated"} /\ link # "refused"
    BY DEF LoggedIn, Connected
  <2>2. LoggingIn /\ ~LoggedIn
    BY <2>1, <1>1 DEF Dispatch, Phases
  <2>3. CASE link = "refused" /\ st' = "Disconnected" /\ UNCHANGED <<sess, saved, outbox, base, floor>>
    <3>1. Nothing
      BY <2>2, <2>3 DEF LoggingIn, Asking, Answered, Acknowledged, Connected
    <3> QED
      BY <3>1, <2>0, <2>2, <2>3 DEF Phases, Stays, LoggingIn, Nothing, Idle
  <2>4. ASSUME link \in {"open", "closed"}, Starting, EstablishSession, sess.neg
        PROVE  Phases' /\ Stays
    <3>1. Nothing
      BY <2>2, <2>4 DEF LoggingIn, Asking, Answered, Acknowledged
    <3> DEFINE m == [type |-> "Establish", uuid |-> sess.uuid]
    <3>2. m \in Requests /\ m.type = "Establish"
      BY <1>0, FileTyped DEF Requests
    <3> HIDE DEF m
    <3>3. Wire(<<m>>) /\ st' = "AwaitEstablishmentAck" /\ UNCHANGED <<sess, saved, base, floor>>
      BY <2>4 DEF EstablishSession, m
    <3>4. /\ link = "open" => Len(outbox') = 1 /\ outbox'[1] = m
          /\ link # "open" => outbox' = <<>>
      BY <3>1, <3>2, <3>3, <1>0, WireAdds, EmptySeq DEF Nothing
    <3>5. Nothing' \/ Asking'
      BY <3>1, <3>2, <3>3, <3>4, <2>0, <2>4 DEF Nothing, Asking, Connected, Starting
    <3> QED
      BY <3>3, <3>5, <2>0, <2>2, <2>4 DEF Phases, Stays, LoggingIn, Idle
  <2>5. CASE link = "open" /\ Starting /\ NegotiateSession /\ ~sess.neg
    <3>1. Nothing
      BY <2>2, <2>5 DEF LoggingIn, Asking, Answered, Acknowledged
    <3> DEFINE m == [type |-> "Negotiate"]
    <3>2. m \in Requests /\ m.type = "Negotiate"
      BY DEF Requests
    <3> HIDE DEF m
    <3>3. Wire(<<m>>) /\ st' = "AwaitNegotiationResponse" /\ base' = 1
      BY <2>5 DEF NegotiateSession, m
    <3>4. sess'.seqIn = 1 /\ sess'.neg = sess.neg /\ saved' = sess'
      BY <2>5, <1>0 DEF NegotiateSession, Update, Files
    <3>5. Len(outbox') = 1 /\ outbox'[1] = m
      BY <2>5, <3>1, <3>2, <3>3, <1>0, WireAdds, EmptySeq DEF Nothing
    <3>6. Asking'
      BY <3>1, <3>2, <3>3, <3>4, <3>5, <2>0, <2>5 DEF Nothing, Asking, Connected, Starting
    <3> QED
      BY <3>3, <3>4, <3>6, <2>0, <2>2, <2>5 DEF Phases, Stays, LoggingIn, Idle
  <2> QED
    BY <1>1, <2>2, <2>3, <2>4, <2>5 DEF Dispatch, Starting, LoggingIn
<1>2. CASE RetransCommand
  <2>1. LoggedIn /\ ~LoggingIn
    BY <1>2 DEF RetransCommand, Phases, LoggingIn, OkToSend
  <2>2. PICK m \in Requests : RetransmitRequest(sess.seqIn, 0) = <<m>> /\ m.type = "RetransmitRequest"
    <3>1. sess.seqIn \in 0 .. MaxSeq
      BY <1>0, FileTyped
    <3>2. sess.seqIn \in Nat /\ 0 \in Nat
      BY <3>1, SessionConstants
    <3> QED
      BY <3>2, <1>0, RequestOnWire
  <2>3. Wire(<<m>>)
    BY <1>2, <2>2 DEF RetransCommand
  <2>4. \A i \in DOMAIN outbox' : outbox'[i].type \in {"RetransmitRequest", "Terminate"}
    BY <1>0, <2>1, <2>2, <2>3, WireLoggedIn
  <2>5. Phases' /\ LoggedIn'
    BY <1>2, <2>1, <2>4, StaysLoggedIn DEF RetransCommand, LoggedIn, Phases, Connected, Idle
  <2> QED
    BY <2>1, <2>5 DEF Stays
<1>3. CASE TerminateCommand
  <2>1. ASSUME LoggingIn PROVE Phases' /\ LoggingIn'
    <3>1. ~OkToSend(st)
      BY <2>1 DEF LoggingIn, OkToSend
    <3>2. UNCHANGED <<link, sess, saved, outbox, gap, recov, batch, inHand, disk, inbox, ex, ghosts>>
          /\ st' = "Terminating"
      BY <1>3, <3>1 DEF TerminateCommand
    <3>3. Nothing' \/ Asking' \/ Answered' \/ Acknowledged'
      BY <2>1, <3>2 DEF LoggingIn, Nothing, Asking, Answered, Acknowledged, Connected, Starting
    <3> QED
      BY <2>1, <3>2, <3>3 DEF Phases, LoggingIn, Idle, ghosts, Nothing
  <2>2. ASSUME LoggedIn PROVE Phases' /\ LoggedIn'
    <3>1. [type |-> "Terminate"] \in Requests
      BY DEF Requests
    <3>2. \A i \in DOMAIN outbox' : outbox'[i].type \in {"RetransmitRequest", "Terminate"}
      <4>1. CASE UNCHANGED outbox
        BY <4>1, <2>2 DEF LoggedIn
      <4>2. CASE Wire(TerminateRequest)
        BY <4>2, <3>1, <1>0, <2>2, WireLoggedIn DEF TerminateRequest
      <4> QED
        BY <1>3, <4>1, <4>2 DEF TerminateCommand
    <3>3. sess' = sess /\ saved' = sess'
      BY <1>3, <2>2 DEF TerminateCommand, Update, Phases, LoggedIn, Connected
    <3> QED
      BY <1>3, <2>2, <3>2, <3>3, StaysLoggedIn DEF TerminateCommand, LoggedIn, Idle
  <2> QED
    BY <2>1, <2>2 DEF Phases, Stays
<1> QED
  BY <1>1, <1>2, <1>3

\* After the login a message received leaves an inbox of the session's messages.
LEMMA ReceivedLoggedIn ==
    ASSUME TypeOK, LoggedIn, NEW type, Receive(type)
    PROVE  /\ type \in {"App", "Terminate", "RetransmitReject"}
           /\ \A i \in DOMAIN inbox' : inbox'[i].type \in {"App", "Terminate", "RetransmitReject"}
<1>1. 1 \in DOMAIN inbox
  BY Received
<1> QED
  BY <1>1, Received DEF LoggedIn

\* The session messages keep the phases.
LEMMA SessionPhases ==
    TypeOK /\ TypeOK' /\ Phases /\ Session
        => /\ Phases' /\ (OnEstablishmentAck \/ Stays)
           /\ OnEstablishmentAck => LoggingIn /\ Acknowledged /\ LoggedIn'
<1> SUFFICES ASSUME TypeOK, TypeOK', Phases, Session
             PROVE  /\ Phases' /\ (OnEstablishmentAck \/ Stays)
                    /\ OnEstablishmentAck => LoggingIn /\ Acknowledged /\ LoggedIn'
  OBVIOUS
<1>0. outbox \in Seq(Requests) /\ sess \in Files /\ inbox \in Seq(Messages)
  BY DEF TypeOK
<1>1. ASSUME OnNegotiationResponse PROVE Phases' /\ Stays
  <2>1. Receive("NegotiationResponse") /\ UNCHANGED <<link, gap, recov, batch, inHand, disk, outbox, ex, base>>
    BY <1>1 DEF OnNegotiationResponse, ghosts
  <2>2. LoggingIn /\ ~LoggedIn
    BY <2>1, ReceivedLoggedIn DEF Phases
  <2>3. Connected /\ outbox = <<>> /\ inbox' = <<>> /\ Answered
    BY <2>1, <2>2, LoginReceives
  <2>4. sess'.neg /\ sess'.seqIn = sess.seqIn /\ saved' = sess' /\ st' = "Negotiated"
    BY <1>1, <1>0 DEF OnNegotiationResponse, Update, Files
  <2>5. Nothing'
    BY <2>1, <2>3 DEF Nothing, Answered
  <2> QED
    BY <2>1, <2>2, <2>4, <2>5 DEF Phases, Stays, LoggingIn, Idle
<1>2. ASSUME OnNegotiationReject PROVE Phases' /\ Stays
  <2>1. Receive("NegotiationReject") /\ UNCHANGED <<link, gap, recov, batch, inHand, disk, outbox, ex, base>>
    BY <1>2 DEF OnNegotiationReject, ghosts
  <2>2. LoggingIn /\ ~LoggedIn
    BY <2>1, ReceivedLoggedIn DEF Phases
  <2>3. Connected /\ outbox = <<>> /\ inbox' = <<>> /\ Answered
    BY <2>1, <2>2, LoginReceives
  <2>4. sess' = sess /\ saved' = sess' /\ st' = "Disconnected"
    BY <1>2 DEF OnNegotiationReject, Update
  <2>5. Nothing'
    BY <2>1, <2>3 DEF Nothing, Answered
  <2> QED
    BY <2>1, <2>2, <2>4, <2>5 DEF Phases, Stays, LoggingIn, Idle
<1>3. ASSUME OnEstablishmentReject PROVE Phases' /\ Stays
  <2>1. Receive("EstablishmentReject") /\ UNCHANGED <<link, gap, recov, batch, inHand, disk, outbox, ex>>
    BY <1>3 DEF OnEstablishmentReject
  <2>2. LoggingIn /\ ~LoggedIn
    BY <2>1, ReceivedLoggedIn DEF Phases
  <2>3. Connected /\ outbox = <<>> /\ inbox' = <<>> /\ Answered
    BY <2>1, <2>2, LoginReceives
  <2>4. /\ sess'.neg = sess.neg /\ sess'.seqIn = Head(inbox).next /\ base' = Head(inbox).next
        /\ saved' = sess' /\ st' = "Disconnected"
    BY <1>3, <1>0 DEF OnEstablishmentReject, Update, Files
  <2>5. Nothing'
    BY <2>1, <2>3 DEF Nothing, Answered
  <2> QED
    BY <2>1, <2>2, <2>4, <2>5 DEF Phases, Stays, LoggingIn, Idle
<1>4. ASSUME OnEstablishmentAck PROVE Phases' /\ LoggingIn /\ Acknowledged /\ LoggedIn'
  <2>1. Receive("EstablishmentAck") /\ UNCHANGED <<link, recov, batch, inHand, disk, ex>>
    BY <1>4 DEF OnEstablishmentAck
  <2>2. LoggingIn /\ ~LoggedIn
    BY <2>1, ReceivedLoggedIn DEF Phases
  <2>3. Connected /\ outbox = <<>> /\ Acknowledged
    BY <2>1, <2>2, LoginReceives DEF Answered
  <2>4. sess'.neg /\ saved' = sess'
    BY <1>4, <1>0, <2>3 DEF OnEstablishmentAck, Update, Files, Acknowledged
  <2>5. st' \in {"Established", "WaitingForRetransmission"}
    BY <1>4 DEF OnEstablishmentAck
  <2>6. \A i \in DOMAIN inbox' : inbox'[i].type \in {"App", "Terminate", "RetransmitReject"}
    BY <2>1, <2>3, Received DEF Acknowledged
  <2>7. \A i \in DOMAIN outbox' : outbox'[i].type \in {"RetransmitRequest", "Terminate"}
    <3>1. CASE UNCHANGED outbox
      BY <3>1, <2>3
    <3>2. CASE \E from, count \in Nat : Wire(RetransmitRequest(from, count))
      <4>1. PICK from \in Nat : \E count \in Nat : Wire(RetransmitRequest(from, count))
        BY <3>2
      <4>2. PICK count \in Nat : Wire(RetransmitRequest(from, count))
        BY <4>1
      <4>3. PICK m \in Requests : RetransmitRequest(from, count) = <<m>> /\ m.type = "RetransmitRequest"
        BY <1>0, RequestOnWire
      <4> QED
        BY <4>2, <4>3, <1>0, <2>3, WireAdds
    <3> DEFINE ack == Head(inbox)
               s == [sess EXCEPT !.uuid = ack.uuid, !.prevUuid = ack.prevUuid]
    <3>3. CASE ack.prev > s.seqIn /\ Wire(RetransmitRequest(s.seqIn + 1, ack.prev - s.seqIn))
      <4>1. ack.prev \in 0 .. MaxSeq /\ s.seqIn \in 0 .. MaxSeq
        BY <2>1, Received, Carries, <1>0 DEF Files
      <4>2. s.seqIn + 1 \in Nat /\ ack.prev - s.seqIn \in Nat
        BY <4>1, <3>3, SessionConstants
      <4> QED
        BY <4>2, <3>3, <3>2
    <3> QED
      BY <1>4, <3>1, <3>3 DEF OnEstablishmentAck
  <2>8. LoggedIn'
    BY <2>1, <2>2, <2>3, <2>4, <2>5, <2>6, <2>7 DEF LoggedIn, LoggingIn, Idle, Connected
  <2> QED
    BY <2>1, <2>2, <2>3, <2>4, <2>8 DEF Phases, Connected
<1>5. ASSUME ExitOnAck PROVE Phases' /\ Stays
  BY <1>5, GonePhases DEF ExitOnAck
<1>6. ASSUME OnTerminate PROVE Phases' /\ Stays
  <2>1. Receive("Terminate") /\ UNCHANGED <<link, gap, recov, batch, inHand, disk, outbox>> /\ Idle
    BY <1>6 DEF OnTerminate, Receive
  <2>2. LoggedIn /\ ~LoggingIn
    BY <2>1, LoginReceives DEF Phases, Answered
  <2>3. Phases' /\ LoggedIn'
    BY <1>6, <2>1, <2>2, ReceivedLoggedIn, StaysLoggedIn DEF OnTerminate, Update, LoggedIn, Idle
  <2> QED
    BY <2>2, <2>3 DEF Stays
<1>7. ASSUME OnRetransmitReject PROVE Phases' /\ Stays
  <2>1. Receive("RetransmitReject") /\ UNCHANGED <<link, sess, saved, gap, recov, batch, inHand, disk, outbox>>
        /\ Idle
    BY <1>7 DEF OnRetransmitReject, Receive
  <2>2. LoggedIn /\ ~LoggingIn
    BY <2>1, LoginReceives DEF Phases, Answered
  <2>3. saved' = sess'
    BY <2>1, <2>2 DEF Phases, LoggedIn, Connected
  <2>4. Phases' /\ LoggedIn'
    BY <1>7, <2>1, <2>2, <2>3, ReceivedLoggedIn, StaysLoggedIn DEF OnRetransmitReject, LoggedIn, Idle
  <2> QED
    BY <2>2, <2>4 DEF Stays
<1> QED
  BY <1>1, <1>2, <1>3, <1>4, <1>5, <1>6, <1>7 DEF Session

\* The application messages keep the phases: there are none before the end of a login.
LEMMA ApplicationPhases ==
    TypeOK /\ TypeOK' /\ Phases /\ Application => Phases' /\ ~LoggingIn /\ LoggedIn /\ LoggedIn'
<1> SUFFICES ASSUME TypeOK, TypeOK', Phases, Application
             PROVE  Phases' /\ ~LoggingIn /\ LoggedIn /\ LoggedIn'
  OBVIOUS
<1>0. outbox \in Seq(Requests) /\ sess \in Files /\ gap.start \in Nat /\ gap.count \in Nat
      /\ gap'.start \in Nat /\ gap'.count \in Nat
  BY Uint16Typed DEF TypeOK
<1>1. LoggedIn /\ ~LoggingIn
  <2>1. LoggingIn => ~Receive("App")
    BY LoginReceives DEF Answered
  <2>2. LoggingIn => Idle
    BY DEF LoggingIn
  <2>3. Idle => ~ReplayNext /\ ~ReplayDone /\ ~HandleMessage
    BY DEF Idle, ReplayNext, ReplayDone, HandleMessage
  <2> QED
    BY <2>1, <2>2, <2>3 DEF Phases, Application, InSequence, Gap, TooLow, Drain, NextBatch, Queued
<1>2. saved = sess /\ sess.neg
  BY <1>1 DEF Phases, LoggedIn, Connected
<1>r. ASSUME Receive("App")
      PROVE  /\ \A i \in DOMAIN inbox' : inbox'[i].type \in {"App", "Terminate", "RetransmitReject"}
             /\ Idle
  BY <1>r, <1>1, ReceivedLoggedIn DEF Receive
<1>u. \A i \in DOMAIN inbox : inbox[i].type \in {"App", "Terminate", "RetransmitReject"}
  BY <1>1 DEF LoggedIn
<1>o. ASSUME UNCHANGED outbox
      PROVE  \A i \in DOMAIN outbox' : outbox'[i].type \in {"RetransmitRequest", "Terminate"}
  BY <1>o, <1>1 DEF LoggedIn
<1>w. ASSUME NEW from \in Nat, NEW count \in Nat, Wire(RetransmitRequest(from, count))
      PROVE  \A i \in DOMAIN outbox' : outbox'[i].type \in {"RetransmitRequest", "Terminate"}
  <2>1. PICK m \in Requests : RetransmitRequest(from, count) = <<m>> /\ m.type = "RetransmitRequest"
    BY <1>0, RequestOnWire
  <2> QED
    BY <2>1, <1>w, <1>0, <1>1, WireLoggedIn
<1>3. CASE InSequence
  BY <1>3, <1>r, <1>o, <1>1, <1>2, <1>0, StaysLoggedIn DEF InSequence, Update, Files
<1>4. CASE Gap
  <2>1. PICK from, count : from = gap'.start /\ count = gap'.count
    OBVIOUS
  <2>2. Wire(RetransmitRequest(from, count))
    BY <1>4, <2>1 DEF Gap
  <2>3. \A i \in DOMAIN outbox' : outbox'[i].type \in {"RetransmitRequest", "Terminate"}
    BY <2>1, <2>2, <1>0, <1>w
  <2> QED
    BY <1>4, <1>r, <2>3, <1>1, <1>2, StaysLoggedIn DEF Gap, Idle
<1>5. CASE TooLow
  <2>1. [type |-> "Terminate"] \in Requests
    BY DEF Requests
  <2>2. \A i \in DOMAIN outbox' : outbox'[i].type \in {"RetransmitRequest", "Terminate"}
    BY <1>5, <2>1, <1>0, <1>1, WireLoggedIn DEF TooLow, TerminateRequest
  <2> QED
    BY <1>5, <1>r, <2>2, <1>1, <1>2, StaysLoggedIn DEF TooLow, Idle, Update
<1>6. CASE Drain
  BY <1>6, <1>r, <1>o, <1>1, <1>2, StaysLoggedIn DEF Drain
<1>7. CASE NextBatch
  <2>1. PICK from, count : from = gap'.start /\ count = gap'.count
    OBVIOUS
  <2>2. Wire(RetransmitRequest(from, count)) \/ UNCHANGED outbox
    BY <1>7, <2>1 DEF NextBatch
  <2>3. \A i \in DOMAIN outbox' : outbox'[i].type \in {"RetransmitRequest", "Terminate"}
    BY <2>1, <2>2, <1>0, <1>w, <1>o
  <2> QED
    BY <1>7, <1>r, <2>3, <1>1, <1>2, StaysLoggedIn DEF NextBatch, Idle, LoggedIn
<1>8. CASE Queued
  BY <1>8, <1>r, <1>o, <1>1, <1>2, StaysLoggedIn DEF Queued, Idle, LoggedIn
<1>9. CASE ReplayNext
  <2>1. st = "Established"
    BY <1>9, <1>1 DEF ReplayNext, LoggedIn, Idle
  <2> QED
    BY <1>9, <1>u, <1>o, <1>1, <1>2, <1>0, <2>1, StaysLoggedIn DEF ReplayNext, Update, Files
<1>10. CASE ReplayDone
  <2>1. st = "Established"
    BY <1>10, <1>1 DEF ReplayDone, LoggedIn, Idle
  <2>2. \A i \in DOMAIN outbox' : outbox'[i].type \in {"RetransmitRequest", "Terminate"}
    BY <1>10, <1>0, <1>w, <1>o DEF ReplayDone
  <2>3. Idle' /\ st' \in {"Established", "WaitingForRetransmission"}
    BY <1>10, <2>1 DEF ReplayDone, Idle
  <2> QED
    BY <1>10, <1>u, <1>1, <1>2, <2>2, <2>3, StaysLoggedIn DEF ReplayDone
<1>11. CASE HandleMessage
  <2>1. st = "Established"
    BY <1>11, <1>1 DEF HandleMessage, LoggedIn, Idle
  <2> QED
    BY <1>11, <1>u, <1>o, <1>1, <1>2, <2>1, StaysLoggedIn DEF HandleMessage
<1> QED
  BY <1>1, <1>3, <1>4, <1>5, <1>6, <1>7, <1>8, <1>9, <1>10, <1>11 DEF Application

\* No step breaks the phases.
LEMMA NextPhases ==
    TypeOK /\ TypeOK' /\ Phases /\ [Next]_vars
        => /\ Phases' /\ (OnEstablishmentAck \/ Stays)
           /\ OnEstablishmentAck => LoggingIn /\ Acknowledged /\ LoggedIn'
<1>1. Phases /\ UNCHANGED vars => Phases' /\ Stays
  BY DEF Phases, Stays, LoggingIn, LoggedIn, Nothing, Asking, Answered, Acknowledged, Starting, Connected,
         vars, client, ghosts, Idle
<1>2. TypeOK /\ TypeOK' /\ Phases /\ Application => Phases' /\ Stays
  BY ApplicationPhases DEF Stays
<1> QED
  BY <1>1, <1>2, ExchangePhases, ProcessPhases, PollPhases, SessionPhases DEF Next, Session

-----------------------------------------------------------------------------
(* What a restart loses.                                                   *)

\* A part of an interval is finite and no larger than the rest of the interval it is in.
LEMMA PartOfInterval ==
    ASSUME NEW f \in Nat, NEW t \in Nat, NEW D, NEW X, X \subseteq ((f + 1) .. t) \ D
    PROVE  /\ Cardinality(X) \in Nat /\ Cardinality(((f + 1) .. t) \ D) \in Nat
           /\ Cardinality(X) <= Cardinality(((f + 1) .. t) \ D)
<1>1. IsFiniteSet((f + 1) .. t)
  BY FS_Interval
<1>2. IsFiniteSet(((f + 1) .. t) \ D)
  BY <1>1, FS_Subset
<1> QED
  BY <1>2, FS_Subset, FS_CardinalityType

\* An element more makes a set larger by one at most.
LEMMA OneMore ==
    ASSUME NEW f \in Nat, NEW t \in Nat, NEW D, NEW x
    PROVE  Cardinality(((f + 1) .. t) \ D) <= Cardinality(((f + 1) .. t) \ (D \cup {x})) + 1
<1> DEFINE A == ((f + 1) .. t) \ D
           B == ((f + 1) .. t) \ (D \cup {x})
<1>1. IsFiniteSet((f + 1) .. t)
  BY FS_Interval
<1>2. IsFiniteSet(A) /\ IsFiniteSet(B)
  BY <1>1, FS_Subset
<1>3. B = A \ {x}
  OBVIOUS
<1>4. Cardinality(B) = IF x \in A THEN Cardinality(A) - 1 ELSE Cardinality(A)
  BY <1>2, <1>3, FS_RemoveElement
<1>5. Cardinality(A) \in Nat
  BY <1>2, FS_CardinalityType
<1> QED
  BY <1>4, <1>5

\* Nothing is missed where nothing was counted.
LEMMA NoneMissed ==
    ASSUME NEW f \in Nat, NEW t \in Nat, t <= f, NEW D
    PROVE  Cardinality(((f + 1) .. t) \ D) = 0
<1>1. ((f + 1) .. t) \ D = {}
  OBVIOUS
<1> QED
  BY <1>1, FS_EmptySet

\* Crashes are counted up from none.
LEMMA CrashesType ==
    ASSUME TypeOK, \A k \in FaultKinds : left[k] <= Faults[k]
    PROVE  Crashes \in Nat
<1>1. /\ "exit" \in FaultKinds /\ "earlyExit" \in FaultKinds
      /\ left \in [FaultKinds -> Nat] /\ Faults \in [FaultKinds -> Nat]
  BY SessionConstants DEF FaultKinds, TypeOK
<1> QED
  BY <1>1 DEF Crashes

\* A step that counts, forces and crashes nothing loses nothing.
LEMMA NothingLost ==
    ASSUME TypeOK, Losses,
           UNCHANGED <<floor, disk, fileFloor, ever, inHand>>,
           \A k \in FaultKinds : left'[k] <= left[k],
           left'["exit"] = left["exit"], left'["earlyExit"] = left["earlyExit"],
           link' # "down" => link # "down" /\ sess'.seqIn = sess.seqIn /\ (sess.neg => sess'.neg),
           left' \in [FaultKinds -> Nat], sess'.neg \in BOOLEAN
    PROVE  Losses'
<1>1. Crashes' = Crashes
  BY DEF Crashes
<1>2. \A k \in FaultKinds : left'[k] <= Faults[k]
  BY SessionConstants DEF Losses, TypeOK
<1>3. Missed(fileFloor, disk.seqIn)' = Missed(fileFloor, disk.seqIn)
  BY DEF Missed
<1>4. link' # "down" => Missed(floor, sess.seqIn)' = Missed(floor, sess.seqIn)
  BY DEF Missed
<1>5. link' # "down" => (~sess'.neg => sess'.seqIn <= floor')
  BY DEF Losses
<1> QED
  BY <1>1, <1>2, <1>3, <1>4, <1>5 DEF Losses

\* A fault that is no crash leaves the crashes alone.
LEMMA SpentNoCrash ==
    ASSUME TypeOK, NEW kind \in FaultKinds \ {"exit", "earlyExit"}, Spend(kind) \/ UNCHANGED left
    PROVE  /\ \A k \in FaultKinds : left'[k] <= left[k]
           /\ left'["exit"] = left["exit"] /\ left'["earlyExit"] = left["earlyExit"]
           /\ left' \in [FaultKinds -> Nat]
<1>1. left \in [FaultKinds -> Nat] /\ "exit" \in FaultKinds /\ "earlyExit" \in FaultKinds
  BY DEF TypeOK, FaultKinds
<1> QED
  BY <1>1, Spent

\* The numbers of the losses.
LEMMA LossTypes ==
    ASSUME TypeOK
    PROVE  /\ floor \in Nat /\ fileFloor \in Nat /\ sess.seqIn \in Nat /\ disk.seqIn \in Nat
           /\ sess.neg \in BOOLEAN /\ disk.neg \in BOOLEAN /\ sess \in Files /\ disk \in Files
           /\ left \in [FaultKinds -> Nat]
BY SessionConstants DEF TypeOK, Files

\* The exchange's steps lose nothing the process counted.
LEMMA ExchangeLosses == TypeOK /\ TypeOK' /\ Phases /\ Losses /\ Exchange => Losses'
<1> SUFFICES ASSUME TypeOK, TypeOK', Phases, Losses, Exchange PROVE Losses'
  OBVIOUS
<1>1. ASSUME NEW kind \in FaultKinds \ {"exit", "earlyExit"}, Spend(kind) \/ UNCHANGED left,
             UNCHANGED <<client, disk, ghosts>>
      PROVE  Losses'
  BY <1>1, SpentNoCrash, NothingLost, LossTypes DEF client, ghosts
<1>2. {"skip", "retransReject", "estReject", "exTerminate", "negReject"}
        \subseteq FaultKinds \ {"exit", "earlyExit"}
  BY DEF FaultKinds
<1>3. ASSUME NEW lost \in BOOLEAN, Publish(lost) PROVE Losses'
  BY <1>1, <1>2, <1>3 DEF Publish
<1>4. CASE ExNegotiate
  <2>1. outbox[1].type = "Negotiate" /\ 1 \in DOMAIN outbox
    BY <1>4, ExReceived DEF ExNegotiate
  <2>2. LoggingIn
    BY <2>1 DEF Phases, LoggedIn
  <2>3. Asking
    BY <1>4, <2>2, LoginSends DEF ExNegotiate
  <2>4. ~sess.neg /\ link # "down" /\ ~disk.neg
    BY <2>1, <2>3 DEF Asking, Phases, Connected
  <2>5. UNCHANGED <<client, disk, floor, fileFloor>>
    BY <1>4 DEF ExNegotiate
  <2>6. sess.seqIn <= floor /\ disk.seqIn <= fileFloor
    BY <2>4 DEF Losses
  <2>7. /\ \A k \in FaultKinds : left'[k] <= Faults[k]
        /\ Crashes' = Crashes
    <3>1. Spend("negReject") \/ UNCHANGED left
      BY <1>4 DEF ExNegotiate
    <3>2. /\ \A k \in FaultKinds : left'[k] <= left[k]
          /\ left'["exit"] = left["exit"] /\ left'["earlyExit"] = left["earlyExit"]
          /\ left' \in [FaultKinds -> Nat]
      BY <3>1, <1>2, SpentNoCrash
    <3> QED
      BY <3>2, LossTypes, SessionConstants DEF Losses, Crashes
  <2>8. Crashes \in Nat
    BY CrashesType DEF Losses
  <2>9. /\ Cardinality(Missed(floor, sess.seqIn)') = 0
        /\ Cardinality(Missed(fileFloor, disk.seqIn)') = 0
    <3>1. sess'.seqIn <= floor' /\ disk'.seqIn <= fileFloor'
      BY <2>5, <2>6 DEF client
    <3>2. floor' \in Nat /\ fileFloor' \in Nat /\ sess'.seqIn \in Nat /\ disk'.seqIn \in Nat
      BY <2>5, LossTypes DEF client
    <3> QED
      BY <3>1, <3>2, NoneMissed DEF Missed
  <2> QED
    BY <2>4, <2>5, <2>6, <2>7, <2>8, <2>9 DEF Losses, client
<1>5. CASE ExEstablish
  BY <1>1, <1>2, <1>5 DEF ExEstablish
<1>6. CASE ExRetransmit
  BY <1>1, <1>2, <1>6 DEF ExRetransmit
<1>7. CASE ExIgnore
  BY <1>1, <1>2, <1>7 DEF ExIgnore
<1>8. CASE ExTerminateReply
  BY <1>1, <1>2, <1>8 DEF ExTerminateReply
<1>9. CASE ExTerminate
  BY <1>1, <1>2, <1>9 DEF ExTerminate
<1> QED
  BY <1>3, <1>4, <1>5, <1>6, <1>7, <1>8, <1>9 DEF Exchange, ExAnswer

\* Of what a process counted a crash loses the message in hand, and nothing else does.
LEMMA ProcessLosses ==
    TypeOK /\ TypeOK' /\ Phases /\ Losses /\ (Launch \/ Connect \/ Close \/ Exit \/ Persist \/ Wipe)
        => Losses'
<1> SUFFICES ASSUME TypeOK, TypeOK', Phases, Losses,
                    Launch \/ Connect \/ Close \/ Exit \/ Persist \/ Wipe
             PROVE  Losses'
  OBVIOUS
<1>0. /\ {"uninit", "refuse", "close", "wipe"} \subseteq FaultKinds \ {"exit", "earlyExit"}
      /\ {"exit", "earlyExit"} \subseteq FaultKinds
  BY DEF FaultKinds
<1>n. Crashes \in Nat
  BY CrashesType DEF Losses
<1>1. CASE Launch
  <2>1. Spend("uninit") \/ UNCHANGED left
    BY <1>1 DEF Launch
  <2>2. /\ \A k \in FaultKinds : left'[k] <= Faults[k]
        /\ Crashes' = Crashes
    <3>1. /\ \A k \in FaultKinds : left'[k] <= left[k]
          /\ left'["exit"] = left["exit"] /\ left'["earlyExit"] = left["earlyExit"]
          /\ left' \in [FaultKinds -> Nat]
      BY <2>1, <1>0, SpentNoCrash
    <3> QED
      BY <3>1, LossTypes, SessionConstants DEF Losses, Crashes
  <2>3. /\ sess'.seqIn = disk.seqIn /\ (disk.neg => sess'.neg) /\ floor' = fileFloor
        /\ UNCHANGED <<disk, fileFloor, ever, inHand>>
    BY <1>1, LossTypes DEF Launch, Update, Files
  <2>4. /\ Missed(floor, sess.seqIn)' = Missed(fileFloor, disk.seqIn)
        /\ Missed(fileFloor, disk.seqIn)' = Missed(fileFloor, disk.seqIn)
    BY <2>3 DEF Missed
  <2>5. ~sess'.neg => sess'.seqIn <= floor'
    BY <2>3 DEF Losses
  <2> QED
    BY <2>2, <2>3, <2>4, <2>5 DEF Losses
<1>2. CASE Connect
  BY <1>2, <1>0, SpentNoCrash, NothingLost, LossTypes DEF Connect, ghosts
<1>3. CASE Close
  BY <1>3, <1>0, SpentNoCrash, NothingLost, LossTypes DEF Close, ghosts
<1>4. CASE Exit
  <2>1. PICK kind \in {"exit", "earlyExit"} : Spend(kind)
    BY <1>4 DEF Exit
  <2>2. /\ left' \in [FaultKinds -> Nat] /\ left'[kind] = left[kind] - 1 /\ left[kind] \in Nat \ {0}
        /\ \A k \in FaultKinds \ {kind} : left'[k] = left[k]
    BY <2>1, <1>0, Spent
  <2>3. \A k \in FaultKinds : left'[k] <= Faults[k]
    BY <2>2, LossTypes, SessionConstants DEF Losses
  <2>4. Crashes' = Crashes + 1
    <3>1. left["exit"] \in Nat /\ left["earlyExit"] \in Nat /\ Faults["exit"] \in Nat
          /\ Faults["earlyExit"] \in Nat
      BY <1>0, LossTypes, SessionConstants
    <3>2. \/ left'["exit"] = left["exit"] - 1 /\ left'["earlyExit"] = left["earlyExit"]
          \/ left'["exit"] = left["exit"] /\ left'["earlyExit"] = left["earlyExit"] - 1
      BY <1>0, <2>1, <2>2
    <3> QED
      BY <3>1, <3>2 DEF Crashes
  <2>5. link' = "down" /\ UNCHANGED <<disk, fileFloor, ever>>
    BY <1>4 DEF Exit, Gone, ghosts
  <2>6. inHand' = 0
    BY <1>4 DEF Exit, Gone
  <2>7. Cardinality(Missed(fileFloor, disk.seqIn)') <= Cardinality(Missed(fileFloor, disk.seqIn)) + 1
    <3> DEFINE D == ever \cup {0}
    <3>1. Missed(fileFloor, disk.seqIn)' = ((fileFloor + 1) .. disk.seqIn) \ D
      BY <2>5, <2>6 DEF Missed
    <3>2. ((fileFloor + 1) .. disk.seqIn) \ (D \cup {inHand}) = Missed(fileFloor, disk.seqIn)
      BY LossTypes DEF Missed
    <3> HIDE DEF D
    <3>3. Cardinality(((fileFloor + 1) .. disk.seqIn) \ D)
            <= Cardinality(((fileFloor + 1) .. disk.seqIn) \ (D \cup {inHand})) + 1
      BY LossTypes, OneMore
    <3> QED
      BY <3>1, <3>2, <3>3
  <2>8. /\ Cardinality(Missed(fileFloor, disk.seqIn)) \in Nat
        /\ Cardinality(Missed(fileFloor, disk.seqIn)') \in Nat
    BY PartOfInterval, LossTypes, <2>5 DEF Missed
  <2>9. Cardinality(Missed(fileFloor, disk.seqIn)') <= Crashes'
    BY <2>4, <2>7, <2>8, <1>n DEF Losses
  <2> QED
    BY <2>3, <2>5, <2>9 DEF Losses
<1>5. CASE Persist
  <2>1. UNCHANGED <<sess, floor, ever, inHand, left, link>> /\ disk' = saved /\ fileFloor' = floor
        /\ link # "down"
    BY <1>5 DEF Persist, client
  <2>2. disk' = sess
    BY <2>1 DEF Phases
  <2>3. /\ Missed(floor, sess.seqIn)' = Missed(floor, sess.seqIn)
        /\ Missed(fileFloor, disk.seqIn)' = Missed(floor, sess.seqIn)
    BY <2>1, <2>2 DEF Missed
  <2> QED
    BY <2>1, <2>2, <2>3 DEF Losses, Crashes
<1>6. CASE Wipe
  <2>1. UNCHANGED <<link, ever, inHand>> /\ link = "down" /\ disk' = FreshFile /\ fileFloor' = 0
    BY <1>6 DEF Wipe, client
  <2>2. /\ \A k \in FaultKinds : left'[k] <= Faults[k]
        /\ Crashes' = Crashes
    <3>1. /\ \A k \in FaultKinds : left'[k] <= left[k]
          /\ left'["exit"] = left["exit"] /\ left'["earlyExit"] = left["earlyExit"]
          /\ left' \in [FaultKinds -> Nat]
      BY <1>6, <1>0, SpentNoCrash DEF Wipe
    <3> QED
      BY <3>1, LossTypes, SessionConstants DEF Losses, Crashes
  <2>3. disk'.seqIn = 0
    BY <2>1 DEF FreshFile
  <2>4. Cardinality(Missed(fileFloor, disk.seqIn)') = 0
    <3>1. fileFloor' \in Nat /\ disk'.seqIn \in Nat /\ disk'.seqIn <= fileFloor'
      BY <2>1, <2>3
    <3> QED
      BY <3>1, NoneMissed DEF Missed
  <2> QED
    BY <2>1, <2>2, <2>3, <2>4, <1>n DEF Losses
<1> QED
  BY <1>1, <1>2, <1>3, <1>4, <1>5, <1>6

\* SEQ_IN forced to a value counts nothing up to it.
LEMMA Forced ==
    ASSUME TypeOK, Losses, UNCHANGED <<disk, fileFloor, ever, inHand, left>>,
           floor' \in Nat, sess'.seqIn = floor'
    PROVE  Losses'
<1>1. Crashes' = Crashes /\ Crashes \in Nat
  BY CrashesType DEF Crashes, Losses
<1>2. Cardinality(Missed(floor, sess.seqIn)') = 0
  BY NoneMissed DEF Missed
<1>3. Missed(fileFloor, disk.seqIn)' = Missed(fileFloor, disk.seqIn)
  BY DEF Missed
<1> QED
  BY <1>1, <1>2, <1>3 DEF Losses

\* The poll thread, the commands and the session messages lose nothing.
LEMMA SessionLosses ==
    /\ TypeOK /\ TypeOK' /\ Phases /\ Losses
    /\ Dispatch \/ RetransCommand \/ TerminateCommand \/ Session
    => Losses'
<1> SUFFICES ASSUME TypeOK, TypeOK', Phases, Losses,
                    Dispatch \/ RetransCommand \/ TerminateCommand \/ Session
             PROVE  Losses'
  OBVIOUS
<1>0. /\ {"retransCmd", "stopCmd"} \subseteq FaultKinds \ {"exit", "earlyExit"}
      /\ "uninit" \in FaultKinds \ {"exit", "earlyExit"}
  BY DEF FaultKinds
<1>l. ASSUME UNCHANGED left
      PROVE  /\ \A k \in FaultKinds : left'[k] <= left[k]
             /\ left'["exit"] = left["exit"] /\ left'["earlyExit"] = left["earlyExit"]
             /\ left' \in [FaultKinds -> Nat]
  BY <1>l, <1>0, SpentNoCrash
<1>i. \A type : Receive(type) => link # "down"
  BY DEF Receive
<1>1. CASE Dispatch
  <2>1. UNCHANGED <<disk, fileFloor, ever, inHand, left, link>> /\ link # "down"
    BY <1>1 DEF Dispatch
  <2>2. CASE UNCHANGED <<sess, floor>>
    BY <2>1, <2>2, <1>l, NothingLost, LossTypes
  <2>3. CASE NegotiateSession
    BY <2>1, <2>3, Forced, LossTypes DEF NegotiateSession, Update, Files
  <2> QED
    BY <1>1, <2>2, <2>3 DEF Dispatch, EstablishSession
<1>2. CASE RetransCommand
  BY <1>2, <1>0, SpentNoCrash, NothingLost, LossTypes DEF RetransCommand, ghosts
<1>3. CASE TerminateCommand
  <2>1. sess' = sess
    BY <1>3 DEF TerminateCommand, Update
  <2> QED
    BY <1>3, <2>1, <1>0, SpentNoCrash, NothingLost, LossTypes DEF TerminateCommand, ghosts
<1>4. CASE OnNegotiationResponse
  <2>1. sess'.seqIn = sess.seqIn /\ sess'.neg /\ sess'.neg \in BOOLEAN
    BY <1>4, LossTypes DEF OnNegotiationResponse, Update, Files
  <2> QED
    BY <1>4, <2>1, <1>i, <1>l, NothingLost DEF OnNegotiationResponse, ghosts
<1>5. CASE OnNegotiationReject
  BY <1>5, <1>i, <1>l, NothingLost, LossTypes DEF OnNegotiationReject, Update, ghosts
<1>6. CASE OnEstablishmentAck
  <2>1. UNCHANGED <<disk, fileFloor, ever, inHand, left, link>> /\ link # "down"
    BY <1>6, <1>i DEF OnEstablishmentAck
  <2>2. sess'.neg = sess.neg
    BY <1>6, LossTypes DEF OnEstablishmentAck, Update, Files
  <2>3. \/ sess'.seqIn = sess.seqIn /\ floor' = floor
        \/ sess'.seqIn = 0 /\ floor' = 0
    BY <1>6, LossTypes DEF OnEstablishmentAck, Update, Files
  <2>4. CASE sess'.seqIn = sess.seqIn /\ floor' = floor
    BY <2>1, <2>2, <2>4, <1>l, NothingLost, LossTypes
  <2>5. CASE sess'.seqIn = 0 /\ floor' = 0
    BY <2>1, <2>5, Forced
  <2> QED
    BY <2>3, <2>4, <2>5
<1>7. CASE ExitOnAck
  <2>1. UNCHANGED <<disk, ghosts, left>> /\ inHand = 0 /\ inHand' = 0 /\ link' = "down"
    BY <1>7 DEF ExitOnAck, Gone, Idle
  <2>2. sess'.neg \in BOOLEAN
    BY FileTyped DEF TypeOK
  <2> QED
    BY <2>1, <2>2, <1>l, NothingLost DEF ghosts
<1>8. CASE OnEstablishmentReject
  <2>1. UNCHANGED <<disk, fileFloor, ever, inHand, left>>
    BY <1>8 DEF OnEstablishmentReject
  <2>2. sess'.seqIn = floor'
    BY <1>8, LossTypes DEF OnEstablishmentReject, Update, Files
  <2>3. floor' \in Nat
    BY SessionConstants DEF TypeOK
  <2> QED
    BY <2>1, <2>2, <2>3, Forced
<1>9. CASE OnTerminate
  BY <1>9, <1>i, <1>l, NothingLost, LossTypes DEF OnTerminate, Update, ghosts
<1>10. CASE OnRetransmitReject
  BY <1>10, <1>i, <1>l, NothingLost, LossTypes DEF OnRetransmitReject, ghosts
<1> QED
  BY <1>1, <1>2, <1>3, <1>4, <1>5, <1>6, <1>7, <1>8, <1>9, <1>10 DEF Session

\* A message is in hand as soon as it is counted, and done when it leaves the hand.
LEMMA ApplicationLosses == TypeOK /\ TypeOK' /\ Phases /\ Losses /\ Application => Losses'
<1> SUFFICES ASSUME TypeOK, TypeOK', Phases, Losses, Application PROVE Losses'
  OBVIOUS
<1>1. link # "down" /\ link' # "down" /\ sess.neg /\ sess'.neg
  BY ApplicationPhases DEF LoggedIn, Connected
<1>2. UNCHANGED <<left, disk, floor, fileFloor>>
  BY DEF Application, InSequence, Gap, TooLow, Drain, NextBatch, Queued, ReplayNext, ReplayDone,
         HandleMessage, ghosts
<1>3. ASSUME Missed(fileFloor, disk.seqIn)' \subseteq Missed(fileFloor, disk.seqIn),
             Missed(floor, sess.seqIn)' \subseteq Missed(floor, sess.seqIn)
      PROVE  Losses'
  <2>1. Crashes' = Crashes /\ Crashes \in Nat
    BY <1>2, CrashesType DEF Crashes, Losses
  <2>2. /\ Cardinality(Missed(fileFloor, disk.seqIn)') \in Nat
        /\ Cardinality(Missed(fileFloor, disk.seqIn)) \in Nat
        /\ Cardinality(Missed(fileFloor, disk.seqIn)') <= Cardinality(Missed(fileFloor, disk.seqIn))
    BY <1>3, PartOfInterval, LossTypes DEF Missed
  <2>3. /\ Cardinality(Missed(floor, sess.seqIn)') \in Nat
        /\ Cardinality(Missed(floor, sess.seqIn)) \in Nat
        /\ Cardinality(Missed(floor, sess.seqIn)') <= Cardinality(Missed(floor, sess.seqIn))
    BY <1>3, PartOfInterval, LossTypes DEF Missed
  <2> QED
    BY <1>1, <1>2, <2>1, <2>2, <2>3 DEF Losses
<1>4. ASSUME UNCHANGED sess, ever \cup {inHand} \subseteq ever' \cup {inHand'} \cup {0} PROVE Losses'
  BY <1>2, <1>3, <1>4, LossTypes DEF Missed
<1>5. ASSUME inHand = 0, sess' = [sess EXCEPT !.seqIn = @ + 1], inHand' = sess.seqIn + 1,
             UNCHANGED ever
      PROVE  Losses'
  <2>1. sess'.seqIn = sess.seqIn + 1
    BY <1>5, LossTypes DEF Files
  <2> QED
    BY <1>2, <1>3, <1>5, <2>1, LossTypes DEF Missed
<1>6. CASE InSequence
  BY <1>5, <1>6 DEF InSequence, Receive, Idle, Update, ghosts
<1>7. CASE ReplayNext
  BY <1>5, <1>7 DEF ReplayNext, Update, ghosts
<1>8. CASE Gap \/ TooLow \/ NextBatch \/ Queued
  BY <1>4, <1>8 DEF Gap, TooLow, NextBatch, Queued, Update, ghosts
<1>9. CASE Drain
  <2>1. UNCHANGED <<sess, ever>> /\ inHand = 0
    BY <1>9 DEF Drain, Receive, Idle, ghosts
  <2> QED
    BY <1>4, <2>1
<1>10. CASE ReplayDone
  BY <1>4, <1>10 DEF ReplayDone, ghosts
<1>11. CASE HandleMessage
  <2>1. UNCHANGED sess /\ ever' = ever \cup {inHand}
    BY <1>11 DEF HandleMessage
  <2> QED
    BY <1>4, <2>1
<1> QED
  BY <1>6, <1>7, <1>8, <1>9, <1>10, <1>11 DEF Application

\* No step loses more than a crash may.
LEMMA NextLosses == TypeOK /\ TypeOK' /\ Phases /\ Losses /\ [Next]_vars => Losses'
<1>1. TypeOK /\ TypeOK' /\ Phases /\ Losses /\ UNCHANGED vars => Losses'
  BY DEF vars, client, ghosts, Losses, Missed, Crashes
<1> QED
  BY <1>1, ExchangeLosses, ProcessLosses, SessionLosses, ApplicationLosses DEF Next

\* The program starts logged out, with nothing received.
LEMMA InitPhases == Init => Phases /\ Losses
<1> SUFFICES ASSUME Init PROVE Phases /\ Losses
  OBVIOUS
<1>1. Phases
  BY DEF Init, Phases, LoggingIn, Nothing, Idle, FreshFile, Starting
<1>2. \A k \in FaultKinds : left[k] = Faults[k] /\ Faults[k] \in Nat
  BY SessionConstants DEF Init
<1>3. "exit" \in FaultKinds /\ "earlyExit" \in FaultKinds
  BY DEF FaultKinds
<1>4. Crashes = 0
  BY <1>2, <1>3 DEF Crashes
<1>5. disk.seqIn = 0 /\ fileFloor = 0 /\ link = "down"
  BY DEF Init, FreshFile
<1>6. Cardinality(Missed(fileFloor, disk.seqIn)) = 0
  <2>1. disk.seqIn <= fileFloor /\ disk.seqIn \in Nat /\ fileFloor \in Nat
    BY <1>5
  <2> QED
    BY <2>1, NoneMissed DEF Missed
<1> QED
  BY <1>1, <1>2, <1>4, <1>5, <1>6 DEF Losses

-----------------------------------------------------------------------------
(* The session's messages, while the operator commands no retransmission.  *)

\* The types say what is a number.
LEMMA Numbers == (TypeOK => Facts) /\ (TypeOK' => Facts')
<1>1. ASSUME TypeOK PROVE Facts
  <2>1. /\ sess.seqIn \in Nat /\ gap.start \in Nat /\ gap.end \in Nat /\ gap.count \in Nat
        /\ batch.to \in Nat /\ ex.sent \in Nat /\ inHand \in Nat /\ base \in Nat
        /\ \A x \in recov : x \in Nat
    <3>1. /\ sess \in Files /\ recov \subseteq Seqs
          /\ gap \in [start : Nat, end : 0 .. MaxSeq, count : Uint16s]
          /\ batch \in [to : 0 .. MaxSeq, then : {"none", "status", "retrans"}]
          /\ inHand \in 0 .. MaxSeq /\ base \in 0 .. MaxSeq
          /\ ex \in [uuid : 0 .. MaxUuid, sent : 0 .. MaxSeq, known : BOOLEAN, on : BOOLEAN]
      BY <1>1 DEF TypeOK
    <3>2. gap.count \in Nat
      BY <3>1, Uint16Typed
    <3>3. sess.seqIn \in 0 .. MaxSeq
      BY <3>1, FileTyped
    <3>4. gap.end \in 0 .. MaxSeq /\ batch.to \in 0 .. MaxSeq /\ ex.sent \in 0 .. MaxSeq
      BY <3>1
    <3> QED
      BY <3>1, <3>2, <3>3, <3>4, SessionConstants DEF Seqs
  <2>2. inbox \in Seq(Messages) /\ outbox \in Seq(Requests)
    BY <1>1 DEF TypeOK
  <2>3. /\ Len(inbox) \in Nat /\ DOMAIN inbox = 1 .. Len(inbox)
        /\ Len(outbox) \in Nat /\ DOMAIN outbox = 1 .. Len(outbox)
    BY <2>2, LenProperties
  <2>4. \A i \in DOMAIN inbox : App(i) => inbox[i].seq \in Nat
    BY <2>2, <2>3, ElementOfSeq, Carries, SessionConstants DEF App, Seqs
  <2>5. \A i \in DOMAIN outbox :
          Request(i) => outbox[i].from \in Nat /\ outbox[i].count \in Nat
    BY <2>2, <2>3, ElementOfSeq, RequestCarries, SessionConstants DEF Request
  <2> QED
    BY <2>1, <2>3, <2>4, <2>5 DEF Facts
<1>2. ASSUME TypeOK' PROVE Facts'
  <2>1. /\ sess'.seqIn \in Nat /\ gap'.start \in Nat /\ gap'.end \in Nat /\ gap'.count \in Nat
        /\ batch'.to \in Nat /\ ex'.sent \in Nat /\ inHand' \in Nat /\ base' \in Nat
        /\ \A x \in recov' : x \in Nat
    <3>1. /\ sess' \in Files /\ recov' \subseteq Seqs
          /\ gap' \in [start : Nat, end : 0 .. MaxSeq, count : Uint16s]
          /\ batch' \in [to : 0 .. MaxSeq, then : {"none", "status", "retrans"}]
          /\ inHand' \in 0 .. MaxSeq /\ base' \in 0 .. MaxSeq
          /\ ex' \in [uuid : 0 .. MaxUuid, sent : 0 .. MaxSeq, known : BOOLEAN, on : BOOLEAN]
      BY <1>2 DEF TypeOK
    <3>2. gap'.count \in Nat
      BY <3>1, Uint16Typed
    <3>3. sess'.seqIn \in 0 .. MaxSeq
      BY <3>1, FileTyped
    <3>4. gap'.end \in 0 .. MaxSeq /\ batch'.to \in 0 .. MaxSeq /\ ex'.sent \in 0 .. MaxSeq
      BY <3>1
    <3> QED
      BY <3>1, <3>2, <3>3, <3>4, SessionConstants DEF Seqs
  <2>2. inbox' \in Seq(Messages) /\ outbox' \in Seq(Requests)
    BY <1>2 DEF TypeOK
  <2>3. /\ Len(inbox') \in Nat /\ DOMAIN inbox' = 1 .. Len(inbox')
        /\ Len(outbox') \in Nat /\ DOMAIN outbox' = 1 .. Len(outbox')
    BY <2>2, LenProperties
  <2>4. \A i \in DOMAIN inbox' : App(i)' => inbox'[i].seq \in Nat
    BY <2>2, <2>3, ElementOfSeq, Carries, SessionConstants DEF App, Seqs
  <2>5. \A i \in DOMAIN outbox' :
          Request(i)' => outbox'[i].from \in Nat /\ outbox'[i].count \in Nat
    BY <2>2, <2>3, ElementOfSeq, RequestCarries, SessionConstants DEF Request
  <2> QED
    BY <2>1, <2>3, <2>4, <2>5 DEF Facts
<1> QED
  BY <1>1, <1>2

\* Reception takes the first message and shifts the others.
Shifted ==
    /\ 1 \in DOMAIN inbox
    /\ \A i \in DOMAIN inbox' :
         i \in Nat \ {0} /\ i + 1 \in DOMAIN inbox /\ inbox'[i] = inbox[i + 1]
    /\ \A i \in DOMAIN inbox : i # 1 =>
         i \in Nat /\ i > 1 /\ i - 1 \in DOMAIN inbox' /\ inbox'[i - 1] = inbox[i]

\* Receive shifts.
LEMMA ReceiveShifts ==
    ASSUME TypeOK, NEW type, Receive(type)
    PROVE  Shifted /\ inbox[1].type = type /\ Head(inbox) = inbox[1] /\ Idle /\ link # "down"
<1>1. /\ inbox[1].type = type /\ Head(inbox) = inbox[1]
      /\ Len(inbox) \in Nat \ {0} /\ DOMAIN inbox = 1 .. Len(inbox)
      /\ DOMAIN inbox' = 1 .. Len(inbox) - 1 /\ link # "down" /\ Idle
      /\ \A i \in DOMAIN inbox' :
           i \in Nat \ {0} /\ i + 1 \in DOMAIN inbox /\ inbox'[i] = inbox[i + 1]
  BY Received
<1>2. ASSUME NEW i \in DOMAIN inbox, i # 1
      PROVE  i \in Nat /\ i > 1 /\ i - 1 \in DOMAIN inbox' /\ inbox'[i - 1] = inbox[i]
  <2>1. i \in Nat /\ i > 1 /\ i - 1 \in DOMAIN inbox'
    BY <1>1, <1>2
  <2>2. inbox'[i - 1] = inbox[(i - 1) + 1]
    BY <1>1, <2>1
  <2>3. (i - 1) + 1 = i
    BY <2>1
  <2> QED
    BY <2>1, <2>2, <2>3
<1> QED
  BY <1>1, <1>2 DEF Shifted

\* The live messages that are left stay new when SEQ_IN, the queue and the replay
\* stay before them.
LEMMA LivesLeft ==
    ASSUME Facts, Facts', LiveIsNew, Shifted,
           ex'.sent = ex.sent, sess'.seqIn >= sess.seqIn,
           \A i \in DOMAIN inbox : i # 1 /\ App(i) /\ inbox[i].seq > gap'.end => Live(i),
           \A i \in DOMAIN inbox : i # 1 /\ Live(i) =>
               /\ sess'.seqIn < inbox[i].seq /\ batch'.to < inbox[i].seq
               /\ \A x \in recov' : x < inbox[i].seq
    PROVE  LiveIsNew'
<1> SUFFICES ASSUME NEW i \in DOMAIN inbox', Live(i)'
             PROVE  /\ inbox'[i].seq <= ex'.sent
                    /\ sess'.seqIn < inbox'[i].seq /\ inbox'[i].seq < MaxBatch + sess'.seqIn
                    /\ batch'.to < inbox'[i].seq
                    /\ \A x \in recov' : x < inbox'[i].seq
                    /\ \A j \in DOMAIN inbox' : Live(j)' /\ j < i => inbox'[j].seq < inbox'[i].seq
  BY DEF LiveIsNew
<1>1. \A j \in DOMAIN inbox' : Live(j)' => Live(j + 1) /\ inbox'[j] = inbox[j + 1] /\ j + 1 # 1
                                           /\ j + 1 \in DOMAIN inbox
  BY DEF Live, App, Shifted
<1>2. Live(i + 1) /\ inbox'[i] = inbox[i + 1] /\ i + 1 # 1 /\ i + 1 \in DOMAIN inbox
  BY <1>1
<1>3. /\ inbox[i + 1].seq <= ex.sent /\ inbox[i + 1].seq < MaxBatch + sess.seqIn
      /\ \A j \in DOMAIN inbox : Live(j) /\ j < i + 1 => inbox[j].seq < inbox[i + 1].seq
  BY <1>2 DEF LiveIsNew
<1>4. /\ sess'.seqIn < inbox[i + 1].seq /\ batch'.to < inbox[i + 1].seq
      /\ \A x \in recov' : x < inbox[i + 1].seq
  BY <1>2
<1>5. \A j \in DOMAIN inbox' : Live(j)' /\ j < i => inbox'[j].seq < inbox'[i].seq
  <2> SUFFICES ASSUME NEW j \in DOMAIN inbox', Live(j)', j < i PROVE inbox'[j].seq < inbox'[i].seq
    OBVIOUS
  <2>1. j + 1 < i + 1 /\ j + 1 \in DOMAIN inbox /\ Live(j + 1) /\ inbox'[j] = inbox[j + 1]
    BY <1>1 DEF Facts
  <2> QED
    BY <2>1, <1>2, <1>3
<1>6. inbox'[i].seq < MaxBatch + sess'.seqIn
  <2>1. inbox[i + 1].seq \in Nat /\ sess.seqIn \in Nat /\ sess'.seqIn \in Nat /\ MaxBatch \in Nat
    BY <1>2, SessionConstants DEF Facts, Live
  <2> QED
    BY <1>2, <1>3, <2>1
<1> QED
  BY <1>2, <1>3, <1>4, <1>5, <1>6

\* The messages asked for that are left come in order and without a hole, when the
\* one that was received is queued.
LEMMA WantedLeft ==
    ASSUME Facts, Facts', WantedInOrder, Shifted, gap' = gap, sess'.seqIn = sess.seqIn,
           st' # "Established" \/ \A i \in DOMAIN inbox : ~Wanted(i),
           recov \subseteq recov', Wanted(1) => inbox[1].seq \in recov'
    PROVE  WantedInOrder'
<1> SUFFICES ASSUME NEW i \in DOMAIN inbox', Wanted(i)'
             PROVE  /\ st' # "Established" /\ OpenGap'
                    /\ gap'.start <= inbox'[i].seq /\ inbox'[i].seq < gap'.start + MaxBatch
                    /\ \A j \in DOMAIN inbox' :
                         Wanted(j)' /\ j < i => inbox'[j].seq < inbox'[i].seq
                    /\ \A x \in Nat : gap'.start <= x /\ x < inbox'[i].seq =>
                         x \in recov' \/ \E k \in DOMAIN inbox' :
                                            Wanted(k)' /\ k < i /\ inbox'[k].seq = x
  BY DEF WantedInOrder
<1>1. \A j \in DOMAIN inbox' : Wanted(j)' => Wanted(j + 1) /\ inbox'[j] = inbox[j + 1]
                                             /\ j + 1 \in DOMAIN inbox /\ j \in Nat
  BY DEF Wanted, App, Shifted
<1>2. Wanted(i + 1) /\ inbox'[i] = inbox[i + 1] /\ i + 1 \in DOMAIN inbox /\ i \in Nat
  BY <1>1
<1>3. /\ st # "Established" /\ OpenGap
      /\ gap.start <= inbox[i + 1].seq /\ inbox[i + 1].seq < gap.start + MaxBatch
      /\ \A j \in DOMAIN inbox : Wanted(j) /\ j < i + 1 => inbox[j].seq < inbox[i + 1].seq
      /\ \A x \in Nat : gap.start <= x /\ x < inbox[i + 1].seq =>
             x \in recov \/ \E k \in DOMAIN inbox : Wanted(k) /\ k < i + 1 /\ inbox[k].seq = x
  BY <1>2 DEF WantedInOrder
<1>4. st' # "Established" /\ OpenGap'
  BY <1>2, <1>3 DEF OpenGap
<1>5. \A j \in DOMAIN inbox' : Wanted(j)' /\ j < i => inbox'[j].seq < inbox'[i].seq
  <2> SUFFICES ASSUME NEW j \in DOMAIN inbox', Wanted(j)', j < i
               PROVE  inbox'[j].seq < inbox'[i].seq
    OBVIOUS
  <2>1. j + 1 < i + 1 /\ j + 1 \in DOMAIN inbox /\ Wanted(j + 1) /\ inbox'[j] = inbox[j + 1]
    BY <1>1, <1>2
  <2> QED
    BY <2>1, <1>2, <1>3
<1>6. ASSUME NEW x \in Nat, gap'.start <= x, x < inbox'[i].seq
      PROVE  x \in recov' \/ \E k \in DOMAIN inbox' : Wanted(k)' /\ k < i /\ inbox'[k].seq = x
  <2>1. x \in recov \/ \E k \in DOMAIN inbox : Wanted(k) /\ k < i + 1 /\ inbox[k].seq = x
    BY <1>2, <1>3, <1>6
  <2>2. ASSUME NEW k \in DOMAIN inbox, Wanted(k), k < i + 1, inbox[k].seq = x, k # 1
        PROVE  \E l \in DOMAIN inbox' : Wanted(l)' /\ l < i /\ inbox'[l].seq = x
    <3>1. k \in Nat /\ k - 1 \in DOMAIN inbox' /\ inbox'[k - 1] = inbox[k] /\ k - 1 < i
      BY <2>2, <1>2 DEF Shifted
    <3>2. Wanted(k - 1)'
      BY <3>1, <2>2 DEF Wanted, App
    <3> QED
      BY <3>1, <3>2, <2>2
  <2>3. (\E k \in DOMAIN inbox : k = 1 /\ Wanted(k) /\ inbox[k].seq = x) => x \in recov'
    OBVIOUS
  <2> QED
    BY <2>1, <2>2, <2>3
<1> QED
  BY <1>2, <1>3, <1>4, <1>5, <1>6

\* Nothing was asked for that is not answered.
Silent ==
    /\ \A i \in DOMAIN outbox : ~Request(i)
    /\ \A i \in DOMAIN inbox : ~Refusal(i) /\ ~Wanted(i)

\* In an established session nothing is asked for.
LEMMA EstablishedIsSilent ==
    ASSUME InSession, st = "Established"
    PROVE  Silent
BY DEF InSession, OneAnswer, WantedInOrder, Silent

\* Where nothing is asked for nothing is in the wrong order.
LEMMA SilentInOrder == (Silent => OneAnswer /\ WantedInOrder) /\ (Silent' => OneAnswer' /\ WantedInOrder')
<1>1. Silent => OneAnswer /\ WantedInOrder
  BY DEF Silent, OneAnswer, WantedInOrder
<1>2. Silent' => OneAnswer' /\ WantedInOrder'
  BY DEF Silent, OneAnswer, WantedInOrder
<1> QED
  BY <1>1, <1>2

\* A message taken from a silent session leaves it silent, when what follows it is
\* behind the gap.
LEMMA SilentLeft ==
    ASSUME Facts, Facts', \A i \in DOMAIN outbox : ~Request(i), Shifted, outbox' = outbox,
           \A i \in DOMAIN inbox : i # 1 => ~Refusal(i) /\ (App(i) => inbox[i].seq > gap'.end)
    PROVE  Silent'
<1>1. \A i \in DOMAIN outbox' : ~Request(i)'
  BY DEF Request
<1>2. ASSUME NEW i \in DOMAIN inbox' PROVE ~Refusal(i)' /\ ~Wanted(i)'
  <2>1. i + 1 \in DOMAIN inbox /\ i + 1 # 1 /\ inbox'[i] = inbox[i + 1]
    BY DEF Shifted
  <2>2. ~Refusal(i)'
    BY <2>1 DEF Refusal
  <2>3. App(i)' => App(i + 1) /\ inbox[i + 1].seq > gap'.end /\ inbox[i + 1].seq \in Nat
    BY <2>1 DEF App, Facts
  <2>4. ~Wanted(i)'
    BY <2>1, <2>3 DEF Wanted, Facts
  <2> QED
    BY <2>2, <2>4
<1> QED
  BY <1>1, <1>2 DEF Silent

\* What is asked for does not exceed what is missing, although it is counted in 16 bits.
LEMMA CountFits ==
    ASSUME NEW n \in Nat, n > 0, NEW c, c = Uint16(n) \/ c = n, NEW k,
           k = IF c > MaxBatch THEN 0 ELSE c
    PROVE  k <= n /\ (k = 0 => MaxBatch <= n)
<1>1. n % 65536 \in Nat /\ n % 65536 <= n /\ (n % 65536 = 0 => n >= 65536)
  BY SMT
<1>2. c \in Nat /\ c <= n /\ (c = 0 => n >= 65536)
  BY <1>1 DEF Uint16
<1>3. MaxBatch \in Nat /\ MaxBatch > 0 /\ MaxBatch < 65536
  BY SessionConstants, BatchAssumption
<1> QED
  BY <1>2, <1>3

\* A session in which nothing is asked for asks for the gap it opens.
LEMMA GapAsked ==
    ASSUME TypeOK, Facts, Facts', \A i \in DOMAIN outbox : ~Request(i),
           NEW from \in Nat, NEW count \in Nat, Wire(RetransmitRequest(from, count)),
           from = gap'.start, count = Uint16(Remaining') \/ count = Remaining',
           OpenGap', st' # "Established",
           \A i \in DOMAIN inbox' : ~Refusal(i)' /\ ~Wanted(i)'
    PROVE  OneAnswer'
<1>1. PICK m \in Requests :
             /\ RetransmitRequest(from, count) = <<m>>
             /\ m.type = "RetransmitRequest" /\ m.from = from
             /\ m.count = IF count > MaxBatch THEN 0 ELSE count
  <2>1. outbox \in Seq(Requests)
    BY DEF TypeOK
  <2> QED
    BY <2>1, RequestOnWire
<1>2. /\ link # "open" => outbox' = outbox
      /\ link = "open" =>
           \A i \in DOMAIN outbox' : \/ i \in DOMAIN outbox /\ outbox'[i] = outbox[i]
                                     \/ i = Len(outbox) + 1 /\ outbox'[i] = m
  <2>1. outbox \in Seq(Requests) /\ Wire(<<m>>)
    BY <1>1 DEF TypeOK
  <2> QED
    BY <2>1, WireAdds
<1>3. \A i \in DOMAIN outbox' : Request(i)' => i = Len(outbox) + 1 /\ outbox'[i] = m
  BY <1>2 DEF Request
<1>4. Remaining' \in Nat /\ Remaining' > 0
  <2>1. gap'.start \in Nat /\ gap'.end \in Nat /\ gap'.start <= gap'.end
    BY DEF OpenGap, Facts
  <2>2. Remaining' = gap'.end - gap'.start + 1
    BY DEF Remaining
  <2> QED
    BY <2>1, <2>2
<1>5. PICK n : n = Remaining'
  OBVIOUS
<1>6. m.count <= Remaining' /\ (m.count = 0 => MaxBatch <= Remaining')
  BY <1>1, <1>4, <1>5, CountFits
<1>7. \A i \in DOMAIN outbox' : Request(i)' =>
        /\ outbox'[i].from = gap'.start
        /\ outbox'[i].count = 0 => MaxBatch <= Remaining'
        /\ outbox'[i].count <= Remaining'
        /\ \A j \in DOMAIN outbox' : Request(j)' => j = i
  BY <1>1, <1>3, <1>6
<1> QED
  BY <1>7 DEF OneAnswer

\* An expected message is live, and the ones after it are later.
LEMMA InSequenceInSession ==
    ASSUME TypeOK, TypeOK', LoggedIn, InSession, InSequence
    PROVE  InSession'
<1>0. Facts /\ Facts'
  BY Numbers
<1>1. /\ Shifted /\ inbox[1].type = "App" /\ Head(inbox) = inbox[1] /\ Idle
  BY ReceiveShifts DEF InSequence
<1>2. /\ st = "Established" /\ st' = st /\ inbox[1].seq = sess.seqIn + 1
      /\ sess'.seqIn = sess.seqIn + 1
      /\ UNCHANGED <<gap, recov, batch, outbox, ex>>
  BY <1>1 DEF InSequence, Update, TypeOK, Files
<1>3. Silent
  BY <1>2, EstablishedIsSilent
<1>4. Live(1) /\ 1 \in DOMAIN inbox
  <2>1. 1 \in DOMAIN inbox /\ App(1) /\ ~Wanted(1)
    BY <1>1, <1>3 DEF Silent, App, Shifted
  <2>2. inbox[1].seq \in Nat /\ gap.end \in Nat
    BY <1>0, <2>1 DEF Facts
  <2> QED
    BY <2>1, <2>2 DEF Live, Wanted
<1>5. batch = NoBatch /\ batch.to = 0
  BY <1>1 DEF Idle, NoBatch
<1>6. \A i \in DOMAIN inbox : i # 1 /\ Live(i) =>
        /\ sess'.seqIn < inbox[i].seq /\ batch'.to < inbox[i].seq
        /\ \A x \in recov' : x < inbox[i].seq
  BY <1>1, <1>2, <1>4 DEF InSession, LiveIsNew, Shifted
<1>7. LiveIsNew'
  <2>1. \A i \in DOMAIN inbox : i # 1 /\ App(i) /\ inbox[i].seq > gap'.end => Live(i)
    BY <1>2 DEF Live
  <2>2. ex'.sent = ex.sent /\ sess'.seqIn >= sess.seqIn
    BY <1>2, <1>0 DEF Facts
  <2> QED
    BY <1>0, <1>1, <1>6, <2>1, <2>2, LivesLeft DEF InSession
<1>8. Silent'
  <2>1. \A i \in DOMAIN inbox : ~Refusal(i) /\ (App(i) => inbox[i].seq > gap'.end)
    BY <1>0, <1>2, <1>3 DEF Silent, Wanted, App, Facts
  <2> QED
    BY <1>0, <1>1, <1>2, <1>3, <2>1, SilentLeft DEF Silent
<1>9. AllSent'
  BY <1>2, <1>4 DEF InSession, AllSent, LiveIsNew
<1> QED
  BY <1>2, <1>5, <1>7, <1>8, <1>9, SilentInOrder DEF InSession, Waits, Replays

\* A message too far ahead opens a gap, which is smaller than a batch.
LEMMA GapInSession ==
    ASSUME TypeOK, TypeOK', LoggedIn, InSession, Gap
    PROVE  InSession'
<1>0. Facts /\ Facts'
  BY Numbers
<1>1. /\ Shifted /\ inbox[1].type = "App" /\ Head(inbox) = inbox[1] /\ Idle
  BY ReceiveShifts DEF Gap
<1> DEFINE s == inbox[1].seq
<1>2. /\ st = "Established" /\ s > sess.seqIn + 1
      /\ gap' = GapBetween(sess.seqIn + 1, s)
      /\ recov' = recov \cup {s}
      /\ st' = "WaitingForRetransmission"
      /\ Wire(RetransmitRequest(gap'.start, gap'.count))
      /\ UNCHANGED <<sess, batch, ex>>
  BY <1>1 DEF Gap
<1>3. Silent
  BY <1>2, EstablishedIsSilent
<1>4. Live(1) /\ 1 \in DOMAIN inbox /\ s \in Nat
  <2>1. App(1) /\ 1 \in DOMAIN inbox
    BY <1>1 DEF App, Shifted
  <2>2. ~Wanted(1) /\ inbox[1].seq \in Nat /\ gap.end \in Nat
    BY <1>0, <1>3, <2>1 DEF Silent, Facts
  <2> QED
    BY <2>1, <2>2 DEF Live, Wanted
<1>5. batch = NoBatch /\ batch.to = 0
  BY <1>1 DEF Idle, NoBatch
<1>6. gap'.start = sess.seqIn + 1 /\ gap'.end = s - 1 /\ gap'.count = Uint16(s - (sess.seqIn + 1))
  BY <1>2 DEF GapBetween
<1>7. OpenGap' /\ Remaining' = s - (sess.seqIn + 1)
  <2>1. sess.seqIn \in Nat /\ s \in Nat /\ s > sess.seqIn + 1 /\ sess'.seqIn = sess.seqIn
    BY <1>0, <1>2, <1>4 DEF Facts
  <2> HIDE DEF s
  <2>2. sess'.seqIn < gap'.start /\ gap'.start <= gap'.end
    BY <1>6, <2>1
  <2>3. Remaining' = gap'.end - gap'.start + 1
    BY DEF Remaining
  <2>4. gap'.end - gap'.start + 1 = s - (sess.seqIn + 1)
    BY <1>6, <2>1
  <2> QED
    BY <2>2, <2>3, <2>4 DEF OpenGap
<1>8. \A i \in DOMAIN inbox : i # 1 /\ App(i) => Live(i) /\ s < inbox[i].seq /\ inbox[i].seq \in Nat
  <2>1. \A i \in DOMAIN inbox : App(i) => Live(i) /\ inbox[i].seq \in Nat
    <3> SUFFICES ASSUME NEW i \in DOMAIN inbox, App(i) PROVE Live(i) /\ inbox[i].seq \in Nat
      OBVIOUS
    <3>1. inbox[i].seq \in Nat /\ gap.end \in Nat
      BY <1>0 DEF Facts
    <3>2. ~Wanted(i)
      BY <1>3 DEF Silent
    <3> QED
      BY <3>1, <3>2 DEF Live, Wanted
  <2> QED
    BY <2>1, <1>1, <1>4 DEF InSession, LiveIsNew, Shifted
<1>9. \A i \in DOMAIN inbox : i # 1 /\ Live(i) =>
        /\ sess'.seqIn < inbox[i].seq /\ batch'.to < inbox[i].seq
        /\ \A x \in recov' : x < inbox[i].seq
  BY <1>2, <1>8 DEF InSession, LiveIsNew, Live
<1>10. LiveIsNew'
  <2>1. \A i \in DOMAIN inbox : i # 1 /\ App(i) /\ inbox[i].seq > gap'.end => Live(i)
    BY <1>8
  <2>2. ex'.sent = ex.sent /\ sess'.seqIn >= sess.seqIn
    BY <1>2, <1>0 DEF Facts
  <2> QED
    BY <1>0, <1>1, <1>9, <2>1, <2>2, LivesLeft DEF InSession
<1>11. \A i \in DOMAIN inbox' : ~Refusal(i)' /\ ~Wanted(i)'
  <2> SUFFICES ASSUME NEW i \in DOMAIN inbox' PROVE ~Refusal(i)' /\ ~Wanted(i)'
    OBVIOUS
  <2>1. i + 1 \in DOMAIN inbox /\ i + 1 # 1 /\ inbox'[i] = inbox[i + 1]
    BY <1>1 DEF Shifted
  <2>2. ~Refusal(i)'
    BY <1>3, <2>1 DEF Refusal, Silent
  <2>3. App(i)' => inbox'[i].seq > s /\ inbox'[i].seq \in Nat
    BY <1>8, <2>1 DEF App
  <2> QED
    BY <2>2, <2>3, <1>4, <1>6 DEF Wanted
<1>12. OneAnswer'
  <2>1. PICK from, count : from = gap'.start /\ count = gap'.count
    OBVIOUS
  <2>2. Wire(RetransmitRequest(from, count)) /\ from \in Nat /\ count \in Nat
    BY <1>0, <1>2, <2>1 DEF Facts
  <2>3. count = Uint16(Remaining')
    BY <1>6, <1>7, <2>1
  <2> QED
    BY <1>0, <1>2, <1>3, <1>7, <1>11, <2>1, <2>2, <2>3, GapAsked DEF Silent
<1>13. WantedInOrder'
  BY <1>11 DEF WantedInOrder
<1>14. AllSent'
  <2>1. s <= ex.sent
    BY <1>4 DEF InSession, LiveIsNew
  <2>2. sess'.seqIn <= ex.sent /\ batch'.to <= ex.sent /\ \A x \in recov' : x <= ex.sent
    BY <1>0, <1>2, <1>4, <2>1 DEF InSession, AllSent, Facts
  <2>3. gap'.end <= ex.sent
    BY <1>0, <1>2, <1>4, <1>6, <2>1 DEF InSession, AllSent, Facts
  <2> QED
    BY <1>2, <2>2, <2>3 DEF AllSent
<1>15. Waits' /\ Replays'
  <2>1. \A x \in Nat : ~(sess'.seqIn < x /\ x < gap'.start)
    BY <1>0, <1>2, <1>6 DEF Facts
  <2>2. gap'.count = Uint16(Remaining')
    BY <1>6, <1>7
  <2> QED
    BY <1>2, <1>5, <1>7, <2>1, <2>2 DEF Waits, Replays
<1> QED
  BY <1>10, <1>12, <1>13, <1>14, <1>15 DEF InSession

\* The answers that are left are still the answers to one request.
LEMMA AnswersLeft ==
    ASSUME OneAnswer, Shifted, outbox' = outbox, gap' = gap, sess'.seqIn = sess.seqIn,
           st' # "Established"
    PROVE  OneAnswer'
<1>1. OpenGap' = OpenGap /\ Remaining' = Remaining
  BY DEF OpenGap, Remaining
<1>2. \A i \in DOMAIN inbox' : /\ i + 1 \in DOMAIN inbox /\ i \in Nat
                               /\ Refusal(i)' => Refusal(i + 1)
                               /\ Wanted(i)' => Wanted(i + 1)
  BY DEF Shifted, Refusal, Wanted, App
<1>3. ASSUME NEW i \in DOMAIN outbox', Request(i)'
      PROVE  /\ OpenGap' /\ outbox'[i].from = gap'.start
             /\ outbox'[i].count = 0 => MaxBatch <= Remaining'
             /\ outbox'[i].count <= Remaining'
             /\ \A j \in DOMAIN outbox' : Request(j)' => j = i
             /\ \A j \in DOMAIN inbox' : ~Refusal(j)' /\ ~Wanted(j)'
  <2>1. i \in DOMAIN outbox /\ Request(i)
    BY <1>3 DEF Request
  <2>2. /\ OpenGap /\ outbox[i].from = gap.start
        /\ outbox[i].count = 0 => MaxBatch <= Remaining
        /\ outbox[i].count <= Remaining
        /\ \A j \in DOMAIN outbox : Request(j) => j = i
        /\ \A j \in DOMAIN inbox : ~Refusal(j) /\ ~Wanted(j)
    BY <2>1 DEF OneAnswer
  <2>3. \A j \in DOMAIN outbox' : Request(j)' => j = i
    BY <2>2 DEF Request
  <2> QED
    BY <1>1, <1>2, <2>2, <2>3
<1>4. ASSUME NEW i \in DOMAIN inbox', Refusal(i)'
      PROVE  OpenGap' /\ \A j \in DOMAIN inbox' : (Refusal(j)' => j = i) /\ ~Wanted(j)'
  <2>1. i + 1 \in DOMAIN inbox /\ Refusal(i + 1) /\ i \in Nat
    BY <1>2, <1>4
  <2>2. OpenGap /\ \A j \in DOMAIN inbox : (Refusal(j) => j = i + 1) /\ ~Wanted(j)
    BY <2>1 DEF OneAnswer
  <2>3. ASSUME NEW j \in DOMAIN inbox' PROVE (Refusal(j)' => j = i) /\ ~Wanted(j)'
    <3>1. /\ j + 1 \in DOMAIN inbox /\ j \in Nat
          /\ Refusal(j)' => Refusal(j + 1)
          /\ Wanted(j)' => Wanted(j + 1)
      BY <1>2
    <3>2. (Refusal(j + 1) => j + 1 = i + 1) /\ ~Wanted(j + 1)
      BY <2>2, <3>1
    <3>3. j + 1 = i + 1 => j = i
      BY <2>1, <3>1
    <3> QED
      BY <3>1, <3>2, <3>3
  <2> QED
    BY <1>1, <2>2, <2>3
<1> QED
  BY <1>3, <1>4 DEF OneAnswer

\* In an established session a message received is live.
LEMMA EstablishedIsLive ==
    ASSUME TypeOK, InSession, st = "Established", Receive("App")
    PROVE  Live(1) /\ 1 \in DOMAIN inbox /\ inbox[1].seq \in Nat /\ Head(inbox) = inbox[1]
<1>1. App(1) /\ 1 \in DOMAIN inbox /\ Head(inbox) = inbox[1]
  BY ReceiveShifts DEF App, Shifted
<1>2. ~Wanted(1)
  BY <1>1, EstablishedIsSilent DEF Silent
<1>3. inbox[1].seq \in Nat /\ gap.end \in Nat
  BY <1>1, Numbers DEF Facts
<1> QED
  BY <1>1, <1>2, <1>3 DEF Live, Wanted

\* No message is too low.
LEMMA NeverTooLow == ASSUME TypeOK, InSession PROVE ~TooLow
<1> SUFFICES ASSUME TooLow PROVE FALSE
  OBVIOUS
<1>1. st = "Established" /\ Receive("App") /\ Head(inbox).seq <= sess.seqIn
  BY DEF TooLow
<1>2. Live(1) /\ 1 \in DOMAIN inbox /\ inbox[1].seq \in Nat /\ Head(inbox) = inbox[1]
  BY <1>1, EstablishedIsLive
<1>3. sess.seqIn < inbox[1].seq /\ sess.seqIn \in Nat
  BY <1>2, Numbers DEF InSession, LiveIsNew, Facts
<1> QED
  BY <1>1, <1>2, <1>3

\* A message received is later than the ones before it in the queue, and the live
\* ones after it are later still.
LEMMA HeadFirst ==
    ASSUME TypeOK, InSession, Shifted, inbox[1].type = "App"
    PROVE  /\ inbox[1].seq \in Nat /\ inbox[1].seq <= ex.sent
           /\ \A i \in DOMAIN inbox : i # 1 /\ Live(i) => inbox[1].seq < inbox[i].seq
           /\ ~Live(1) => Wanted(1)
<1>0. Facts
  BY Numbers
<1>1. App(1) /\ 1 \in DOMAIN inbox /\ inbox[1].seq \in Nat
  BY <1>0 DEF App, Shifted, Facts
<1>2. gap.end \in Nat /\ ex.sent \in Nat /\ gap.end <= ex.sent
  BY <1>0 DEF Facts, InSession, AllSent
<1>3. ~Live(1) => Wanted(1) /\ inbox[1].seq <= gap.end
  BY <1>1, <1>2 DEF Live, Wanted
<1>4. Live(1) => inbox[1].seq <= ex.sent
  BY <1>1 DEF InSession, LiveIsNew
<1>5. ASSUME NEW i \in DOMAIN inbox, i # 1, Live(i) PROVE inbox[1].seq < inbox[i].seq
  <2>1. Live(1) => inbox[1].seq < inbox[i].seq
    BY <1>1, <1>5 DEF InSession, LiveIsNew, Shifted
  <2>2. inbox[i].seq \in Nat /\ inbox[i].seq > gap.end
    BY <1>0, <1>5 DEF Live, Facts
  <2> QED
    BY <1>1, <1>2, <1>3, <2>1, <2>2
<1> QED
  BY <1>1, <1>2, <1>3, <1>4, <1>5

\* A message that is neither the last of the gap nor of a batch waits in the queue.
LEMMA QueuedInSession ==
    ASSUME TypeOK, TypeOK', LoggedIn, InSession, Queued
    PROVE  InSession'
<1>0. Facts /\ Facts'
  BY Numbers
<1>1. Shifted /\ inbox[1].type = "App" /\ Head(inbox) = inbox[1] /\ Idle
  BY ReceiveShifts DEF Queued
<1> DEFINE s == inbox[1].seq
<1>2. /\ st # "Established" /\ recov' = recov \cup {s}
      /\ UNCHANGED <<st, sess, gap, batch, outbox, ex>>
  BY <1>1 DEF Queued
<1>3. /\ s \in Nat /\ s <= ex.sent
      /\ \A i \in DOMAIN inbox : i # 1 /\ Live(i) => s < inbox[i].seq
  BY <1>1, HeadFirst
<1>4. OneAnswer'
  BY <1>1, <1>2, AnswersLeft DEF InSession
<1>5. WantedInOrder'
  BY <1>0, <1>1, <1>2, WantedLeft DEF InSession
<1>6. \A i \in DOMAIN inbox : i # 1 /\ Live(i) =>
        /\ sess'.seqIn < inbox[i].seq /\ batch'.to < inbox[i].seq
        /\ \A x \in recov' : x < inbox[i].seq
  BY <1>2, <1>3 DEF InSession, LiveIsNew
<1>7. LiveIsNew'
  <2>1. \A i \in DOMAIN inbox : i # 1 /\ App(i) /\ inbox[i].seq > gap'.end => Live(i)
    BY <1>2 DEF Live
  <2>2. ex'.sent = ex.sent /\ sess'.seqIn >= sess.seqIn
    BY <1>2, <1>0 DEF Facts
  <2> QED
    BY <1>0, <1>1, <1>6, <2>1, <2>2, LivesLeft DEF InSession
<1>8. AllSent'
  BY <1>2, <1>3 DEF InSession, AllSent
<1>9. Waits' /\ Replays'
  BY <1>2 DEF InSession, Waits, Replays, OpenGap, Remaining
<1> QED
  BY <1>4, <1>5, <1>7, <1>8, <1>9 DEF InSession

\* A termination or an answer that is no message leaves what was received.
LEMMA OtherReceived ==
    ASSUME TypeOK, TypeOK', LoggedIn, InSession, Shifted, ~App(1), Idle,
           sess'.seqIn = sess.seqIn, UNCHANGED <<gap, recov, batch, outbox, ex>>,
           st' = "WaitingForRetransmission" => st = "WaitingForRetransmission"
    PROVE  /\ AllSent' /\ LiveIsNew' /\ Waits' /\ Replays'
           /\ st' # "Established" => OneAnswer' /\ WantedInOrder'
<1>0. Facts /\ Facts'
  BY Numbers
<1>1. st' # "Established" => OneAnswer'
  BY AnswersLeft DEF InSession
<1>2. ~Wanted(1) /\ ~Live(1)
  BY DEF Wanted, Live
<1>3. st' # "Established" => WantedInOrder'
  BY <1>0, <1>2, WantedLeft DEF InSession
<1>4. LiveIsNew'
  <2>1. \A i \in DOMAIN inbox : i # 1 /\ App(i) /\ inbox[i].seq > gap'.end => Live(i)
    BY DEF Live
  <2>2. \A i \in DOMAIN inbox : i # 1 /\ Live(i) =>
        /\ sess'.seqIn < inbox[i].seq /\ batch'.to < inbox[i].seq
        /\ \A x \in recov' : x < inbox[i].seq
    BY DEF InSession, LiveIsNew
  <2>3. ex'.sent = ex.sent /\ sess'.seqIn >= sess.seqIn
    BY <1>0 DEF Facts
  <2> QED
    BY <1>0, <2>1, <2>2, <2>3, LivesLeft DEF InSession
<1>5. AllSent'
  BY DEF InSession, AllSent
<1>6. Waits' /\ Replays'
  BY DEF InSession, Waits, Replays, OpenGap, Remaining, Idle
<1> QED
  BY <1>1, <1>3, <1>4, <1>5, <1>6

\* The end of the session, and the refusal of a retransmission: nothing is asked for
\* any more.
LEMMA SessionInSession ==
    ASSUME TypeOK, TypeOK', LoggedIn, InSession, OnTerminate \/ OnRetransmitReject
    PROVE  InSession'
<1>1. CASE OnTerminate
  <2>1. Shifted /\ inbox[1].type = "Terminate" /\ Idle
    BY <1>1, ReceiveShifts DEF OnTerminate
  <2>2. ~App(1) /\ st' = "Disconnected" /\ sess' = sess /\ UNCHANGED <<gap, recov, batch, outbox, ex>>
    BY <1>1, <2>1 DEF OnTerminate, App, Update
  <2> QED
    BY <2>1, <2>2, OtherReceived DEF InSession
<1>2. CASE OnRetransmitReject
  <2>1. Shifted /\ inbox[1].type = "RetransmitReject" /\ Idle
    BY <1>2, ReceiveShifts DEF OnRetransmitReject
  <2>2. /\ ~App(1) /\ UNCHANGED <<sess, gap, recov, batch, outbox, ex>>
        /\ st' = IF st = "WaitingForRetransmission" THEN "Established" ELSE st
    BY <1>2, <2>1 DEF OnRetransmitReject, App
  <2>3. Refusal(1) /\ 1 \in DOMAIN inbox
    BY <2>1 DEF Refusal, Shifted
  <2>4. /\ \A i \in DOMAIN inbox : (Refusal(i) => i = 1) /\ ~Wanted(i)
        /\ \A i \in DOMAIN outbox : ~Request(i)
    BY <2>3 DEF InSession, OneAnswer
  <2>5. Silent'
    <3>1. \A i \in DOMAIN inbox : App(i) => inbox[i].seq > gap'.end
      BY <2>2, <2>4, Numbers DEF Wanted, Facts
    <3> QED
      BY <2>1, <2>2, <2>4, <3>1, Numbers, SilentLeft
  <2>6. AllSent' /\ LiveIsNew' /\ Waits' /\ Replays'
    BY <2>1, <2>2, OtherReceived
  <2> QED
    BY <2>5, <2>6, SilentInOrder DEF InSession
<1> QED
  BY <1>1, <1>2

\* 16-bit counts of what is left after a batch.
LEMMA BatchCounted ==
    ASSUME NEW n \in Nat, NEW c, c = Uint16(n)
    PROVE  Uint16(c - MaxBatch) = Uint16(n - MaxBatch)
<1>1. MaxBatch \in Nat
  BY SessionConstants
<1>2. \A b \in Nat : ((n % 65536) - b) % 65536 = (n - b) % 65536
  BY SMT
<1> QED
  BY <1>1, <1>2 DEF Uint16

\* A full batch is the first part of the gap: the rest is asked for.
LEMMA NextBatchInSession ==
    ASSUME TypeOK, TypeOK', LoggedIn, InSession, NextBatch
    PROVE  InSession'
<1>0. Facts /\ Facts'
  BY Numbers
<1>1. Shifted /\ inbox[1].type = "App" /\ Head(inbox) = inbox[1] /\ Idle
  BY ReceiveShifts DEF NextBatch
<1> DEFINE s == inbox[1].seq
<1>2. /\ st # "Established" /\ s # gap.end /\ s = gap.start + MaxBatch - 1
      /\ recov' = recov \cup {s}
      /\ gap' = [gap EXCEPT !.start = s + 1, !.count = Uint16(@ - MaxBatch)]
      /\ UNCHANGED <<st, sess, batch, ex>>
      /\ IF OkToSend(st) THEN Wire(RetransmitRequest(gap'.start, gap'.count))
                         ELSE UNCHANGED outbox
  BY <1>1 DEF NextBatch
<1>3. gap'.start = s + 1 /\ gap'.end = gap.end /\ gap'.count = Uint16(gap.count - MaxBatch)
  BY <1>2 DEF TypeOK
<1>4. /\ App(1) /\ 1 \in DOMAIN inbox /\ s \in Nat /\ s <= ex.sent
      /\ \A i \in DOMAIN inbox : i # 1 /\ Live(i) => s < inbox[i].seq
      /\ ~Live(1) => Wanted(1)
  BY <1>1, HeadFirst DEF App, Shifted
<1>n. /\ gap.start \in Nat /\ gap.end \in Nat /\ sess.seqIn \in Nat /\ MaxBatch \in Nat
      /\ MaxBatch > 0
  BY <1>0, SessionConstants DEF Facts
<1>5. LiveIsNew'
  <2>1. \A i \in DOMAIN inbox : i # 1 /\ App(i) /\ inbox[i].seq > gap'.end => Live(i)
    BY <1>3 DEF Live
  <2>2. \A i \in DOMAIN inbox : i # 1 /\ Live(i) =>
          /\ sess'.seqIn < inbox[i].seq /\ batch'.to < inbox[i].seq
          /\ \A x \in recov' : x < inbox[i].seq
    BY <1>2, <1>4 DEF InSession, LiveIsNew
  <2>3. ex'.sent = ex.sent /\ sess'.seqIn >= sess.seqIn
    BY <1>2, <1>n
  <2> QED
    BY <1>0, <1>1, <2>1, <2>2, <2>3, LivesLeft DEF InSession
<1>6. AllSent'
  BY <1>2, <1>3, <1>4 DEF InSession, AllSent
<1>7. Replays'
  BY <1>1, <1>2 DEF Replays, Idle
<1>8. CASE Live(1)
  <2>1. sess.seqIn < s /\ s < MaxBatch + sess.seqIn /\ s > gap.end
    BY <1>4, <1>8 DEF InSession, LiveIsNew, Live
  <2>2. ~OpenGap
    BY <1>2, <1>n, <2>1 DEF OpenGap
  <2>3. Silent
    BY <2>2 DEF InSession, OneAnswer, WantedInOrder, Silent
  <2>4. ~OkToSend(st)
    BY <1>2, <2>2 DEF InSession, Waits, OkToSend
  <2>5. Silent'
    <3>1. ASSUME NEW i \in DOMAIN inbox, App(i) PROVE inbox[i].seq > gap'.end
      <4>1. ~(inbox[i].seq <= gap.end)
        BY <2>3, <3>1 DEF Silent, Wanted
      <4>2. inbox[i].seq \in Nat
        BY <1>0, <3>1 DEF Facts
      <4> QED
        BY <1>3, <1>n, <4>1, <4>2
    <3> QED
      BY <1>0, <1>1, <1>2, <2>3, <2>4, <3>1, SilentLeft DEF Silent
  <2>6. Waits'
    BY <1>2, <2>4 DEF Waits, OkToSend
  <2> QED
    BY <1>5, <1>6, <1>7, <2>5, <2>6, SilentInOrder DEF InSession
<1>9. CASE Wanted(1)
  <2>1. /\ OpenGap /\ s <= gap.end
        /\ \A x \in Nat : gap.start <= x /\ x < s =>
             x \in recov \/ \E k \in DOMAIN inbox : Wanted(k) /\ k < 1 /\ inbox[k].seq = x
    BY <1>4, <1>9 DEF InSession, WantedInOrder, Wanted
  <2>2. \A x \in Nat : gap.start <= x /\ x < s => x \in recov
    BY <1>0, <2>1 DEF Facts
  <2>3. \A i \in DOMAIN inbox : ~Refusal(i)
    BY <1>4, <1>9 DEF InSession, OneAnswer
  <2>4. \A i \in DOMAIN outbox : ~Request(i)
    BY <1>4, <1>9 DEF InSession, OneAnswer
  <2>5. s < gap.end /\ sess.seqIn < gap.start /\ gap.start <= gap.end
    BY <1>2, <1>4, <1>n, <2>1 DEF OpenGap
  <2>6. \A i \in DOMAIN inbox : i # 1 /\ App(i) => Live(i) /\ inbox[i].seq \in Nat
    <3> SUFFICES ASSUME NEW i \in DOMAIN inbox, i # 1, App(i), ~Live(i) PROVE FALSE
      BY <1>0 DEF Facts
    <3>0. inbox[i].seq \in Nat
      BY <1>0 DEF Facts
    <3>1. Wanted(i) /\ inbox[i].seq \in Nat
      BY <3>0, <1>n DEF Live, Wanted
    <3>2. s < inbox[i].seq /\ inbox[i].seq < gap.start + MaxBatch
      BY <1>1, <1>4, <1>9, <3>1 DEF InSession, WantedInOrder, Shifted
    <3> QED
      BY <1>2, <1>n, <3>1, <3>2
  <2>7. \A i \in DOMAIN inbox' : ~Refusal(i)' /\ ~Wanted(i)'
    <3> SUFFICES ASSUME NEW i \in DOMAIN inbox' PROVE ~Refusal(i)' /\ ~Wanted(i)'
      OBVIOUS
    <3>1. i + 1 \in DOMAIN inbox /\ i + 1 # 1 /\ inbox'[i] = inbox[i + 1]
      BY <1>1 DEF Shifted
    <3>2. ~Refusal(i)'
      BY <2>3, <3>1 DEF Refusal
    <3>3. App(i)' => inbox'[i].seq > gap'.end /\ inbox'[i].seq \in Nat
      BY <1>3, <2>6, <3>1 DEF App, Live
    <3> QED
      BY <3>2, <3>3, <1>3, <1>n DEF Wanted
  <2>8. OpenGap'
    BY <1>2, <1>3, <1>n, <1>4, <2>5 DEF OpenGap
  <2>9. Remaining \in Nat /\ Remaining' = Remaining - MaxBatch
    <3>1. gap'.end - gap'.start + 1 = (gap.end - gap.start + 1) - MaxBatch
      BY <1>2, <1>3, <1>n
    <3>2. gap.end - gap.start + 1 \in Nat
      BY <1>n, <2>5
    <3> QED
      BY <3>1, <3>2 DEF Remaining
  <2>10. OkToSend(st) => gap'.count = Uint16(Remaining')
    <3>1. OkToSend(st) => gap.count = Uint16(Remaining)
      BY <1>2 DEF OkToSend, InSession, Waits
    <3>2. PICK n, c : n = Remaining /\ c = gap.count
      OBVIOUS
    <3>3. OkToSend(st) => Uint16(c - MaxBatch) = Uint16(n - MaxBatch)
      BY <2>9, <3>1, <3>2, BatchCounted
    <3> QED
      BY <1>3, <2>9, <3>2, <3>3
  <2>11. OneAnswer'
    <3>1. CASE OkToSend(st)
      <4>1. PICK from, count : from = gap'.start /\ count = gap'.count
        OBVIOUS
      <4>2. Wire(RetransmitRequest(from, count)) /\ from \in Nat /\ count \in Nat
        BY <1>0, <1>2, <3>1, <4>1 DEF Facts
      <4>3. count = Uint16(Remaining')
        BY <2>10, <3>1, <4>1
      <4> QED
        BY <1>0, <1>2, <2>4, <2>7, <2>8, <4>1, <4>2, <4>3, GapAsked
    <3>2. CASE ~OkToSend(st)
      BY <1>2, <2>4, <2>7, <3>2 DEF OneAnswer, Request
    <3> QED
      BY <3>1, <3>2
  <2>12. WantedInOrder'
    BY <2>7 DEF WantedInOrder
  <2>13. Waits'
    <3> SUFFICES ASSUME st = "WaitingForRetransmission"
                 PROVE  /\ OpenGap' /\ gap'.count = Uint16(Remaining')
                        /\ \A x \in Nat : sess'.seqIn < x /\ x < gap'.start => x \in recov'
      BY <1>2 DEF Waits
    <3>1. \A x \in Nat : sess.seqIn < x /\ x < gap.start => x \in recov
      BY DEF InSession, Waits
    <3>2. ASSUME NEW x \in Nat, sess'.seqIn < x, x < gap'.start PROVE x \in recov'
      <4>1. sess.seqIn < x /\ x < s + 1
        BY <1>2, <1>3, <3>2
      <4>2. x < gap.start \/ (gap.start <= x /\ x < s) \/ x = s
        BY <1>n, <1>4, <4>1
      <4>3. x \in recov \/ x = s
        BY <2>2, <3>1, <4>1, <4>2
      <4> QED
        BY <1>2, <4>3
    <3> QED
      BY <2>8, <2>10, <3>2 DEF OkToSend
  <2> QED
    BY <1>5, <1>6, <1>7, <2>11, <2>12, <2>13 DEF InSession
<1> QED
  BY <1>4, <1>8, <1>9

\* The last message of the gap is the last one asked for: all before it are queued.
LEMMA LastOfGap ==
    ASSUME TypeOK, InSession, Shifted, inbox[1].type = "App", inbox[1].seq = gap.end
    PROVE  /\ Wanted(1) /\ OpenGap /\ st # "Established" /\ gap.end \in Nat
           /\ \A x \in Nat : gap.start <= x /\ x <= gap.end => x \in recov \cup {gap.end}
           /\ \A i \in DOMAIN outbox : ~Request(i)
           /\ \A i \in DOMAIN inbox : ~Refusal(i)
           /\ \A i \in DOMAIN inbox : i # 1 /\ App(i) => Live(i) /\ inbox[i].seq \in Nat
<1>0. Facts
  BY Numbers
<1>1. gap.end \in Nat /\ gap.start \in Nat
  BY <1>0 DEF Facts
<1>2. Wanted(1) /\ 1 \in DOMAIN inbox
  BY <1>1 DEF Wanted, App, Shifted
<1>3. /\ OpenGap /\ st # "Established"
      /\ \A x \in Nat : gap.start <= x /\ x < gap.end =>
             x \in recov \/ \E k \in DOMAIN inbox : Wanted(k) /\ k < 1 /\ inbox[k].seq = x
  BY <1>2 DEF InSession, WantedInOrder
<1>4. \A x \in Nat : gap.start <= x /\ x < gap.end => x \in recov
  BY <1>0, <1>3 DEF Facts
<1>5. \A x \in Nat : gap.start <= x /\ x <= gap.end => x \in recov \cup {gap.end}
  BY <1>1, <1>4
<1>6. \A i \in DOMAIN outbox : ~Request(i)
  BY <1>2 DEF InSession, OneAnswer
<1>7. \A i \in DOMAIN inbox : ~Refusal(i)
  BY <1>2 DEF InSession, OneAnswer
<1>8. ASSUME NEW i \in DOMAIN inbox, i # 1, App(i) PROVE Live(i) /\ inbox[i].seq \in Nat
  <2>1. inbox[i].seq \in Nat
    BY <1>0, <1>8 DEF Facts
  <2>2. Wanted(i) => gap.end < inbox[i].seq
    BY <1>2, <1>8 DEF InSession, WantedInOrder, Shifted
  <2> QED
    BY <1>1, <1>8, <2>1, <2>2 DEF Live, Wanted
<1> QED
  BY <1>1, <1>2, <1>3, <1>5, <1>6, <1>7, <1>8

\* The last message of the gap replays the run that starts after SEQ_IN, and what
\* is left over starts a gap behind the run.
LEMMA DrainInSession ==
    ASSUME TypeOK, TypeOK', LoggedIn, InSession, Drain
    PROVE  InSession' /\ inHand' = 0
<1>0. Facts /\ Facts'
  BY Numbers
<1>1. Shifted /\ inbox[1].type = "App" /\ Head(inbox) = inbox[1] /\ Idle
  BY ReceiveShifts DEF Drain
<1>2. /\ inbox[1].seq = gap.end /\ st' = "Established"
      /\ UNCHANGED <<sess, outbox, ex>> /\ inHand = 0
  BY <1>1 DEF Drain, Idle
<1>3. /\ Wanted(1) /\ OpenGap /\ gap.end \in Nat
      /\ \A x \in Nat : gap.start <= x /\ x <= gap.end => x \in recov \cup {gap.end}
      /\ \A i \in DOMAIN outbox : ~Request(i)
      /\ \A i \in DOMAIN inbox : ~Refusal(i)
      /\ \A i \in DOMAIN inbox : i # 1 /\ App(i) => Live(i) /\ inbox[i].seq \in Nat
  BY <1>1, <1>2, LastOfGap
<1> DEFINE queued == recov \cup {gap.end}
<1>4. PICK h \in sess.seqIn .. MaxSeq :
              /\ EndOfRun(queued, h)
              /\ LET rest == {x \in queued : x > h}
                 IN  /\ recov' = rest
                     /\ IF rest = {}
                        THEN /\ batch' = IF h > sess.seqIn THEN [to |-> h, then |-> "status"]
                                         ELSE NoBatch
                             /\ inHand' = IF h > sess.seqIn THEN 0 ELSE gap.end
                             /\ UNCHANGED gap
                        ELSE /\ gap' = GapBetween(h + 1, Smallest(rest))
                             /\ batch' = [to |-> h, then |-> "retrans"]
                             /\ UNCHANGED inHand
  BY <1>2 DEF Drain
<1> DEFINE rest == {x \in queued : x > h}
<1>5. queued \in SUBSET Seqs
  <2>1. inbox[1].seq \in Seqs
    BY <1>1, Received, Carries DEF Drain
  <2> QED
    BY <1>2, <2>1 DEF TypeOK
<1>6. \A x \in queued : x \in Nat /\ x <= ex.sent
  <2>1. \A x \in recov : x \in Nat /\ x <= ex.sent
    BY <1>0 DEF Facts, InSession, AllSent
  <2> QED
    BY <1>3, <2>1 DEF InSession, AllSent
<1>7. /\ h \in Nat /\ sess.seqIn \in Nat /\ h >= sess.seqIn /\ h + 1 \notin queued
      /\ h > sess.seqIn => h \in queued
  <2>1. sess \in Files
    BY DEF TypeOK
  <2>2. /\ h \in 0 .. MaxSeq /\ h >= sess.seqIn /\ h + 1 \notin queued
        /\ h > sess.seqIn => h \in queued
    <3>1. h \in sess.seqIn .. MaxSeq /\ EndOfRun(queued, h)
      BY <1>4
    <3> HIDE DEF queued
    <3> QED
      BY <2>1, <3>1, <1>5, RunEnds
  <2> QED
    BY <2>2, <1>0, SessionConstants, SMTT(30) DEF Facts
<1>8. \A i \in DOMAIN inbox : i # 1 /\ Live(i) =>
        /\ sess.seqIn < inbox[i].seq /\ inbox[i].seq \in Nat
        /\ \A x \in queued : x < inbox[i].seq
  <2>1. \A i \in DOMAIN inbox : Live(i) =>
          /\ sess.seqIn < inbox[i].seq /\ \A x \in recov : x < inbox[i].seq
    BY DEF InSession, LiveIsNew
  <2>2. \A i \in DOMAIN inbox : Live(i) => gap.end < inbox[i].seq /\ App(i)
    BY <1>0 DEF Live, Facts
  <2> QED
    BY <1>3, <2>1, <2>2
<1>9. h <= ex.sent
  BY <1>6, <1>7 DEF InSession, AllSent
<1> HIDE DEF queued
<1>10. gap.end \in queued
  BY DEF queued
<1>11. \A i \in DOMAIN inbox : i # 1 /\ Live(i) => h < inbox[i].seq
  BY <1>7, <1>8
<1>12. recov' = rest /\ sess'.seqIn = sess.seqIn /\ ex'.sent = ex.sent
  BY <1>2, <1>4
<1>13. CASE rest = {}
  <2>1. gap.end <= h
    BY <1>3, <1>7, <1>10, <1>13
  <2>2. h > sess.seqIn
    <3>1. sess.seqIn < gap.start /\ gap.start <= gap.end /\ gap.start \in Nat
      BY <1>0, <1>3 DEF OpenGap, Facts
    <3> QED
      BY <1>3, <1>7, <2>1, <3>1
  <2>3. batch' = [to |-> h, then |-> "status"] /\ inHand' = 0 /\ gap' = gap
    BY <1>4, <1>13, <2>2
  <2>4. \A i \in DOMAIN inbox : i # 1 /\ Live(i) =>
        /\ sess'.seqIn < inbox[i].seq /\ batch'.to < inbox[i].seq
        /\ \A x \in recov' : x < inbox[i].seq
    BY <1>8, <1>11, <1>12, <2>3
  <2>5. LiveIsNew'
    <3>1. \A i \in DOMAIN inbox : i # 1 /\ App(i) /\ inbox[i].seq > gap'.end => Live(i)
      BY <1>3
    <3>2. sess'.seqIn >= sess.seqIn
      BY <1>7, <1>12
    <3> QED
      BY <1>0, <1>1, <1>12, <2>4, <3>1, <3>2, LivesLeft DEF InSession
  <2>6. Silent'
    <3>1. \A i \in DOMAIN inbox : i # 1 => ~Refusal(i) /\ (App(i) => inbox[i].seq > gap'.end)
      BY <1>3, <2>3 DEF Live
    <3> QED
      BY <1>0, <1>1, <1>2, <1>3, <3>1, SilentLeft
  <2>7. AllSent'
    BY <1>6, <1>9, <1>12, <2>3 DEF InSession, AllSent
  <2>8. Waits'
    BY <1>2 DEF Waits
  <2>9. Replays'
    BY <1>7, <1>12, <2>3 DEF Replays
  <2> QED
    BY <2>3, <2>5, <2>6, <2>7, <2>8, <2>9, SilentInOrder DEF InSession
<1>14. CASE rest # {}
  <2>1. PICK s : s = Smallest(rest)
    OBVIOUS
  <2>2. s \in rest /\ \A y \in rest : s <= y
    <3>1. rest \in SUBSET Seqs
      BY <1>5
    <3> HIDE DEF rest
    <3> QED
      BY <1>14, <2>1, <3>1, SmallestIs
  <2>3. s \in queued /\ s \in Nat /\ s > h + 1 /\ s <= ex.sent
    BY <1>6, <1>7, <2>2
  <2>4. /\ gap'.start = h + 1 /\ gap'.end = s - 1 /\ gap'.count = Uint16(s - (h + 1))
        /\ batch' = [to |-> h, then |-> "retrans"] /\ inHand' = 0
    BY <1>2, <1>4, <1>14, <2>1 DEF GapBetween
  <2>5. \A i \in DOMAIN inbox : i # 1 /\ Live(i) =>
        /\ sess'.seqIn < inbox[i].seq /\ batch'.to < inbox[i].seq
        /\ \A x \in recov' : x < inbox[i].seq
    BY <1>8, <1>11, <1>12, <2>4
  <2>6. LiveIsNew'
    <3>1. \A i \in DOMAIN inbox : i # 1 /\ App(i) /\ inbox[i].seq > gap'.end => Live(i)
      BY <1>3
    <3>2. sess'.seqIn >= sess.seqIn
      BY <1>7, <1>12
    <3> QED
      BY <1>0, <1>1, <1>12, <2>5, <3>1, <3>2, LivesLeft DEF InSession
  <2>7. Silent'
    <3>1. \A i \in DOMAIN inbox : i # 1 => ~Refusal(i) /\ (App(i) => inbox[i].seq > gap'.end)
      <4> SUFFICES ASSUME NEW i \in DOMAIN inbox, i # 1, App(i) PROVE inbox[i].seq > gap'.end
        BY <1>3
      <4>1. s < inbox[i].seq /\ inbox[i].seq \in Nat
        BY <1>3, <1>8, <2>3
      <4> QED
        BY <4>1, <2>3, <2>4
    <3> QED
      BY <1>0, <1>1, <1>2, <1>3, <3>1, SilentLeft
  <2>8. AllSent'
    <3>1. gap'.end <= ex'.sent
      BY <1>0, <1>12, <2>3, <2>4 DEF Facts
    <3>2. \A x \in recov' : x <= ex'.sent
      BY <1>6, <1>12
    <3>3. batch'.to <= ex'.sent /\ sess'.seqIn <= ex'.sent
      BY <1>9, <1>12, <2>4 DEF InSession, AllSent
    <3> QED
      BY <3>1, <3>2, <3>3 DEF AllSent
  <2>9. Waits'
    BY <1>2 DEF Waits
  <2>10. Replays'
    <3>1. batch'.to = h /\ batch'.then = "retrans"
      BY <2>4
    <3>2. Remaining' = s - (h + 1)
      <4>1. Remaining' = gap'.end - gap'.start + 1
        BY DEF Remaining
      <4>2. gap'.end - gap'.start + 1 = s - (h + 1)
        BY <1>7, <2>3, <2>4
      <4> QED
        BY <4>1, <4>2
    <3>3. gap'.start <= gap'.end
      BY <1>7, <2>3, <2>4
    <3> QED
      BY <1>7, <1>12, <2>4, <3>1, <3>2, <3>3 DEF Replays
  <2> QED
    BY <2>4, <2>6, <2>7, <2>8, <2>9, <2>10, SilentInOrder DEF InSession
<1> QED
  BY <1>13, <1>14

\* The replay takes SEQ_IN up to the end of the run.
LEMMA ReplayInSession ==
    ASSUME TypeOK, TypeOK', LoggedIn, InSession, ReplayNext
    PROVE  InSession'
<1>0. Facts /\ Facts'
  BY Numbers
<1>1. st = "Established"
  BY DEF ReplayNext, LoggedIn, Idle
<1>2. /\ batch # NoBatch /\ sess.seqIn < batch.to /\ sess'.seqIn = sess.seqIn + 1
      /\ UNCHANGED <<st, gap, recov, batch, inbox, outbox, ex>>
  BY DEF ReplayNext, Update, TypeOK, Files
<1>3. Silent'
  BY <1>1, <1>2, EstablishedIsSilent DEF Silent, Request, Refusal, Wanted, App
<1>4. sess'.seqIn <= batch.to /\ sess'.seqIn <= ex.sent /\ sess.seqIn \in Nat
      /\ batch.to \in Nat /\ sess'.seqIn >= sess.seqIn
  BY <1>0, <1>2 DEF Facts, InSession, AllSent
<1>5. LiveIsNew'
  <2> SUFFICES ASSUME NEW i \in DOMAIN inbox, Live(i)
               PROVE  sess'.seqIn < inbox[i].seq /\ inbox[i].seq < MaxBatch + sess'.seqIn
    BY <1>2 DEF InSession, LiveIsNew, Live, App
  <2>1. /\ batch.to < inbox[i].seq /\ inbox[i].seq < MaxBatch + sess.seqIn
        /\ inbox[i].seq \in Nat /\ MaxBatch \in Nat
    BY <1>0, SessionConstants DEF InSession, LiveIsNew, Facts, Live
  <2> QED
    BY <1>2, <1>4, <2>1
<1>6. AllSent'
  BY <1>2, <1>4 DEF InSession, AllSent
<1>7. Waits' /\ Replays'
  BY <1>1, <1>2, <1>4 DEF InSession, Waits, Replays, Remaining
<1> QED
  BY <1>3, <1>5, <1>6, <1>7, SilentInOrder DEF InSession

\* At the end of the replay the next gap is asked for, if there is one.
LEMMA ReplayDoneInSession ==
    ASSUME TypeOK, TypeOK', LoggedIn, InSession, ReplayDone
    PROVE  InSession'
<1>0. Facts /\ Facts'
  BY Numbers
<1>1. st = "Established"
  BY DEF ReplayDone, LoggedIn, Idle
<1>2. /\ batch # NoBatch /\ sess.seqIn = batch.to /\ batch' = NoBatch
      /\ UNCHANGED <<sess, gap, recov, inbox, ex>>
      /\ IF batch.then = "retrans"
         THEN st' = "WaitingForRetransmission" /\ Wire(RetransmitRequest(gap.start, gap.count))
         ELSE UNCHANGED <<st, outbox>>
  BY DEF ReplayDone
<1>3. Silent
  BY <1>1, EstablishedIsSilent
<1>4. LiveIsNew'
  <2>1. batch'.to = 0
    BY <1>2 DEF NoBatch
  <2>2. \A i \in DOMAIN inbox : Live(i) => 0 < inbox[i].seq
    <3> SUFFICES ASSUME NEW i \in DOMAIN inbox, Live(i) PROVE 0 < inbox[i].seq
      OBVIOUS
    <3>1. sess.seqIn < inbox[i].seq /\ sess.seqIn \in Nat /\ inbox[i].seq \in Nat
      BY <1>0 DEF Facts, InSession, LiveIsNew, Live
    <3> QED
      BY <3>1
  <2> QED
    BY <1>2, <2>1, <2>2 DEF InSession, LiveIsNew, Live, App
<1>5. AllSent'
  BY <1>0, <1>2 DEF InSession, AllSent, NoBatch, Facts
<1>6. Replays'
  BY <1>2 DEF Replays
<1>7. CASE batch.then = "retrans"
  <2>1. gap.start = sess.seqIn + 1 /\ gap.start <= gap.end /\ gap.count = Uint16(Remaining)
    BY <1>2, <1>7 DEF InSession, Replays
  <2>2. OpenGap' /\ Remaining' = Remaining /\ st' = "WaitingForRetransmission"
    BY <1>0, <1>2, <1>7, <2>1 DEF OpenGap, Remaining, Facts
  <2>3. \A i \in DOMAIN inbox' : ~Refusal(i)' /\ ~Wanted(i)'
    BY <1>2, <1>3 DEF Silent, Refusal, Wanted, App
  <2>4. OneAnswer'
    <3>1. PICK from, count : from = gap'.start /\ count = gap'.count
      OBVIOUS
    <3>2. Wire(RetransmitRequest(from, count)) /\ from \in Nat /\ count \in Nat
      BY <1>0, <1>2, <1>7, <3>1 DEF Facts
    <3>3. count = Uint16(Remaining')
      BY <1>2, <2>1, <2>2, <3>1
    <3> QED
      BY <1>0, <1>3, <2>2, <2>3, <3>1, <3>2, <3>3, GapAsked DEF Silent
  <2>5. WantedInOrder'
    BY <2>3 DEF WantedInOrder
  <2>6. Waits'
    <3>1. \A x \in Nat : ~(sess'.seqIn < x /\ x < gap'.start)
      BY <1>0, <1>2, <2>1 DEF Facts
    <3> QED
      BY <1>2, <2>1, <2>2, <3>1 DEF Waits
  <2> QED
    BY <1>4, <1>5, <1>6, <2>4, <2>5, <2>6 DEF InSession
<1>8. CASE batch.then # "retrans"
  <2>1. Silent'
    BY <1>2, <1>3, <1>8 DEF Silent, Request, Refusal, Wanted, App
  <2>2. Waits'
    BY <1>1, <1>2, <1>8 DEF Waits
  <2> QED
    BY <1>4, <1>5, <1>6, <2>1, <2>2, SilentInOrder DEF InSession
<1> QED
  BY <1>7, <1>8

\* What neither adds a message of the exchange nor a request, and leaves what was
\* received, keeps all that is known of a session.
LEMMA NothingAdded ==
    ASSUME Facts, Facts', InSession, UNCHANGED <<sess, gap, recov, batch>>, ex'.sent = ex.sent,
           st' # "Established" \/ st' = st,
           st' = "WaitingForRetransmission" => st = "WaitingForRetransmission",
           \A i \in DOMAIN inbox' :
               App(i)' \/ Refusal(i)' => i \in DOMAIN inbox /\ inbox'[i] = inbox[i],
           \A i \in DOMAIN inbox : \A j \in DOMAIN inbox' :
               i < j => i \in DOMAIN inbox' /\ inbox'[i] = inbox[i],
           NEW d \in {0, 1},
           \A i \in DOMAIN outbox' :
               Request(i)' => i + d \in DOMAIN outbox /\ outbox'[i] = outbox[i + d]
    PROVE  InSession'
<1>1. OpenGap' = OpenGap /\ Remaining' = Remaining
  BY DEF OpenGap, Remaining
<1>2. \A i \in DOMAIN inbox' :
         /\ Live(i)' => Live(i) /\ i \in DOMAIN inbox /\ inbox'[i] = inbox[i]
         /\ Wanted(i)' => Wanted(i) /\ i \in DOMAIN inbox /\ inbox'[i] = inbox[i]
         /\ Refusal(i)' => Refusal(i) /\ i \in DOMAIN inbox
  BY DEF Live, Wanted, App, Refusal
<1>3. \A i \in DOMAIN outbox' :
         Request(i)' => Request(i + d) /\ i + d \in DOMAIN outbox /\ outbox'[i] = outbox[i + d]
                        /\ i \in Nat
  BY DEF Request, Facts
<1>4. LiveIsNew'
  BY <1>2 DEF InSession, LiveIsNew
<1>5. AllSent'
  BY DEF InSession, AllSent
<1>6. Waits' /\ Replays'
  BY <1>1 DEF InSession, Waits, Replays
<1>7. ASSUME NEW i \in DOMAIN outbox', Request(i)'
      PROVE  /\ st' # "Established" /\ OpenGap'
             /\ outbox'[i].from = gap'.start
             /\ outbox'[i].count = 0 => MaxBatch <= Remaining'
             /\ outbox'[i].count <= Remaining'
             /\ \A j \in DOMAIN outbox' : Request(j)' => j = i
             /\ \A j \in DOMAIN inbox' : ~Refusal(j)' /\ ~Wanted(j)'
  <2>1. Request(i + d) /\ i + d \in DOMAIN outbox /\ outbox'[i] = outbox[i + d] /\ i \in Nat
    BY <1>3, <1>7
  <2>2. /\ st # "Established" /\ OpenGap
        /\ outbox[i + d].from = gap.start
        /\ outbox[i + d].count = 0 => MaxBatch <= Remaining
        /\ outbox[i + d].count <= Remaining
        /\ \A j \in DOMAIN outbox : Request(j) => j = i + d
        /\ \A j \in DOMAIN inbox : ~Refusal(j) /\ ~Wanted(j)
    BY <2>1 DEF InSession, OneAnswer
  <2>3. ASSUME NEW j \in DOMAIN outbox', Request(j)' PROVE j = i
    <3>1. j + d = i + d /\ j \in Nat
      BY <1>3, <2>2, <2>3
    <3> QED
      BY <2>1, <3>1
  <2>4. \A j \in DOMAIN inbox' : ~Refusal(j)' /\ ~Wanted(j)'
    BY <1>2, <2>2
  <2> QED
    BY <1>1, <2>1, <2>2, <2>3, <2>4
<1>8. ASSUME NEW i \in DOMAIN inbox', Refusal(i)'
      PROVE  /\ st' # "Established" /\ OpenGap'
             /\ \A j \in DOMAIN inbox' : (Refusal(j)' => j = i) /\ ~Wanted(j)'
  <2>1. Refusal(i) /\ i \in DOMAIN inbox
    BY <1>2, <1>8
  <2>2. /\ st # "Established" /\ OpenGap
        /\ \A j \in DOMAIN inbox : (Refusal(j) => j = i) /\ ~Wanted(j)
    BY <2>1 DEF InSession, OneAnswer
  <2> QED
    BY <1>1, <1>2, <2>2
<1>9. OneAnswer'
  BY <1>7, <1>8 DEF OneAnswer
<1>10. WantedInOrder'
  <2> SUFFICES ASSUME NEW i \in DOMAIN inbox', Wanted(i)'
               PROVE  /\ st' # "Established" /\ OpenGap'
                      /\ gap'.start <= inbox'[i].seq /\ inbox'[i].seq < gap'.start + MaxBatch
                      /\ \A j \in DOMAIN inbox' :
                           Wanted(j)' /\ j < i => inbox'[j].seq < inbox'[i].seq
                      /\ \A x \in Nat : gap'.start <= x /\ x < inbox'[i].seq =>
                           x \in recov' \/ \E k \in DOMAIN inbox' :
                                              Wanted(k)' /\ k < i /\ inbox'[k].seq = x
    BY DEF WantedInOrder
  <2>1. Wanted(i) /\ i \in DOMAIN inbox /\ inbox'[i] = inbox[i]
    BY <1>2
  <2>2. /\ st # "Established" /\ OpenGap
        /\ gap.start <= inbox[i].seq /\ inbox[i].seq < gap.start + MaxBatch
        /\ \A j \in DOMAIN inbox : Wanted(j) /\ j < i => inbox[j].seq < inbox[i].seq
        /\ \A x \in Nat : gap.start <= x /\ x < inbox[i].seq =>
             x \in recov \/ \E k \in DOMAIN inbox : Wanted(k) /\ k < i /\ inbox[k].seq = x
    BY <2>1 DEF InSession, WantedInOrder
  <2>3. \A j \in DOMAIN inbox' : Wanted(j)' /\ j < i => inbox'[j].seq < inbox'[i].seq
    BY <1>2, <2>1, <2>2
  <2>4. \A k \in DOMAIN inbox : Wanted(k) /\ k < i =>
          k \in DOMAIN inbox' /\ Wanted(k)' /\ inbox'[k] = inbox[k]
    BY DEF Wanted, App
  <2>5. \A x \in Nat : gap'.start <= x /\ x < inbox'[i].seq =>
          x \in recov' \/ \E k \in DOMAIN inbox' : Wanted(k)' /\ k < i /\ inbox'[k].seq = x
    BY <2>1, <2>2, <2>4
  <2> QED
    BY <1>1, <2>1, <2>2, <2>3, <2>5
<1> QED
  BY <1>4, <1>5, <1>6, <1>9, <1>10 DEF InSession

\* A message published is later than all before it.
LEMMA PublishInSession ==
    ASSUME TypeOK, TypeOK', Paced, LoggedIn, InSession, NEW lost \in BOOLEAN, Publish(lost)
    PROVE  InSession'
<1>0. Facts /\ Facts'
  BY Numbers
<1>1. UNCHANGED <<client, outbox>> /\ ex'.sent = ex.sent + 1 /\ ex.sent \in Nat
  BY <1>0 DEF Publish, Facts, TypeOK
<1>2. AllSent'
  BY <1>0, <1>1 DEF InSession, AllSent, client, Facts
<1>3. Waits' /\ Replays'
  BY <1>1 DEF InSession, Waits, Replays, OpenGap, Remaining, client
<1>4. CASE UNCHANGED inbox
  <2>1. OneAnswer' /\ WantedInOrder'
    BY <1>1, <1>4 DEF InSession, OneAnswer, WantedInOrder, Wanted, Refusal, Request, App, OpenGap,
                      Remaining, client
  <2>2. LiveIsNew'
    <3>1. \A i \in DOMAIN inbox : Live(i) => inbox[i].seq <= ex'.sent
      <4> SUFFICES ASSUME NEW i \in DOMAIN inbox, Live(i) PROVE inbox[i].seq <= ex'.sent
        OBVIOUS
      <4>1. inbox[i].seq \in Nat /\ inbox[i].seq <= ex.sent
        BY <1>0 DEF InSession, LiveIsNew, Facts, Live
      <4> QED
        BY <1>1, <4>1
    <3> QED
      BY <1>1, <1>4, <3>1 DEF InSession, LiveIsNew, Live, App, client
  <2> QED
    BY <1>2, <1>3, <2>1, <2>2 DEF InSession
<1>5. CASE ex.on /\ inbox' = Append(inbox, [type |-> "App", seq |-> ex.sent + 1])
  <2> DEFINE m == [type |-> "App", seq |-> ex.sent + 1]
  <2>1. m \in Messages
    <3>1. ex.sent + 1 \in Seqs
      BY <1>1, SessionConstants DEF Publish, Seqs
    <3> QED
      BY <3>1 DEF Messages
  <2>2. m.type = "App" /\ m.seq = ex.sent + 1
    OBVIOUS
  <2> HIDE DEF m
  <2>3. /\ DOMAIN inbox = 1 .. Len(inbox) /\ Len(inbox) \in Nat
        /\ DOMAIN inbox' = 1 .. Len(inbox) + 1
        /\ \A i \in DOMAIN inbox' :
             \/ i \in DOMAIN inbox /\ inbox'[i] = inbox[i]
             \/ i = Len(inbox) + 1 /\ inbox'[i] = m
    <3>1. inbox \in Seq(Messages) /\ inbox' = Append(inbox, m)
      BY <1>5 DEF TypeOK, m
    <3> QED
      BY <2>1, <3>1, AppendAdds
  <2>4. ex.sent + 1 < MaxBatch + sess.seqIn
    <3>1. ex.sent + 1 < MaxBatch + (IF OkToSend(st) THEN sess.seqIn ELSE 0)
      BY <1>5 DEF Publish
    <3>2. sess.seqIn \in Nat /\ MaxBatch \in Nat /\ ex.sent \in Nat
      BY <1>0, <1>1, SessionConstants DEF Facts
    <3> QED
      BY <3>1, <3>2
  <2>5. gap.end < ex.sent + 1 /\ sess.seqIn < ex.sent + 1 /\ batch.to < ex.sent + 1
        /\ \A x \in recov : x < ex.sent + 1
    <3>1. /\ sess.seqIn <= ex.sent /\ gap.end <= ex.sent /\ batch.to <= ex.sent
          /\ \A x \in recov : x <= ex.sent
      BY DEF InSession, AllSent
    <3>2. /\ sess.seqIn \in Nat /\ gap.end \in Nat /\ batch.to \in Nat
          /\ \A x \in recov : x \in Nat
      BY <1>0 DEF Facts
    <3> QED
      BY <1>1, <3>1, <3>2
  <2>6. \A i \in DOMAIN inbox' :
          /\ Wanted(i)' => Wanted(i) /\ i \in DOMAIN inbox /\ inbox'[i] = inbox[i]
          /\ Refusal(i)' => Refusal(i) /\ i \in DOMAIN inbox
          /\ Live(i)' => \/ Live(i) /\ i \in DOMAIN inbox /\ inbox'[i] = inbox[i]
                         \/ i = Len(inbox) + 1 /\ inbox'[i] = m
    <3> SUFFICES ASSUME NEW i \in DOMAIN inbox'
                 PROVE  /\ Wanted(i)' => Wanted(i) /\ i \in DOMAIN inbox /\ inbox'[i] = inbox[i]
                        /\ Refusal(i)' => Refusal(i) /\ i \in DOMAIN inbox
                        /\ Live(i)' => \/ Live(i) /\ i \in DOMAIN inbox /\ inbox'[i] = inbox[i]
                                       \/ i = Len(inbox) + 1 /\ inbox'[i] = m
      OBVIOUS
    <3>1. CASE i \in DOMAIN inbox /\ inbox'[i] = inbox[i]
      BY <1>1, <3>1 DEF Wanted, Refusal, Live, App, client
    <3>2. CASE i = Len(inbox) + 1 /\ inbox'[i] = m
      <4>1. ~Refusal(i)'
        BY <2>2, <3>2 DEF Refusal
      <4>2. ~Wanted(i)'
        <5>1. gap'.end < m.seq /\ gap'.end \in Nat /\ m.seq \in Nat
          BY <1>0, <1>1, <2>2, <2>5 DEF client, Facts
        <5> QED
          BY <3>2, <5>1 DEF Wanted
      <4> QED
        BY <3>2, <4>1, <4>2
    <3> QED
      BY <2>3, <3>1, <3>2
  <2>7. \A i \in DOMAIN inbox : i \in DOMAIN inbox' /\ inbox'[i] = inbox[i] /\ (Wanted(i) => Wanted(i)')
    <3>1. \A i \in DOMAIN inbox : i \in DOMAIN inbox' /\ inbox'[i] = inbox[i]
      BY <2>3
    <3> QED
      BY <1>1, <3>1 DEF Wanted, App, client
  <2>8. LiveIsNew'
    <3> SUFFICES ASSUME NEW i \in DOMAIN inbox', Live(i)'
                 PROVE  /\ inbox'[i].seq <= ex'.sent
                        /\ sess'.seqIn < inbox'[i].seq /\ inbox'[i].seq < MaxBatch + sess'.seqIn
                        /\ batch'.to < inbox'[i].seq
                        /\ \A x \in recov' : x < inbox'[i].seq
                        /\ \A j \in DOMAIN inbox' :
                             Live(j)' /\ j < i => inbox'[j].seq < inbox'[i].seq
      BY DEF LiveIsNew
    <3>1. CASE Live(i) /\ i \in DOMAIN inbox /\ inbox'[i] = inbox[i]
      <4>1. /\ inbox[i].seq <= ex.sent
            /\ sess.seqIn < inbox[i].seq /\ inbox[i].seq < MaxBatch + sess.seqIn
            /\ batch.to < inbox[i].seq
            /\ \A x \in recov : x < inbox[i].seq
            /\ \A j \in DOMAIN inbox : Live(j) /\ j < i => inbox[j].seq < inbox[i].seq
        BY <3>1 DEF InSession, LiveIsNew
      <4>2. inbox[i].seq \in Nat
        BY <1>0, <3>1 DEF Facts, Live
      <4>3. \A j \in DOMAIN inbox' : Live(j)' /\ j < i => Live(j) /\ j \in DOMAIN inbox
                                                          /\ inbox'[j] = inbox[j]
        BY <2>3, <2>6, <3>1
      <4> QED
        BY <1>1, <3>1, <4>1, <4>2, <4>3 DEF client
    <3>2. CASE i = Len(inbox) + 1 /\ inbox'[i] = m
      <4>1. \A j \in DOMAIN inbox : Live(j) => inbox[j].seq < ex.sent + 1
        <5> SUFFICES ASSUME NEW j \in DOMAIN inbox, Live(j) PROVE inbox[j].seq < ex.sent + 1
          OBVIOUS
        <5>1. inbox[j].seq \in Nat /\ inbox[j].seq <= ex.sent
          BY <1>0 DEF InSession, LiveIsNew, Facts, Live
        <5> QED
          BY <1>1, <5>1
      <4>2. \A j \in DOMAIN inbox' : Live(j)' /\ j < i => Live(j) /\ j \in DOMAIN inbox
                                                          /\ inbox'[j] = inbox[j]
        BY <2>3, <2>6, <3>2
      <4>3. \A j \in DOMAIN inbox' : Live(j)' /\ j < i => inbox'[j].seq < inbox'[i].seq
        BY <2>2, <3>2, <4>1, <4>2
      <4> QED
        BY <1>1, <2>2, <2>4, <2>5, <3>2, <4>3 DEF client
    <3> QED
      BY <2>6, <3>1, <3>2
  <2>9. OpenGap' = OpenGap /\ Remaining' = Remaining /\ gap' = gap /\ st' = st /\ recov' = recov
        /\ outbox' = outbox
    BY <1>1 DEF OpenGap, Remaining, client
  <2>10. OneAnswer'
    <3>1. \A i \in DOMAIN outbox' : Request(i)' => Request(i) /\ i \in DOMAIN outbox
      BY <2>9 DEF Request
    <3>2. \A i \in DOMAIN outbox : Request(i) => \A j \in DOMAIN inbox' : ~Refusal(j)' /\ ~Wanted(j)'
      BY <2>6 DEF InSession, OneAnswer
    <3>3. \A i \in DOMAIN inbox' : Refusal(i)' =>
            /\ st' # "Established" /\ OpenGap'
            /\ \A j \in DOMAIN inbox' : (Refusal(j)' => j = i) /\ ~Wanted(j)'
      BY <2>6, <2>9 DEF InSession, OneAnswer
    <3>4. \A i \in DOMAIN outbox' : Request(i)' =>
            /\ st' # "Established" /\ OpenGap'
            /\ outbox'[i].from = gap'.start
            /\ outbox'[i].count = 0 => MaxBatch <= Remaining'
            /\ outbox'[i].count <= Remaining'
            /\ \A j \in DOMAIN outbox' : Request(j)' => j = i
      BY <2>9, <3>1 DEF InSession, OneAnswer
    <3> QED
      BY <3>1, <3>2, <3>3, <3>4 DEF OneAnswer
  <2>11. WantedInOrder'
    <3> SUFFICES ASSUME NEW i \in DOMAIN inbox', Wanted(i)'
                 PROVE  /\ st' # "Established" /\ OpenGap'
                        /\ gap'.start <= inbox'[i].seq /\ inbox'[i].seq < gap'.start + MaxBatch
                        /\ \A j \in DOMAIN inbox' :
                             Wanted(j)' /\ j < i => inbox'[j].seq < inbox'[i].seq
                        /\ \A x \in Nat : gap'.start <= x /\ x < inbox'[i].seq =>
                             x \in recov' \/ \E k \in DOMAIN inbox' :
                                                Wanted(k)' /\ k < i /\ inbox'[k].seq = x
      BY DEF WantedInOrder
    <3>1. Wanted(i) /\ i \in DOMAIN inbox /\ inbox'[i] = inbox[i]
      BY <2>6
    <3>2. /\ st # "Established" /\ OpenGap
          /\ gap.start <= inbox[i].seq /\ inbox[i].seq < gap.start + MaxBatch
          /\ \A j \in DOMAIN inbox : Wanted(j) /\ j < i => inbox[j].seq < inbox[i].seq
          /\ \A x \in Nat : gap.start <= x /\ x < inbox[i].seq =>
               x \in recov \/ \E k \in DOMAIN inbox : Wanted(k) /\ k < i /\ inbox[k].seq = x
      BY <3>1 DEF InSession, WantedInOrder
    <3>3. \A j \in DOMAIN inbox' : Wanted(j)' /\ j < i => inbox'[j].seq < inbox'[i].seq
      BY <2>6, <3>1, <3>2
    <3>4. \A x \in Nat : gap'.start <= x /\ x < inbox'[i].seq =>
            x \in recov' \/ \E k \in DOMAIN inbox' : Wanted(k)' /\ k < i /\ inbox'[k].seq = x
      BY <2>7, <2>9, <3>1, <3>2
    <3> QED
      BY <2>9, <3>1, <3>2, <3>3, <3>4
  <2> QED
    BY <1>2, <1>3, <2>8, <2>10, <2>11 DEF InSession
<1> QED
  BY <1>4, <1>5 DEF Publish

\* The exchange answers a request with the first messages of the gap, or refuses.
LEMMA ResentInSession ==
    ASSUME TypeOK, TypeOK', LoggedIn, InSession, ExRetransmit
    PROVE  InSession'
<1>0. Facts /\ Facts'
  BY Numbers
<1>1. /\ UNCHANGED <<client, ex>> /\ 1 \in DOMAIN outbox /\ outbox[1].type = "RetransmitRequest"
      /\ DOMAIN outbox = 1 .. Len(outbox) /\ Len(outbox) \in Nat
      /\ \A i \in DOMAIN outbox' :
           i \in Nat \ {0} /\ i + 1 \in DOMAIN outbox /\ outbox'[i] = outbox[i + 1]
  <2>1. ExReceive("RetransmitRequest") /\ UNCHANGED <<client, ex>>
    BY DEF ExRetransmit
  <2>2. /\ outbox # <<>> /\ outbox[1].type = "RetransmitRequest"
        /\ Len(outbox) \in Nat \ {0} /\ DOMAIN outbox = 1 .. Len(outbox)
        /\ \A i \in DOMAIN outbox' :
             i \in Nat \ {0} /\ i + 1 \in DOMAIN outbox /\ outbox'[i] = outbox[i + 1]
    BY <2>1, ExReceived
  <2>3. 1 \in DOMAIN outbox
    BY <2>2
  <2> QED
    BY <2>1, <2>2, <2>3
<1>2. Request(1)
  BY <1>1 DEF Request
<1>3. /\ st # "Established" /\ OpenGap
      /\ outbox[1].from = gap.start
      /\ outbox[1].count = 0 => MaxBatch <= Remaining
      /\ outbox[1].count <= Remaining
      /\ \A j \in DOMAIN outbox : Request(j) => j = 1
      /\ \A j \in DOMAIN inbox : ~Refusal(j) /\ ~Wanted(j)
  BY <1>1, <1>2 DEF InSession, OneAnswer
<1>4. \A i \in DOMAIN outbox' : ~Request(i)'
  <2> SUFFICES ASSUME NEW i \in DOMAIN outbox', Request(i)' PROVE FALSE
    OBVIOUS
  <2>1. Request(i + 1) /\ i + 1 \in DOMAIN outbox /\ i + 1 # 1
    BY <1>1 DEF Request
  <2> QED
    BY <1>3, <2>1
<1>5. OpenGap' /\ Remaining' = Remaining /\ gap' = gap /\ st' = st /\ recov' = recov
      /\ sess' = sess /\ batch' = batch /\ ex' = ex
  BY <1>1, <1>3 DEF OpenGap, Remaining, client
<1>6. AllSent' /\ Waits' /\ Replays'
  BY <1>1, <1>5 DEF InSession, AllSent, Waits, Replays, OpenGap, Remaining
<1>7. gap.start \in Nat /\ gap.end \in Nat /\ gap.start <= gap.end /\ Remaining = gap.end - gap.start + 1
      /\ MaxBatch \in Nat /\ outbox[1].count \in Nat
  BY <1>0, <1>1, <1>2, <1>3, SessionConstants DEF OpenGap, Remaining, Facts
<1>8. inbox \in Seq(Messages)
  BY DEF TypeOK
<1>9. CASE inbox' = inbox \o <<[type |-> "RetransmitReject"]>>
  <2> DEFINE one == <<[type |-> "RetransmitReject"]>>
  <2>1. one \in Seq(Messages) /\ DOMAIN one = {1} /\ one[1].type = "RetransmitReject"
    BY Single DEF Messages
  <2>2. inbox' = inbox \o one
    BY <1>9
  <2> HIDE DEF one
  <2>3. /\ DOMAIN inbox = 1 .. Len(inbox) /\ Len(inbox) \in Nat
        /\ \A i \in DOMAIN inbox' :
             \/ i \in DOMAIN inbox /\ inbox'[i] = inbox[i]
             \/ i - Len(inbox) \in DOMAIN one /\ inbox'[i] = one[i - Len(inbox)] /\ i > Len(inbox)
        /\ DOMAIN inbox' = 1 .. Len(inbox) + Len(one)
    BY <1>8, <2>1, <2>2, ConcatAdds
  <2>4. \A i \in DOMAIN inbox' :
          \/ i \in DOMAIN inbox /\ inbox'[i] = inbox[i]
          \/ i = Len(inbox) + 1 /\ inbox'[i].type = "RetransmitReject"
    BY <2>1, <2>3
  <2>5. \A i \in DOMAIN inbox' :
          /\ ~Wanted(i)'
          /\ Live(i)' => Live(i) /\ i \in DOMAIN inbox /\ inbox'[i] = inbox[i]
          /\ Refusal(i)' => i = Len(inbox) + 1
    BY <1>3, <1>5, <2>4 DEF Wanted, Live, Refusal, App
  <2>6. LiveIsNew'
    BY <1>5, <2>5 DEF InSession, LiveIsNew
  <2>7. OneAnswer' /\ WantedInOrder'
    BY <1>3, <1>4, <1>5, <2>5 DEF OneAnswer, WantedInOrder
  <2> QED
    BY <1>6, <2>6, <2>7 DEF InSession
<1>10. ASSUME NEW more \in Seq(Messages), inbox' = inbox \o more,
              \A i \in DOMAIN more :
                 more[i].type = "App" /\ more[i].seq = outbox[1].from + i - 1,
              Len(more) <= MaxBatch,
              outbox[1].count # 0 => Len(more) <= outbox[1].count
       PROVE  InSession'
  <2>1. /\ DOMAIN inbox = 1 .. Len(inbox) /\ Len(inbox) \in Nat
        /\ DOMAIN more = 1 .. Len(more) /\ Len(more) \in Nat
        /\ DOMAIN inbox' = 1 .. Len(inbox) + Len(more)
        /\ \A i \in DOMAIN inbox' :
             \/ i \in DOMAIN inbox /\ inbox'[i] = inbox[i]
             \/ i > Len(inbox) /\ i - Len(inbox) \in DOMAIN more /\ inbox'[i] = more[i - Len(inbox)]
    BY <1>8, <1>10, ConcatAdds
  <2> DEFINE first == gap.start - Len(inbox) - 1
  <2>2. Len(more) <= gap.end - gap.start + 1
    <3>1. Len(more) <= Remaining
      <4>1. CASE outbox[1].count = 0
        BY <4>1, <1>3, <1>7, <1>10, <2>1
      <4>2. CASE outbox[1].count # 0
        BY <4>2, <1>3, <1>7, <1>10, <2>1
      <4> QED
        BY <4>1, <4>2
    <3> QED
      BY <1>7, <3>1
  <2>3. \A i \in DOMAIN inbox' :
          \/ i \in DOMAIN inbox /\ inbox'[i] = inbox[i]
          \/ /\ i > Len(inbox) /\ inbox'[i].type = "App"
             /\ inbox'[i].seq = first + i
             /\ gap.start <= first + i /\ first + i <= gap.end /\ first + i < gap.start + MaxBatch
    <3> SUFFICES ASSUME NEW i \in DOMAIN inbox', ~(i \in DOMAIN inbox /\ inbox'[i] = inbox[i])
                 PROVE  /\ i > Len(inbox) /\ inbox'[i].type = "App"
                        /\ inbox'[i].seq = first + i
                        /\ gap.start <= first + i /\ first + i <= gap.end
                        /\ first + i < gap.start + MaxBatch
      OBVIOUS
    <3>1. i > Len(inbox) /\ i - Len(inbox) \in DOMAIN more /\ inbox'[i] = more[i - Len(inbox)]
      BY <2>1
    <3>2. PICK n \in DOMAIN more : n = i - Len(inbox)
      BY <3>1
    <3>3. inbox'[i].type = "App" /\ inbox'[i].seq = gap.start + n - 1
      BY <1>3, <1>10, <3>1, <3>2
    <3>4. n \in Nat /\ 1 <= n /\ n <= Len(more) /\ i \in Nat
      BY <2>1, <3>2
    <3>g. gap.start \in Nat /\ gap.end \in Nat /\ MaxBatch \in Nat
      BY <1>7
    <3>l. Len(inbox) \in Nat /\ Len(more) \in Nat
      BY <2>1
    <3>5. first + i = gap.start + n - 1
      BY <3>g, <3>l, <3>2, <3>4
    <3>6. n <= gap.end - gap.start + 1 /\ n <= MaxBatch
      <4>1. Len(more) <= gap.end - gap.start + 1 /\ Len(more) <= MaxBatch
        BY <1>10, <2>2
      <4> QED
        BY <3>g, <3>l, <3>4, <4>1
    <3>7. /\ gap.start <= gap.start + n - 1 /\ gap.start + n - 1 <= gap.end
          /\ gap.start + n - 1 < gap.start + MaxBatch
      BY <1>7, <3>4, <3>6
    <3> HIDE DEF first
    <3> QED
      BY <3>1, <3>3, <3>5, <3>7
  <2>4. first \in Int
    BY <1>7, <2>1
  <2> HIDE DEF first
  <2>5. \A i \in DOMAIN inbox' :
          /\ Wanted(i)' <=> i > Len(inbox)
          /\ Wanted(i)' => /\ inbox'[i].seq = first + i
                           /\ gap.start <= first + i /\ first + i <= gap.end
                           /\ first + i < gap.start + MaxBatch
          /\ Live(i)' => Live(i) /\ i \in DOMAIN inbox /\ inbox'[i] = inbox[i]
          /\ ~Refusal(i)'
    <3> SUFFICES ASSUME NEW i \in DOMAIN inbox'
                 PROVE  /\ Wanted(i)' <=> i > Len(inbox)
                        /\ Wanted(i)' => /\ inbox'[i].seq = first + i
                                         /\ gap.start <= first + i /\ first + i <= gap.end
                                         /\ first + i < gap.start + MaxBatch
                        /\ Live(i)' => Live(i) /\ i \in DOMAIN inbox /\ inbox'[i] = inbox[i]
                        /\ ~Refusal(i)'
      OBVIOUS
    <3>1. CASE i \in DOMAIN inbox /\ inbox'[i] = inbox[i]
      <4>1. ~(i > Len(inbox))
        BY <2>1, <3>1
      <4>2. ~Wanted(i)' /\ ~Refusal(i)' /\ (Live(i)' => Live(i))
        BY <1>3, <1>5, <3>1 DEF Wanted, Refusal, Live, App
      <4> QED
        BY <3>1, <4>1, <4>2
    <3>2. CASE /\ i > Len(inbox) /\ inbox'[i].type = "App"
               /\ inbox'[i].seq = first + i
               /\ gap.start <= first + i /\ first + i <= gap.end /\ first + i < gap.start + MaxBatch
      <4>1. i \in Int /\ gap'.end = gap.end
        BY <1>5, <2>1
      <4>2. Wanted(i)' /\ ~Refusal(i)'
        BY <3>2, <4>1 DEF Wanted, App, Refusal
      <4>3. ~Live(i)'
        BY <1>7, <2>4, <3>2, <4>1 DEF Live
      <4> QED
        BY <3>2, <4>2, <4>3
    <3> QED
      BY <2>3, <3>1, <3>2
  <2>6. LiveIsNew'
    BY <1>5, <2>5 DEF InSession, LiveIsNew
  <2>7. OneAnswer'
    BY <1>4, <2>5 DEF OneAnswer
  <2>8. WantedInOrder'
    <3> SUFFICES ASSUME NEW i \in DOMAIN inbox', Wanted(i)'
                 PROVE  /\ gap'.start <= inbox'[i].seq /\ inbox'[i].seq < gap'.start + MaxBatch
                        /\ \A j \in DOMAIN inbox' :
                             Wanted(j)' /\ j < i => inbox'[j].seq < inbox'[i].seq
                        /\ \A x \in Nat : gap'.start <= x /\ x < inbox'[i].seq =>
                             x \in recov' \/ \E k \in DOMAIN inbox' :
                                                Wanted(k)' /\ k < i /\ inbox'[k].seq = x
      BY <1>3, <1>5 DEF WantedInOrder
    <3>1. /\ inbox'[i].seq = first + i
          /\ gap.start <= first + i /\ first + i < gap.start + MaxBatch
          /\ i > Len(inbox) /\ i \in Nat /\ i <= Len(inbox) + Len(more)
      BY <2>1, <2>5
    <3>2. \A j \in DOMAIN inbox' : Wanted(j)' /\ j < i => inbox'[j].seq < inbox'[i].seq
      <4> SUFFICES ASSUME NEW j \in DOMAIN inbox', Wanted(j)', j < i
                   PROVE  inbox'[j].seq < inbox'[i].seq
        OBVIOUS
      <4>1. inbox'[j].seq = first + j /\ j \in Nat
        BY <2>1, <2>5
      <4> QED
        BY <2>4, <3>1, <4>1
    <3>3. ASSUME NEW x \in Nat, gap'.start <= x, x < inbox'[i].seq
          PROVE  \E k \in DOMAIN inbox' : Wanted(k)' /\ k < i /\ inbox'[k].seq = x
      <4>1. PICK k \in Int : k = x - first
        BY <2>4
      <4>2. first + Len(inbox) + 1 = gap.start
        BY <1>7, <2>1 DEF first
      <4>3. gap.start <= x /\ x < first + i
        BY <1>5, <3>1, <3>3
      <4>n. first \in Int /\ Len(inbox) \in Nat /\ i \in Nat /\ gap.start \in Nat
        BY <1>7, <2>1, <2>4, <3>1
      <4>4. k > Len(inbox) /\ k < i /\ first + k = x
        BY <4>n, <4>1, <4>2, <4>3
      <4>5. k \in DOMAIN inbox'
        BY <2>1, <3>1, <4>4
      <4>6. Wanted(k)' /\ inbox'[k].seq = x
        BY <2>5, <4>4, <4>5
      <4> QED
        BY <4>4, <4>5, <4>6
    <3> QED
      BY <1>5, <3>1, <3>2, <3>3
  <2> QED
    BY <1>6, <2>6, <2>7, <2>8 DEF InSession
<1> QED
  BY <1>9, <1>10, Resent

\* The other steps of the exchange, and those of the process that leave the session
\* up, add no message and no request.
LEMMA QuietInSession ==
    ASSUME TypeOK, TypeOK', LoggedIn, InSession, Phases,
           ExIgnore \/ ExTerminateReply \/ ExTerminate \/ Close \/ Persist
             \/ HandleMessage \/ TerminateCommand
    PROVE  InSession'
<1>0. Facts /\ Facts' /\ inbox \in Seq(Messages) /\ outbox \in Seq(Requests)
  BY Numbers DEF TypeOK
<1>1. /\ DOMAIN inbox = 1 .. Len(inbox) /\ Len(inbox) \in Nat
      /\ DOMAIN outbox = 1 .. Len(outbox) /\ Len(outbox) \in Nat
  BY <1>0 DEF Facts
<1>s. ASSUME UNCHANGED inbox
      PROVE  /\ \A i \in DOMAIN inbox' :
                  App(i)' \/ Refusal(i)' => i \in DOMAIN inbox /\ inbox'[i] = inbox[i]
             /\ \A i \in DOMAIN inbox : \A j \in DOMAIN inbox' :
                  i < j => i \in DOMAIN inbox' /\ inbox'[i] = inbox[i]
  BY <1>s
<1>t. ASSUME inbox' = Append(inbox, [type |-> "Terminate"])
      PROVE  /\ \A i \in DOMAIN inbox' :
                  App(i)' \/ Refusal(i)' => i \in DOMAIN inbox /\ inbox'[i] = inbox[i]
             /\ \A i \in DOMAIN inbox : \A j \in DOMAIN inbox' :
                  i < j => i \in DOMAIN inbox' /\ inbox'[i] = inbox[i]
  <2> DEFINE m == [type |-> "Terminate"]
  <2>1. m \in Messages /\ m.type = "Terminate" /\ inbox' = Append(inbox, m)
    BY <1>t DEF Messages
  <2> HIDE DEF m
  <2>2. /\ DOMAIN inbox' = 1 .. Len(inbox) + 1
        /\ \A i \in DOMAIN inbox' : \/ i \in DOMAIN inbox /\ inbox'[i] = inbox[i]
                                    \/ i = Len(inbox) + 1 /\ inbox'[i] = m
    BY <1>0, <2>1, AppendAdds
  <2>3. \A i \in DOMAIN inbox : i \in DOMAIN inbox' /\ inbox'[i] = inbox[i]
    BY <1>1, <2>2
  <2>4. \A i \in DOMAIN inbox' :
          App(i)' \/ Refusal(i)' => i \in DOMAIN inbox /\ inbox'[i] = inbox[i]
    BY <2>1, <2>2 DEF App, Refusal
  <2> QED
    BY <2>3, <2>4
<1>x. ASSUME NEW type, ExReceive(type)
      PROVE  \A i \in DOMAIN outbox' :
               Request(i)' => i + 1 \in DOMAIN outbox /\ outbox'[i] = outbox[i + 1]
  BY <1>x, ExReceived
<1>u. ASSUME UNCHANGED outbox
      PROVE  \A i \in DOMAIN outbox' :
               Request(i)' => i + 0 \in DOMAIN outbox /\ outbox'[i] = outbox[i + 0]
  BY <1>u, <1>1
<1>w. ASSUME Wire(TerminateRequest)
      PROVE  \A i \in DOMAIN outbox' :
               Request(i)' => i + 0 \in DOMAIN outbox /\ outbox'[i] = outbox[i + 0]
  <2> DEFINE m == [type |-> "Terminate"]
  <2>1. m \in Requests /\ m.type = "Terminate" /\ Wire(<<m>>)
    BY <1>w DEF Requests, TerminateRequest
  <2> HIDE DEF m
  <2>2. /\ link # "open" => outbox' = outbox
        /\ link = "open" =>
             \A i \in DOMAIN outbox' : \/ i \in DOMAIN outbox /\ outbox'[i] = outbox[i]
                                       \/ i = Len(outbox) + 1 /\ outbox'[i] = m
    BY <1>0, <2>1, WireAdds
  <2>3. \A i \in DOMAIN outbox' : Request(i)' => i \in DOMAIN outbox /\ outbox'[i] = outbox[i]
    BY <2>1, <2>2 DEF Request
  <2> QED
    BY <1>1, <2>3
<1>2. CASE ExIgnore
  <2>1. /\ UNCHANGED <<sess, gap, recov, batch, inbox, st>> /\ ex'.sent = ex.sent
        /\ ExReceive("RetransmitRequest")
    BY <1>2 DEF ExIgnore, client
  <2> QED
    BY <1>0, <2>1, <1>s, <1>x, NothingAdded
<1>3. CASE ExTerminateReply
  <2>1. /\ UNCHANGED <<sess, gap, recov, batch, st>> /\ ex'.sent = ex.sent
        /\ inbox' = Append(inbox, [type |-> "Terminate"]) /\ ExReceive("Terminate")
    BY <1>3 DEF ExTerminateReply, client, TypeOK
  <2> QED
    BY <1>0, <2>1, <1>t, <1>x, NothingAdded
<1>4. CASE ExTerminate
  <2>1. /\ UNCHANGED <<sess, gap, recov, batch, st>> /\ ex'.sent = ex.sent
        /\ inbox' = Append(inbox, [type |-> "Terminate"]) /\ UNCHANGED outbox
    BY <1>4 DEF ExTerminate, client, TypeOK
  <2> QED
    BY <1>0, <2>1, <1>t, <1>u, NothingAdded
<1>5. CASE Close
  <2>1. /\ UNCHANGED <<sess, gap, recov, batch, st>> /\ ex'.sent = ex.sent /\ outbox' = <<>>
    BY <1>5 DEF Close, TypeOK
  <2>2. PICK n \in 0 .. Len(inbox) : inbox' = SubSeq(inbox, 1, n)
    BY <1>5 DEF Close
  <2>3. /\ n \in Nat /\ DOMAIN inbox' = 1 .. n
        /\ \A i \in DOMAIN inbox' : i \in DOMAIN inbox /\ inbox'[i] = inbox[i]
    BY <1>0, <1>1, <2>2, PrefixKeeps
  <2>4. \A i \in DOMAIN inbox : \A j \in DOMAIN inbox' :
          i < j => i \in DOMAIN inbox' /\ inbox'[i] = inbox[i]
    BY <1>1, <2>3
  <2>5. \A i \in DOMAIN outbox' :
          Request(i)' => i + 0 \in DOMAIN outbox /\ outbox'[i] = outbox[i + 0]
    BY <2>1
  <2> QED
    BY <1>0, <2>1, <2>3, <2>4, <2>5, NothingAdded
<1>6. CASE Persist
  <2>1. UNCHANGED <<sess, gap, recov, batch, st, inbox, outbox>> /\ ex'.sent = ex.sent
    BY <1>6 DEF Persist, client
  <2> QED
    BY <1>0, <2>1, <1>s, <1>u, NothingAdded
<1>7. CASE HandleMessage
  <2>1. UNCHANGED <<sess, gap, recov, batch, st, inbox, outbox>> /\ ex'.sent = ex.sent
    BY <1>7 DEF HandleMessage
  <2> QED
    BY <1>0, <2>1, <1>s, <1>u, NothingAdded
<1>8. CASE TerminateCommand
  <2>1. /\ UNCHANGED <<sess, gap, recov, batch, inbox>> /\ ex'.sent = ex.sent
        /\ st' = "Terminating" /\ (UNCHANGED outbox \/ Wire(TerminateRequest))
    BY <1>8 DEF TerminateCommand, Update
  <2>2. \A i \in DOMAIN outbox' :
          Request(i)' => i + 0 \in DOMAIN outbox /\ outbox'[i] = outbox[i + 0]
    BY <2>1, <1>u, <1>w
  <2> QED
    BY <1>0, <2>1, <2>2, <1>s, NothingAdded
<1> QED
  BY <1>2, <1>3, <1>4, <1>5, <1>6, <1>7, <1>8

\* The acknowledgement opens the session: what follows it was sent after it, and what
\* the process missed before it is asked for.
LEMMA AckInSession ==
    ASSUME TypeOK, TypeOK', LoggingIn, Acknowledged, AckedInOrder, OnEstablishmentAck
    PROVE  InSession'
<1>0. Facts /\ Facts'
  BY Numbers
<1>1. /\ Shifted /\ inbox[1].type = "EstablishmentAck" /\ Head(inbox) = inbox[1] /\ Idle
      /\ Head(inbox) \in Messages
  BY ReceiveShifts, Received DEF OnEstablishmentAck
<1> DEFINE ack == inbox[1]
<1>2. /\ ack.next = ack.prev + 1 /\ ack.prev <= ex.sent /\ ack.prev \in Nat
      /\ outbox = <<>>
      /\ \A i \in DOMAIN inbox : i = 1 \/ inbox[i].type \in {"App", "Terminate"}
  BY <1>1, Carries, SessionConstants DEF Acknowledged
<1>3. \A i \in DOMAIN inbox : i # 1 /\ App(i) =>
        /\ ack.prev < inbox[i].seq /\ inbox[i].seq <= ex.sent /\ inbox[i].seq < MaxBatch
        /\ inbox[i].seq \in Nat
        /\ \A j \in DOMAIN inbox : App(j) /\ j < i => inbox[j].seq < inbox[i].seq
  BY <1>0 DEF AckedInOrder, Facts
<1>4. /\ UNCHANGED <<recov, batch, ex>> /\ recov = {} /\ batch = NoBatch /\ gap = NoGap
      /\ recov' = {} /\ batch' = NoBatch /\ batch'.to = 0
  BY <1>1 DEF OnEstablishmentAck, LoggingIn, Idle, NoBatch
<1>5. /\ \A i \in DOMAIN inbox' : ~Refusal(i)'
      /\ \A i \in DOMAIN inbox' : App(i)' =>
           /\ i + 1 \in DOMAIN inbox /\ i + 1 # 1 /\ App(i + 1) /\ inbox'[i] = inbox[i + 1]
           /\ i \in Nat
  BY <1>1, <1>2 DEF Shifted, Refusal, App
<1>6. ASSUME sess'.seqIn <= ack.prev, gap'.end <= ack.prev, sess'.seqIn \in Nat, gap'.end \in Nat
      PROVE  /\ AllSent' /\ LiveIsNew' /\ WantedInOrder' /\ Replays'
             /\ \A i \in DOMAIN inbox' : ~Refusal(i)' /\ ~Wanted(i)'
  <2>1. \A i \in DOMAIN inbox' : App(i)' =>
          /\ ack.prev < inbox'[i].seq /\ inbox'[i].seq <= ex'.sent /\ inbox'[i].seq < MaxBatch
          /\ inbox'[i].seq \in Nat
          /\ \A j \in DOMAIN inbox' : App(j)' /\ j < i => inbox'[j].seq < inbox'[i].seq
    <3> SUFFICES ASSUME NEW i \in DOMAIN inbox', App(i)'
                 PROVE  /\ ack.prev < inbox'[i].seq /\ inbox'[i].seq <= ex'.sent
                        /\ inbox'[i].seq < MaxBatch /\ inbox'[i].seq \in Nat
                        /\ \A j \in DOMAIN inbox' :
                             App(j)' /\ j < i => inbox'[j].seq < inbox'[i].seq
      OBVIOUS
    <3>1. i + 1 \in DOMAIN inbox /\ i + 1 # 1 /\ App(i + 1) /\ inbox'[i] = inbox[i + 1] /\ i \in Nat
      BY <1>5
    <3>2. /\ ack.prev < inbox[i + 1].seq /\ inbox[i + 1].seq <= ex.sent
          /\ inbox[i + 1].seq < MaxBatch /\ inbox[i + 1].seq \in Nat
          /\ \A j \in DOMAIN inbox : App(j) /\ j < i + 1 => inbox[j].seq < inbox[i + 1].seq
      BY <1>3, <3>1
    <3>3. \A j \in DOMAIN inbox' : App(j)' /\ j < i => inbox'[j].seq < inbox'[i].seq
      <4> SUFFICES ASSUME NEW j \in DOMAIN inbox', App(j)', j < i
                   PROVE  inbox'[j].seq < inbox'[i].seq
        OBVIOUS
      <4>1. j + 1 \in DOMAIN inbox /\ App(j + 1) /\ inbox'[j] = inbox[j + 1] /\ j + 1 < i + 1
        BY <1>5, <3>1
      <4> QED
        BY <3>1, <3>2, <4>1
    <3> QED
      BY <1>4, <3>1, <3>2, <3>3
  <2>2. \A i \in DOMAIN inbox' : ~Wanted(i)'
    <3> SUFFICES ASSUME NEW i \in DOMAIN inbox', App(i)' PROVE ~(inbox'[i].seq <= gap'.end)
      BY DEF Wanted
    <3>1. ack.prev < inbox'[i].seq /\ inbox'[i].seq \in Nat
      BY <2>1
    <3> QED
      BY <1>2, <1>6, <3>1
  <2>3. LiveIsNew'
    <3> SUFFICES ASSUME NEW i \in DOMAIN inbox', Live(i)'
                 PROVE  /\ sess'.seqIn < inbox'[i].seq
                        /\ inbox'[i].seq < MaxBatch + sess'.seqIn
                        /\ batch'.to < inbox'[i].seq
      BY <1>4, <2>1 DEF LiveIsNew, Live
    <3>1. ack.prev < inbox'[i].seq /\ inbox'[i].seq < MaxBatch /\ inbox'[i].seq \in Nat
      BY <2>1 DEF Live
    <3> QED
      BY <1>2, <1>4, <1>6, <3>1, SessionConstants
  <2>4. AllSent'
    <3>1. ex' = ex /\ recov' = {} /\ batch'.to = 0
      BY <1>4
    <3>2. ex.sent \in Nat /\ ack.prev <= ex.sent /\ ack.prev \in Nat
      BY <1>0, <1>2 DEF Facts
    <3>3. sess'.seqIn <= ex.sent /\ gap'.end <= ex.sent
      BY <1>6, <3>2
    <3> QED
      BY <3>1, <3>2, <3>3 DEF AllSent
  <2>5. WantedInOrder'
    BY <2>2 DEF WantedInOrder
  <2> QED
    BY <1>4, <1>5, <2>2, <2>3, <2>4, <2>5 DEF Replays
<1> DEFINE s == [sess EXCEPT !.uuid = ack.uuid, !.prevUuid = ack.prevUuid]
<1>7. s.seqIn = sess.seqIn /\ s \in Files /\ sess.seqIn \in Nat
      /\ [s EXCEPT !.seqIn = 0].seqIn = 0
  <2>1. sess \in Files /\ ack.uuid \in 0 .. MaxUuid /\ ack.prevUuid \in 0 .. MaxUuid
    BY <1>1, Carries DEF TypeOK
  <2> QED
    BY <1>0, <2>1 DEF Files, Facts
<1> HIDE DEF s
<1>8. gap.end = 0
  BY <1>4 DEF NoGap
<1>9. ASSUME st' = "Established", UNCHANGED <<gap, outbox>>, sess'.seqIn <= ack.prev
      PROVE  InSession'
  <2>1. sess'.seqIn \in Nat /\ gap'.end \in Nat /\ gap'.end <= ack.prev
    BY <1>0, <1>2, <1>8, <1>9 DEF Facts
  <2>2. /\ AllSent' /\ LiveIsNew' /\ WantedInOrder' /\ Replays'
        /\ \A i \in DOMAIN inbox' : ~Refusal(i)' /\ ~Wanted(i)'
    BY <1>6, <1>9, <2>1
  <2>3. OneAnswer'
    <3>1. DOMAIN outbox' = {}
      BY <1>2, <1>9
    <3> QED
      BY <2>2, <3>1 DEF OneAnswer
  <2>4. Waits'
    BY <1>9 DEF Waits
  <2> QED
    BY <2>2, <2>3, <2>4 DEF InSession
<1>10. ASSUME ack.uuid # ack.prevUuid, ack.next = 1,
              st' = "Established", Update([s EXCEPT !.seqIn = 0]), UNCHANGED <<gap, outbox>>
       PROVE  InSession'
  <2>1. sess'.seqIn = 0
    BY <1>7, <1>10 DEF Update
  <2> QED
    BY <1>2, <1>9, <1>10, <2>1
<1>11. ASSUME ack.prev = s.seqIn \/ (ack.prev > s.seqIn /\ s.seqIn = 0),
              st' = "Established", Update(s), UNCHANGED <<gap, outbox>>
       PROVE  InSession'
  <2>1. sess'.seqIn <= ack.prev
    BY <1>2, <1>7, <1>11 DEF Update
  <2> QED
    BY <1>9, <1>11, <2>1
<1>12. ASSUME ack.prev > s.seqIn, s.seqIn > 0,
              st' = "WaitingForRetransmission", Update(s),
              gap' = GapBetween(s.seqIn + 1, ack.next),
              Wire(RetransmitRequest(s.seqIn + 1, ack.prev - s.seqIn))
       PROVE  InSession'
  <2>1. /\ gap'.start = sess.seqIn + 1 /\ gap'.end = ack.prev
        /\ gap'.count = Uint16(ack.prev - sess.seqIn) /\ sess'.seqIn = sess.seqIn
        /\ ack.prev > sess.seqIn
    <3>1. ack.next - 1 = ack.prev /\ ack.next - (sess.seqIn + 1) = ack.prev - sess.seqIn
      BY <1>2, <1>7
    <3> QED
      BY <1>7, <1>12, <3>1 DEF GapBetween, Update
  <2>2. sess'.seqIn \in Nat /\ gap'.end \in Nat /\ gap'.end <= ack.prev /\ sess'.seqIn <= ack.prev
    BY <1>2, <1>7, <2>1
  <2>3. /\ AllSent' /\ LiveIsNew' /\ WantedInOrder' /\ Replays'
        /\ \A i \in DOMAIN inbox' : ~Refusal(i)' /\ ~Wanted(i)'
    BY <1>6, <2>2
  <2>4. OpenGap'
    BY <1>2, <1>7, <2>1 DEF OpenGap
  <2>5. Remaining' = ack.prev - sess.seqIn
    <3>1. gap'.end - gap'.start + 1 = ack.prev - sess.seqIn
      BY <1>2, <1>7, <2>1
    <3> QED
      BY <3>1 DEF Remaining
  <2>6. OneAnswer'
    <3>1. PICK from, count : from = sess.seqIn + 1 /\ count = ack.prev - sess.seqIn
      OBVIOUS
    <3>2. Wire(RetransmitRequest(from, count)) /\ from \in Nat /\ count \in Nat
      BY <1>2, <1>7, <1>12, <2>1, <3>1
    <3>3. from = gap'.start /\ count = Remaining'
      BY <2>1, <2>5, <3>1
    <3>4. \A i \in DOMAIN outbox : ~Request(i)
      BY <1>2
    <3> QED
      BY <1>0, <1>12, <2>3, <2>4, <3>2, <3>3, <3>4, GapAsked
  <2>7. Waits'
    <3>1. \A x \in Nat : ~(sess'.seqIn < x /\ x < gap'.start)
      BY <1>7, <2>1
    <3> QED
      BY <2>1, <2>4, <2>5, <3>1 DEF Waits
  <2> QED
    BY <2>3, <2>6, <2>7 DEF InSession
<1> QED
  BY <1>1, <1>10, <1>11, <1>12 DEF OnEstablishmentAck, s


\* What is left in an acknowledged inbox keeps its order.
LEMMA KeptInOrder ==
    ASSUME Facts, Facts', AckedInOrder, ex'.sent >= ex.sent,
           \A i \in DOMAIN inbox' :
               App(i)' => i \in DOMAIN inbox /\ inbox'[i] = inbox[i] /\ inbox'[1] = inbox[1]
    PROVE  AckedInOrder'
<1> SUFFICES ASSUME NEW i \in DOMAIN inbox', App(i)'
             PROVE  /\ inbox'[1].prev < inbox'[i].seq /\ inbox'[i].seq <= ex'.sent
                    /\ inbox'[i].seq < MaxBatch
                    /\ \A j \in DOMAIN inbox' :
                         App(j)' /\ j < i => inbox'[j].seq < inbox'[i].seq
  BY DEF AckedInOrder
<1>1. \A j \in DOMAIN inbox' :
        App(j)' => App(j) /\ j \in DOMAIN inbox /\ inbox'[j] = inbox[j] /\ inbox'[1] = inbox[1]
  BY DEF App
<1>2. /\ inbox[1].prev < inbox[i].seq /\ inbox[i].seq <= ex.sent /\ inbox[i].seq < MaxBatch
      /\ \A j \in DOMAIN inbox : App(j) /\ j < i => inbox[j].seq < inbox[i].seq
  BY <1>1 DEF AckedInOrder
<1>3. inbox[i].seq \in Nat /\ ex.sent \in Nat /\ ex'.sent \in Nat
  BY <1>1 DEF Facts
<1>4. inbox'[i].seq <= ex'.sent
  BY <1>1, <1>2, <1>3
<1> QED
  BY <1>1, <1>2, <1>4

\* A message published during the login follows the acknowledgement.
LEMMA PublishInOrder ==
    ASSUME TypeOK, TypeOK', Paced, LoggingIn, AckedInOrder, NEW lost \in BOOLEAN, Publish(lost)
    PROVE  AckedInOrder'
<1>0. Facts /\ Facts' /\ inbox \in Seq(Messages)
  BY Numbers DEF TypeOK
<1>1. ex'.sent = ex.sent + 1 /\ ex.sent \in Nat
  BY <1>0 DEF Publish, Facts, TypeOK
<1>2. CASE UNCHANGED inbox
  BY <1>0, <1>1, <1>2, KeptInOrder DEF App
<1>3. CASE ex.on /\ inbox' = Append(inbox, [type |-> "App", seq |-> ex.sent + 1])
  <2>1. /\ inbox # <<>> /\ inbox[1].type = "EstablishmentAck" /\ inbox[1].prev <= ex.sent
    BY <1>3 DEF LoggingIn, Nothing, Asking, Answered, Acknowledged
  <2>2. ex.sent + 1 < MaxBatch
    <3>1. ~OkToSend(st)
      BY DEF LoggingIn, OkToSend
    <3>2. ex.sent + 1 < MaxBatch + 0
      BY <1>3, <3>1 DEF Publish
    <3> QED
      BY <3>2, SessionConstants
  <2> DEFINE m == [type |-> "App", seq |-> ex.sent + 1]
  <2>3. m \in Messages
    <3>1. ex.sent + 1 \in Seqs
      BY <1>1, SessionConstants DEF Publish, Seqs
    <3> QED
      BY <3>1 DEF Messages
  <2>4. m.type = "App" /\ m.seq = ex.sent + 1 /\ inbox' = Append(inbox, m)
    BY <1>3
  <2> HIDE DEF m
  <2>5. /\ DOMAIN inbox = 1 .. Len(inbox) /\ Len(inbox) \in Nat /\ 1 \in DOMAIN inbox
        /\ DOMAIN inbox' = 1 .. Len(inbox) + 1
        /\ \A i \in DOMAIN inbox' : \/ i \in DOMAIN inbox /\ inbox'[i] = inbox[i]
                                    \/ i = Len(inbox) + 1 /\ inbox'[i] = m
    <3>1. 1 \in DOMAIN inbox
      BY <1>0, <2>1, TailShifts
    <3> QED
      BY <1>0, <2>3, <2>4, <3>1, AppendAdds
  <2>6. inbox'[1] = inbox[1]
    BY <2>5
  <2>7. Head(inbox) = inbox[1] /\ Head(inbox) \in Messages
    BY <1>0, <2>1, TailShifts
  <2>8. inbox[1].prev \in Nat
    <3>1. inbox[1].prev \in 0 .. MaxSeq
      BY <2>1, <2>7, Carries
    <3> QED
      BY <3>1, SessionConstants
  <2>9. \A i \in DOMAIN inbox' :
          App(i)' => /\ inbox'[1].prev < inbox'[i].seq /\ inbox'[i].seq <= ex'.sent
                     /\ inbox'[i].seq < MaxBatch
                     /\ \A j \in DOMAIN inbox' :
                          App(j)' /\ j < i => inbox'[j].seq < inbox'[i].seq
    <3> SUFFICES ASSUME NEW i \in DOMAIN inbox', App(i)'
                 PROVE  /\ inbox'[1].prev < inbox'[i].seq /\ inbox'[i].seq <= ex'.sent
                        /\ inbox'[i].seq < MaxBatch
                        /\ \A j \in DOMAIN inbox' :
                             App(j)' /\ j < i => inbox'[j].seq < inbox'[i].seq
      OBVIOUS
    <3>1. ASSUME NEW k \in DOMAIN inbox', App(k)', k \in DOMAIN inbox, inbox'[k] = inbox[k]
          PROVE  /\ inbox[1].prev < inbox[k].seq /\ inbox[k].seq <= ex.sent
                 /\ inbox[k].seq < MaxBatch /\ inbox[k].seq \in Nat
                 /\ \A j \in DOMAIN inbox : App(j) /\ j < k => inbox[j].seq < inbox[k].seq
      <4>1. App(k)
        BY <3>1 DEF App
      <4>2. /\ inbox[1].prev < inbox[k].seq /\ inbox[k].seq <= ex.sent
            /\ inbox[k].seq < MaxBatch
            /\ \A j \in DOMAIN inbox : App(j) /\ j < k => inbox[j].seq < inbox[k].seq
        BY <3>1, <4>1 DEF AckedInOrder
      <4>3. inbox[k].seq \in Nat
        BY <3>1, <4>1, <1>0 DEF Facts
      <4> QED
        BY <4>2, <4>3
    <3>2. CASE i \in DOMAIN inbox /\ inbox'[i] = inbox[i]
      <4>1. /\ inbox[1].prev < inbox[i].seq /\ inbox[i].seq <= ex.sent
            /\ inbox[i].seq < MaxBatch /\ inbox[i].seq \in Nat
            /\ \A j \in DOMAIN inbox : App(j) /\ j < i => inbox[j].seq < inbox[i].seq
        BY <3>1, <3>2
      <4>2. inbox'[i].seq <= ex'.sent
        BY <1>1, <4>1, <3>2
      <4>3. ASSUME NEW j \in DOMAIN inbox', App(j)', j < i
            PROVE  inbox'[j].seq < inbox'[i].seq
        <5>1. j \in DOMAIN inbox /\ inbox'[j] = inbox[j]
          BY <2>5, <3>2, <4>3
        <5>2. App(j)
          BY <5>1, <4>3 DEF App
        <5> QED
          BY <4>1, <4>3, <5>1, <5>2, <3>2
      <4> QED
        BY <2>6, <3>2, <4>1, <4>2, <4>3
    <3>3. CASE i = Len(inbox) + 1 /\ inbox'[i] = m
      <4>1. inbox'[i].seq = ex.sent + 1
        BY <3>3, <2>4
      <4>2. ASSUME NEW j \in DOMAIN inbox', App(j)', j < i
            PROVE  inbox'[j].seq < inbox'[i].seq
        <5>1. j \in DOMAIN inbox /\ inbox'[j] = inbox[j]
          BY <2>5, <3>3, <4>2
        <5>2. inbox[j].seq <= ex.sent /\ inbox[j].seq \in Nat
          BY <3>1, <4>2, <5>1
        <5> QED
          BY <1>1, <4>1, <5>1, <5>2
      <4>3. inbox'[1].prev < inbox'[i].seq
        BY <1>1, <2>1, <2>6, <2>8, <4>1
      <4>4. inbox'[i].seq <= ex'.sent /\ inbox'[i].seq < MaxBatch
        BY <1>1, <2>2, <4>1
      <4> QED
        BY <4>2, <4>3, <4>4
    <3> QED
      BY <2>5, <3>2, <3>3
  <2> QED
    BY <2>9 DEF AckedInOrder
<1> QED
  BY <1>2, <1>3 DEF Publish

\* Up to the acknowledgement the order is kept.
LEMMA LoginInOrder ==
    ASSUME TypeOK, TypeOK', Paced, Phases, LoggingIn, AckedInOrder, [Next]_vars,
           ~OnEstablishmentAck
    PROVE  AckedInOrder'
<1>0. Facts /\ Facts' /\ inbox \in Seq(Messages) /\ outbox \in Seq(Requests)
  BY Numbers DEF TypeOK
<1>1. ASSUME UNCHANGED inbox, ex'.sent = ex.sent
      PROVE  AckedInOrder'
  BY <1>1 DEF AckedInOrder, App
<1>2. ASSUME \A i \in DOMAIN inbox' : ~App(i)'
      PROVE  AckedInOrder'
  BY <1>2 DEF AckedInOrder
<1>3. ASSUME inbox' = <<>>
      PROVE  AckedInOrder'
  <2>1. \A i \in DOMAIN inbox' : ~App(i)'
    BY <1>3
  <2> QED
    BY <1>2, <2>1
<1>4. CASE UNCHANGED vars
  BY <1>1, <1>4 DEF vars
<1>5. CASE Launch \/ Connect \/ Persist \/ Wipe \/ Dispatch \/ RetransCommand \/ TerminateCommand
  <2>1. UNCHANGED <<inbox, ex>>
    BY <1>5 DEF Launch, Connect, Persist, Wipe, Dispatch, RetransCommand, TerminateCommand
  <2> QED
    BY <1>1, <2>1
<1>6. CASE Exit \/ ExitOnAck
  BY <1>3, <1>6 DEF Exit, ExitOnAck, Gone
<1>7. CASE Close
  <2>1. PICK n \in 0 .. Len(inbox) : inbox' = SubSeq(inbox, 1, n)
    BY <1>7 DEF Close
  <2>2. ex'.sent = ex.sent /\ ex.sent \in Nat
    BY <1>7, <1>0 DEF Close, TypeOK, Facts
  <2>3. /\ n \in Nat /\ DOMAIN inbox' = 1 .. n
        /\ \A i \in DOMAIN inbox' : i \in DOMAIN inbox /\ inbox'[i] = inbox[i]
    BY <1>0, <2>1, PrefixKeeps, LenProperties
  <2>4. \A i \in DOMAIN inbox' : 1 \in DOMAIN inbox'
    BY <2>3
  <2>5. ex'.sent >= ex.sent
    BY <2>2
  <2> QED
    BY <1>0, <2>3, <2>4, <2>5, KeptInOrder
<1>8. CASE Session
  <2>1. ASSUME NEW type, Receive(type), type # "EstablishmentAck"
        PROVE  inbox' = <<>>
    BY <2>1, LoginReceives
  <2> QED
    BY <1>3, <1>6, <1>8, <2>1
       DEF Session, OnNegotiationResponse, OnNegotiationReject, OnEstablishmentReject, OnTerminate,
           OnRetransmitReject
<1>9. CASE Application
  BY <1>9, ApplicationPhases
<1>10. CASE \E lost \in BOOLEAN : Publish(lost)
  BY <1>10, PublishInOrder
<1>11. ASSUME inbox = <<>>, NEW m \in Messages, inbox' = Append(inbox, m), m.type # "App"
       PROVE  AckedInOrder'
  <2>1. inbox'[1] = m /\ DOMAIN inbox' = {1}
    BY <1>11, AppendToNone
  <2> QED
    BY <1>2, <1>11, <2>1 DEF App
<1>12. CASE ExNegotiate \/ ExEstablish
  <2>1. inbox = <<>>
    BY <1>12, LoginSends DEF ExNegotiate, ExEstablish, Asking
  <2>2. \E m \in Messages : inbox' = Append(inbox, m) /\ m.type # "App"
    <3>1. inbox' \in Seq(Messages)
      BY DEF TypeOK
    <3>2. \E m : inbox' = Append(inbox, m) /\ m.type # "App"
      <4>1. CASE ExNegotiate
        <5>1. \/ inbox' = Append(inbox, [type |-> "NegotiationResponse",
                                        uuid |-> ex.uuid + 1, prevUuid |-> ex.uuid])
              \/ inbox' = Append(inbox, [type |-> "NegotiationReject"])
          BY <4>1 DEF ExNegotiate
        <5> QED
          BY <5>1
      <4>2. CASE ExEstablish
        <5>1. \/ \E u, p, n, v : inbox' = Append(inbox, [type |-> "EstablishmentAck", uuid |-> u,
                                        prevUuid |-> p, next |-> n, prev |-> v])
              \/ \E n : inbox' = Append(inbox, [type |-> "EstablishmentReject", next |-> n])
          BY <4>2, Zenon DEF ExEstablish
        <5>2. ASSUME NEW u, NEW p, NEW n, NEW v,
                     inbox' = Append(inbox, [type |-> "EstablishmentAck", uuid |-> u,
                                             prevUuid |-> p, next |-> n, prev |-> v])
              PROVE  \E m : inbox' = Append(inbox, m) /\ m.type # "App"
          BY <5>2
        <5>3. ASSUME NEW n,
                     inbox' = Append(inbox, [type |-> "EstablishmentReject", next |-> n])
              PROVE  \E m : inbox' = Append(inbox, m) /\ m.type # "App"
          BY <5>3
        <5> QED
          BY <5>1, <5>2, <5>3
      <4> QED
        BY <1>12, <4>1, <4>2
    <3>3. PICK m : inbox' = Append(inbox, m) /\ m.type # "App"
      BY <3>2
    <3>4. Len(inbox') = 1 /\ inbox'[1] = m
      BY <2>1, <3>3
    <3>5. m \in Messages
      BY <3>1, <3>4, ElementOfSeq
    <3> QED
      BY <3>3, <3>5
  <2> QED
    BY <1>11, <2>1, <2>2
<1>13. CASE ExRetransmit \/ ExIgnore \/ ExTerminateReply
  <2>1. ExReceive("RetransmitRequest") \/ ExReceive("Terminate")
    BY <1>13 DEF ExRetransmit, ExIgnore, ExTerminateReply
  <2>2. \E type : ExReceive(type) /\ type \notin {"Negotiate", "Establish"}
    BY <2>1
  <2> QED
    BY <2>2, LoginSends DEF Asking
<1>14. CASE ExTerminate
  <2> DEFINE m == [type |-> "Terminate"]
  <2>1. m \in Messages /\ m.type = "Terminate" /\ inbox' = Append(inbox, m)
    BY <1>14 DEF ExTerminate, Messages
  <2>2. inbox # <<>>
    BY <1>14 DEF ExTerminate, LoggingIn, Nothing, Asking, Answered, Acknowledged
  <2> HIDE DEF m
  <2>3. /\ DOMAIN inbox = 1 .. Len(inbox) /\ Len(inbox) \in Nat /\ 1 \in DOMAIN inbox
    BY <1>0, <2>2, TailShifts
  <2>4. /\ DOMAIN inbox' = 1 .. Len(inbox) + 1
        /\ \A i \in DOMAIN inbox' : \/ i \in DOMAIN inbox /\ inbox'[i] = inbox[i]
                                    \/ i = Len(inbox) + 1 /\ inbox'[i] = m
    BY <1>0, <2>1, AppendAdds
  <2>5. inbox'[1] = inbox[1]
    BY <2>3, <2>4
  <2>6. ex'.sent >= ex.sent
    <3>1. ex'.sent = ex.sent /\ ex.sent \in Nat
      BY <1>14, <1>0 DEF ExTerminate, TypeOK, Facts
    <3> QED
      BY <3>1
  <2>7. \A i \in DOMAIN inbox' :
          App(i)' => i \in DOMAIN inbox /\ inbox'[i] = inbox[i] /\ inbox'[1] = inbox[1]
    BY <2>1, <2>4, <2>5 DEF App
  <2> QED
    BY <1>0, <2>6, <2>7, KeptInOrder
<1> QED
  BY <1>4, <1>5, <1>6, <1>7, <1>8, <1>9, <1>10, <1>12, <1>13, <1>14
     DEF Next, Exchange, ExAnswer

-----------------------------------------------------------------------------
(* The steps.                                                              *)

\* Commands are only used up, and a retransmission that was commanded is remembered.
LEMMA CommandsSpent ==
    ASSUME TypeOK, Losses, [Next]_vars, ~Commanded'
    PROVE  ~Commanded /\ ~RetransCommand
<1> DEFINE c == "retransCmd"
<1>0. /\ c \in FaultKinds /\ left \in [FaultKinds -> Nat] /\ left[c] \in Nat /\ Faults[c] \in Nat
      /\ left[c] <= Faults[c]
  BY SessionConstants DEF TypeOK, FaultKinds, Losses
<1>1. ASSUME NEW kind \in FaultKinds, Spend(kind)
      PROVE  left'[c] \in Nat /\ left'[c] <= left[c] /\ (kind = c => left'[c] < left[c])
  <2>1. /\ left'[kind] = left[kind] - 1 /\ left[kind] \in Nat \ {0}
        /\ \A k \in FaultKinds \ {kind} : left'[k] = left[k]
    BY <1>1, Spent
  <2> QED
    BY <1>0, <2>1
<1>2. ASSUME UNCHANGED left
      PROVE  left'[c] \in Nat /\ left'[c] <= left[c]
  BY <1>0, <1>2
<1>k. FaultKinds = {"exit", "earlyExit", "close", "refuse", "skip", "retransReject",
                    "negReject", "estReject", "exTerminate", "wipe", "uninit",
                    "retransCmd", "stopCmd"}
  BY DEF FaultKinds
<1> HIDE DEF c
<1>3. UNCHANGED left \/ \E kind \in FaultKinds : Spend(kind)
  <2>1. CASE UNCHANGED vars
    BY <2>1 DEF vars
  <2>2. CASE Launch \/ Connect \/ Close \/ Exit \/ Persist \/ Wipe
    BY <2>2, <1>k DEF Launch, Connect, Close, Exit, Persist, Wipe
  <2>3. CASE Dispatch \/ RetransCommand \/ TerminateCommand
    BY <2>3, <1>k DEF Dispatch, RetransCommand, TerminateCommand
  <2>4. CASE Session
    BY <2>4 DEF Session, OnNegotiationResponse, OnNegotiationReject, OnEstablishmentAck,
                ExitOnAck, OnEstablishmentReject, OnTerminate, OnRetransmitReject
  <2>5. CASE Application
    BY <2>5 DEF Application, InSequence, Gap, TooLow, Drain, NextBatch, Queued, ReplayNext,
                ReplayDone, HandleMessage
  <2>6. CASE ExTerminate \/ \E lost \in BOOLEAN : Publish(lost)
    BY <2>6, <1>k DEF ExTerminate, Publish
  <2>7. CASE ExAnswer
    BY <2>7, <1>k DEF ExAnswer, ExNegotiate, ExEstablish, ExRetransmit, ExIgnore, ExTerminateReply
  <2> QED
    BY <2>1, <2>2, <2>3, <2>4, <2>5, <2>6, <2>7 DEF Next, Exchange
<1>4. left'[c] \in Nat /\ left'[c] <= left[c]
  BY <1>1, <1>2, <1>3
<1>5. ~Commanded
  BY <1>0, <1>4 DEF Commanded, c
<1>6. ~RetransCommand
  <2> SUFFICES ASSUME RetransCommand PROVE FALSE
    OBVIOUS
  <2>1. Spend(c)
    BY DEF RetransCommand, c
  <2>2. left'[c] < left[c]
    BY <1>0, <1>1, <2>1
  <2> QED
    BY <1>0, <1>4, <2>2 DEF Commanded, c
<1> QED
  BY <1>5, <1>6

\* An established session keeps its order until the process ends.
LEMMA NextInSession ==
    ASSUME TypeOK, TypeOK', Paced, Phases, LoggedIn, InSession, [Next]_vars, ~RetransCommand
    PROVE  InSession' \/ Gone
<1>r. ASSUME NEW type, Receive(type)
      PROVE  type \in {"App", "Terminate", "RetransmitReject"}
  BY <1>r, ReceivedLoggedIn
<1>x. ASSUME NEW type, ExReceive(type)
      PROVE  type \in {"RetransmitRequest", "Terminate"}
  <2>1. outbox[1].type = type /\ 1 \in DOMAIN outbox
    BY <1>x, ExReceived
  <2> QED
    BY <2>1 DEF LoggedIn
<1>1. CASE UNCHANGED vars
  BY <1>1 DEF vars, client, InSession, AllSent, LiveIsNew, OneAnswer, WantedInOrder, Waits, Replays,
              Live, Wanted, Refusal, Request, App, Remaining, OpenGap
<1>2. ~Launch /\ ~Connect /\ ~Wipe /\ ~Dispatch
  BY DEF Launch, Connect, Wipe, Dispatch, LoggedIn, Connected
<1>3. CASE Exit
  BY <1>3 DEF Exit
<1>4. CASE Close \/ Persist \/ TerminateCommand \/ ExTerminate
  BY <1>4, QuietInSession
<1>5. CASE Session
  <2>1. /\ ~OnNegotiationResponse /\ ~OnNegotiationReject /\ ~OnEstablishmentAck
        /\ ~OnEstablishmentReject
    BY <1>r DEF OnNegotiationResponse, OnNegotiationReject, OnEstablishmentAck,
                OnEstablishmentReject
  <2>2. CASE ExitOnAck
    BY <2>2 DEF ExitOnAck
  <2> QED
    BY <1>5, <2>1, <2>2, SessionInSession DEF Session
<1>6. CASE Application
  BY <1>6, InSequenceInSession, GapInSession, NeverTooLow, DrainInSession, NextBatchInSession,
     QueuedInSession, ReplayInSession, ReplayDoneInSession, QuietInSession DEF Application
<1>7. CASE \E lost \in BOOLEAN : Publish(lost)
  BY <1>7, PublishInSession
<1>8. CASE ExAnswer
  <2>1. ~ExNegotiate /\ ~ExEstablish
    BY <1>x DEF ExNegotiate, ExEstablish
  <2> QED
    BY <1>8, <2>1, ResentInSession, QuietInSession DEF ExAnswer
<1> QED
  BY <1>1, <1>2, <1>3, <1>4, <1>5, <1>6, <1>7, <1>8 DEF Next, Exchange

\* What is sent, queued and asked for stays in order.
LEMMA NextArrivals ==
    ASSUME TypeOK, TypeOK', Paced, Phases, Arrivals, [Next]_vars, ~RetransCommand
    PROVE  Arrivals'
<1>1. /\ OnEstablishmentAck \/ Stays
      /\ OnEstablishmentAck => LoggingIn /\ Acknowledged /\ LoggedIn'
  BY NextPhases
<1>2. CASE LoggingIn /\ AckedInOrder
  BY <1>1, <1>2, LoginInOrder, AckInSession DEF Arrivals, Stays
<1>3. CASE LoggedIn /\ InSession
  <2>1. ~OnEstablishmentAck
    <3>1. ~Receive("EstablishmentAck")
      BY <1>3, ReceivedLoggedIn
    <3> QED
      BY <3>1 DEF OnEstablishmentAck
  <2>2. CASE Gone
    <3>1. LoggingIn'
      BY <2>2 DEF Gone, LoggingIn, Nothing, Idle, Connected, Starting
    <3>2. AckedInOrder'
      BY <2>2 DEF Gone, AckedInOrder
    <3> QED
      BY <3>1, <3>2 DEF Arrivals
  <2>3. CASE ~Gone
    BY <1>1, <1>3, <2>1, <2>3, NextInSession DEF Stays, Arrivals
  <2> QED
    BY <2>2, <2>3
<1> QED
  BY <1>2, <1>3 DEF Arrivals

\* A step that counts and handles nothing leaves the count.
LEMMA NothingCounted ==
    ASSUME Counted, UNCHANGED <<times, base, inHand>>, sess'.seqIn = sess.seqIn,
           link' # "down" => link # "down"
    PROVE  Counted'
BY DEF Counted

\* A login takes SEQ_IN over and has handled nothing.
LEMMA TakenOver ==
    ASSUME Facts', inHand' = 0, sess'.seqIn = base',
           times' = Fresh
    PROVE  Counted'
<1>1. base' \in Nat
  BY DEF Facts
<1>2. \A x \in Seqs : ~(base' < x /\ x <= base')
  BY <1>1 DEF Seqs
<1>3. \A x \in Seqs : times'[x] = 0
  BY DEF Fresh
<1> QED
  BY <1>1, <1>2, <1>3 DEF Counted

\* During the login nothing was handled.
LEMMA NothingHandled ==
    ASSUME TypeOK, LoggingIn, Counted, link # "down"
    PROVE  times = Fresh /\ inHand = 0
<1>1. base = sess.seqIn /\ inHand = 0 /\ base \in Nat
  BY Numbers DEF LoggingIn, Idle, Facts
<1>2. \A x \in Seqs : ~(base < x /\ x <= base)
  BY <1>1 DEF Seqs
<1>3. \A x \in Seqs : times[x] = 0
  BY <1>1, <1>2 DEF Counted
<1>4. times \in [Seqs -> 0 .. 2]
  BY DEF TypeOK
<1> QED
  BY <1>1, <1>3, <1>4 DEF Fresh

\* The next message is counted, and is the one in hand.
LEMMA OneCounted ==
    ASSUME TypeOK, TypeOK', Counted, link # "down", inHand = 0, UNCHANGED <<times, base>>,
           sess'.seqIn = sess.seqIn + 1, inHand' = sess.seqIn + 1
    PROVE  Counted'
<1>1. sess.seqIn \in Nat /\ base \in Nat
  BY Numbers DEF Facts
<1>2. base <= sess.seqIn /\ \A x \in Seqs : times[x] = IF base < x /\ x <= sess.seqIn THEN 1 ELSE 0
  <2>1. \A x \in Seqs : x # 0
    BY DEF Seqs
  <2> QED
    BY <2>1 DEF Counted
<1>3. \A x \in Seqs : x <= sess.seqIn <=> x <= sess.seqIn + 1 /\ x # sess.seqIn + 1
  BY <1>1 DEF Seqs
<1>4. /\ base' <= sess'.seqIn /\ base' < sess'.seqIn /\ inHand' = sess'.seqIn
  BY <1>1, <1>2
<1>5. \A x \in Seqs :
        times'[x] = IF base' < x /\ x <= sess'.seqIn /\ x # inHand' THEN 1 ELSE 0
  BY <1>2, <1>3
<1> QED
  BY <1>4, <1>5 DEF Counted

\* The message in hand is handled.
LEMMA OneHandled ==
    ASSUME TypeOK, Counted, link # "down", HandleMessage
    PROVE  Counted'
<1>1. /\ inHand # 0 /\ inHand' = 0 /\ UNCHANGED <<sess, base>>
      /\ times' = [times EXCEPT ![inHand] = IF @ < 2 THEN @ + 1 ELSE @]
  BY DEF HandleMessage
<1>2. /\ sess.seqIn \in Nat /\ base \in Nat /\ inHand = sess.seqIn /\ base < sess.seqIn
      /\ \A x \in Seqs : times[x] = IF base < x /\ x <= sess.seqIn /\ x # inHand THEN 1 ELSE 0
  BY <1>1, Numbers DEF Counted, Facts
<1>3. times \in [Seqs -> 0 .. 2] /\ inHand \in Seqs
  BY <1>1, SessionConstants DEF TypeOK, Seqs
<1>4. times[inHand] = 0
  BY <1>2, <1>3
<1>5. times'[inHand] = 1
  BY <1>1, <1>3, <1>4
<1>6. \A x \in Seqs : x # inHand => times'[x] = times[x]
  BY <1>1, <1>3
<1>7. \A x \in Seqs : x # 0
  BY DEF Seqs
<1>8. \A x \in Seqs :
        times'[x] = IF base' < x /\ x <= sess'.seqIn /\ x # inHand' THEN 1 ELSE 0
  BY <1>1, <1>2, <1>5, <1>6, <1>7
<1>9. inHand' \in {0, sess'.seqIn} /\ base' <= sess'.seqIn /\ inHand' = 0
  BY <1>1, <1>2
<1> QED
  BY <1>8, <1>9 DEF Counted

\* What a step does to SEQ_IN and to what was handled: the process ends,
Ends == link' = "down"

\* it starts,
Begins == link = "down" /\ times' = Fresh /\ inHand' = 0 /\ sess'.seqIn = base'

\* the login sets SEQ_IN,
Forces == LoggingIn /\ link # "down" /\ UNCHANGED <<times, inHand>> /\ sess'.seqIn = base'

\* the next message is counted, and is in hand,
Counts ==
    /\ link # "down" /\ inHand = 0 /\ UNCHANGED <<times, base>>
    /\ sess'.seqIn = sess.seqIn + 1 /\ inHand' = sess.seqIn + 1

\* it is handled,
Handles == link # "down" /\ HandleMessage

\* or nothing.
Rests ==
    /\ UNCHANGED <<times, base, inHand>> /\ sess'.seqIn = sess.seqIn
    /\ link' # "down" => link # "down"

LEMMA StepKinds ==
    ASSUME TypeOK, TypeOK', Phases, Arrivals, [Next]_vars
    PROVE  Ends \/ Begins \/ Forces \/ Counts \/ Handles \/ Rests
<1>a. /\ LoggingIn \/ (LoggedIn /\ InSession)
      /\ link = "down" => LoggingIn
  BY DEF Arrivals, LoggedIn, Connected
<1>i. \A type : Receive(type) => link # "down" /\ Idle
  BY DEF Receive
<1>1. CASE UNCHANGED vars
  BY <1>1 DEF vars, client, ghosts, Rests
<1>2. CASE Launch
  <2>1. /\ link = "down" /\ times' = Fresh /\ base' = disk.seqIn /\ inHand' = inHand
        /\ Update(disk) \/ Update([disk EXCEPT !.neg = TRUE])
    BY <1>2 DEF Launch
  <2>2. sess'.seqIn = disk.seqIn
    BY <2>1 DEF Update, TypeOK, Files
  <2>3. inHand' = 0
    BY <1>a, <2>1 DEF LoggingIn, Idle
  <2> QED
    BY <2>1, <2>2, <2>3 DEF Begins
<1>3. CASE Connect \/ Close \/ Persist \/ Wipe
  BY <1>3 DEF Connect, Close, Persist, Wipe, client, ghosts, Rests
<1>4. CASE Exit \/ ExitOnAck
  BY <1>4 DEF Exit, ExitOnAck, Gone, Ends
<1>5. CASE Dispatch
  <2>1. LoggingIn /\ link # "down" /\ UNCHANGED <<times, inHand, link>>
    BY <1>5, <1>a DEF Dispatch, LoggedIn, Connected
  <2>2. CASE UNCHANGED <<sess, base>>
    BY <2>1, <2>2 DEF Rests
  <2>3. CASE NegotiateSession
    <3>1. sess' = [sess EXCEPT !.seqIn = 1] /\ base' = 1 /\ sess \in Files
      BY <2>3 DEF NegotiateSession, Update, TypeOK
    <3>2. sess'.seqIn = base'
      BY <3>1 DEF Files
    <3> QED
      BY <2>1, <3>2 DEF Forces
  <2> QED
    BY <1>5, <2>2, <2>3 DEF Dispatch, EstablishSession
<1>6. CASE RetransCommand \/ TerminateCommand
  BY <1>6 DEF RetransCommand, TerminateCommand, Update, ghosts, Rests
<1>7. CASE OnNegotiationResponse \/ OnNegotiationReject \/ OnTerminate \/ OnRetransmitReject
  <2>1. sess'.seqIn = sess.seqIn
    BY <1>7 DEF OnNegotiationResponse, OnNegotiationReject, OnTerminate, OnRetransmitReject, Update,
                TypeOK, Files
  <2>2. UNCHANGED <<link, times, base, inHand>>
    BY <1>7 DEF OnNegotiationResponse, OnNegotiationReject, OnTerminate, OnRetransmitReject, ghosts
  <2> QED
    BY <2>1, <2>2 DEF Rests
<1>8. CASE OnEstablishmentAck
  <2>1. LoggingIn /\ link # "down" /\ UNCHANGED <<link, times, inHand>>
    <3>1. Receive("EstablishmentAck") /\ UNCHANGED <<link, times, inHand>>
      BY <1>8 DEF OnEstablishmentAck
    <3> QED
      BY <3>1, <1>a, <1>i, ReceivedLoggedIn
  <2> DEFINE s == [sess EXCEPT !.uuid = Head(inbox).uuid, !.prevUuid = Head(inbox).prevUuid]
  <2>2. \/ sess' = [s EXCEPT !.seqIn = 0] /\ base' = 0
        \/ sess' = s /\ base' = base
    BY <1>8, Zenon DEF OnEstablishmentAck, Update
  <2>3. s.seqIn = sess.seqIn /\ [s EXCEPT !.seqIn = 0].seqIn = 0
    BY DEF TypeOK, Files
  <2>4. CASE sess' = [s EXCEPT !.seqIn = 0] /\ base' = 0
    BY <2>1, <2>3, <2>4 DEF Forces
  <2>5. CASE sess' = s /\ base' = base
    BY <2>1, <2>3, <2>5 DEF Rests
  <2> QED
    BY <2>2, <2>4, <2>5
<1>9. CASE OnEstablishmentReject
  <2>1. LoggingIn /\ link # "down" /\ UNCHANGED <<times, inHand>>
    <3>1. Receive("EstablishmentReject") /\ UNCHANGED <<times, inHand>>
      BY <1>9 DEF OnEstablishmentReject
    <3> QED
      BY <3>1, <1>a, <1>i, ReceivedLoggedIn
  <2>2. sess'.seqIn = base'
    BY <1>9 DEF OnEstablishmentReject, Update, TypeOK, Files
  <2> QED
    BY <2>1, <2>2 DEF Forces
<1>10. CASE Application
  <2>0. LoggedIn /\ InSession /\ link # "down"
    BY <1>10, <1>a, ApplicationPhases DEF LoggedIn, Connected
  <2>1. CASE InSequence
    <3>1. /\ inHand = 0 /\ UNCHANGED <<times, base>> /\ inHand' = sess.seqIn + 1
          /\ sess' = [sess EXCEPT !.seqIn = @ + 1] /\ sess \in Files
      BY <2>1, <1>i DEF InSequence, Idle, ghosts, Update, TypeOK
    <3>2. sess'.seqIn = sess.seqIn + 1
      BY <3>1 DEF Files
    <3> QED
      BY <2>0, <3>1, <3>2 DEF Counts
  <2>2. CASE ReplayNext
    <3>1. /\ inHand = 0 /\ UNCHANGED <<times, base>> /\ inHand' = sess.seqIn + 1
          /\ sess' = [sess EXCEPT !.seqIn = @ + 1] /\ sess \in Files
      BY <2>2 DEF ReplayNext, ghosts, Update, TypeOK
    <3>2. sess'.seqIn = sess.seqIn + 1
      BY <3>1 DEF Files
    <3> QED
      BY <2>0, <3>1, <3>2 DEF Counts
  <2>3. CASE HandleMessage
    BY <2>0, <2>3 DEF Handles
  <2>4. CASE Drain
    <3>1. inHand = 0 /\ inHand' = 0 /\ UNCHANGED <<times, base, sess, link>>
      BY <2>0, <2>4, <1>i, DrainInSession DEF Drain, ghosts, Idle
    <3> QED
      BY <3>1 DEF Rests
  <2>5. CASE Gap \/ TooLow \/ NextBatch \/ Queued \/ ReplayDone
    BY <2>5 DEF Gap, TooLow, NextBatch, Queued, ReplayDone, Update, ghosts, Rests
  <2> QED
    BY <1>10, <2>1, <2>2, <2>3, <2>4, <2>5 DEF Application
<1>11. CASE Exchange
  <2>1. UNCHANGED <<sess, inHand, link, times, base>>
    BY <1>11 DEF Exchange, ExAnswer, Publish, ExNegotiate, ExEstablish, ExRetransmit, ExIgnore,
                 ExTerminateReply, ExTerminate, client, ghosts
  <2> QED
    BY <2>1 DEF Rests
<1> QED
  BY <1>1, <1>2, <1>3, <1>4, <1>5, <1>6, <1>7, <1>8, <1>9, <1>10, <1>11 DEF Next, Session

\* SEQ_IN is what was taken over and what was handled since.
LEMMA NextCounted ==
    ASSUME TypeOK, TypeOK', Phases, Arrivals, Counted, [Next]_vars
    PROVE  Counted'
<1>1. Ends \/ Begins \/ Forces \/ Counts \/ Handles \/ Rests
  BY StepKinds
<1>2. Facts'
  BY Numbers
<1>3. CASE Ends
  BY <1>3 DEF Ends, Counted
<1>4. CASE Begins
  BY <1>2, <1>4, TakenOver DEF Begins
<1>5. CASE Forces
  <2>1. times' = Fresh /\ inHand' = 0
    BY <1>5, NothingHandled DEF Forces
  <2> QED
    BY <1>2, <1>5, <2>1, TakenOver DEF Forces
<1>6. CASE Counts
  BY <1>6, OneCounted DEF Counts
<1>7. CASE Handles
  BY <1>7, OneHandled DEF Handles
<1>8. CASE Rests
  BY <1>8, NothingCounted DEF Rests
<1> QED
  BY <1>1, <1>3, <1>4, <1>5, <1>6, <1>7, <1>8

\* The invariant of a session whose exchange keeps pace holds at the start,
LEMMA InitTame == Init => Tame
<1> SUFFICES ASSUME Init PROVE Arrivals /\ Counted
  BY DEF Tame
<1>1. LoggingIn
  BY DEF Init, LoggingIn, Nothing, Idle, Starting
<1>2. AckedInOrder
  BY DEF Init, AckedInOrder
<1> QED
  BY <1>1, <1>2 DEF Arrivals, Counted, Init

\* and every step keeps it.
LEMMA NextTame ==
    Paced /\ TypeOK /\ TypeOK' /\ Phases /\ Losses /\ Tame /\ [Next]_vars => Tame'
<1> SUFFICES ASSUME Paced, TypeOK, TypeOK', Phases, Losses, Tame, [Next]_vars, ~Commanded'
             PROVE  Arrivals' /\ Counted'
  BY DEF Tame
<1>1. ~Commanded /\ ~RetransCommand
  BY CommandsSpent
<1>2. Arrivals /\ Counted
  BY <1>1 DEF Tame
<1> QED
  BY <1>1, <1>2, NextArrivals, NextCounted

-----------------------------------------------------------------------------
(* The session behaves as ordered delivery.                                *)

LEMMA DeliveryFirst == Init => Delivery!Init
BY DEF Init, Delivery!Init, Running, Delivery!Untouched, Fresh

LEMMA StepDelivers ==
    ASSUME Paced, TypeOK, TypeOK', Phases, Losses, Tame, Tame', [Next]_vars
    PROVE  [Delivery!Next]_(Delivery!vars)
<1>1. CASE ~Running'
  BY <1>1 DEF Delivery!Next, Delivery!Stop, Delivery!Untouched, Fresh
<1>2. CASE Running'
  <2>1. link' # "down" /\ ~Commanded /\ Arrivals /\ Counted /\ Counted'
    <3>1. link' # "down" /\ ~Commanded'
      BY <1>2 DEF Running
    <3> QED
      BY <3>1, CommandsSpent DEF Tame
  <2>2. Begins \/ Forces \/ Counts \/ Handles \/ Rests
    BY <2>1, StepKinds DEF Ends
  <2>3. Running <=> link # "down"
    BY <2>1 DEF Running
  <2>4. base' \in Seqs \cup {0} /\ sess'.seqIn \in Seqs \cup {0} /\ inHand \in Seqs \cup {0}
    <3>1. base' \in 0 .. MaxSeq /\ sess'.seqIn \in 0 .. MaxSeq /\ inHand \in 0 .. MaxSeq
      BY DEF TypeOK, Files
    <3> QED
      BY <3>1, SessionConstants DEF Seqs
  <2>5. CASE Begins
    <3>1. Delivery!TakeOver(base')
      BY <1>2, <2>3, <2>5 DEF Begins, Delivery!TakeOver, Delivery!Untouched, Fresh
    <3> QED
      BY <2>4, <3>1 DEF Delivery!Next
  <2>6. CASE Forces
    <3>1. times = Fresh /\ inHand = 0
      BY <2>1, <2>6, NothingHandled DEF Forces
    <3>2. Delivery!TakeOver(base')
      BY <1>2, <2>3, <2>6, <3>1 DEF Forces, Delivery!TakeOver, Delivery!Untouched, Fresh
    <3> QED
      BY <2>4, <3>2 DEF Delivery!Next
  <2>7. CASE Counts
    <3>1. sess.seqIn + 1 \in Seqs
      <4>1. sess.seqIn \in Nat /\ sess'.seqIn = sess.seqIn + 1
        BY <2>7, Numbers DEF Counts, Facts
      <4> QED
        BY <2>4, <4>1
    <3>2. Delivery!Count
      BY <1>2, <2>3, <2>7, <3>1 DEF Counts, Delivery!Count
    <3> QED
      BY <3>2 DEF Delivery!Next
  <2>8. CASE Handles
    <3>1. /\ link # "down" /\ inHand # 0 /\ inHand' = 0 /\ UNCHANGED <<sess, base>>
          /\ times' = [times EXCEPT ![inHand] = IF @ < 2 THEN @ + 1 ELSE @]
      BY <2>8 DEF Handles, HandleMessage
    <3>2. inHand \in Seqs /\ times \in [Seqs -> 0 .. 2]
      BY <2>4, <3>1 DEF TypeOK
    <3>3. times[inHand] = 0
      BY <2>1, <3>1, <3>2 DEF Counted
    <3>4. times' = [times EXCEPT ![inHand] = 1]
      BY <3>1, <3>2, <3>3
    <3>5. Delivery!Handle
      BY <1>2, <2>3, <3>1, <3>3, <3>4 DEF Delivery!Handle
    <3> QED
      BY <3>5 DEF Delivery!Next
  <2>9. CASE Rests
    <3>1. UNCHANGED Delivery!vars
      BY <1>2, <2>1, <2>3, <2>9 DEF Rests, Delivery!vars
    <3> QED
      BY <3>1
  <2> QED
    BY <2>2, <2>5, <2>6, <2>7, <2>8, <2>9
<1> QED
  BY <1>1, <1>2

-----------------------------------------------------------------------------
(* The theorems.                                                           *)

\* Every variable has its type, for every size of a batch and every number of
\* sessions, messages and faults (TypeOK).
THEOREM SessionTypes == Spec => []TypeOK
<1>1. Init => TypeOK
  BY InitTypeOK
<1>2. TypeOK /\ [Next]_vars => TypeOK'
  BY NextTypeOK
<1> QED
  BY <1>1, <1>2, PTL DEF Spec

\* However often it crashes and restarts, at any point, and whatever the state
\* file has kept, each crash loses one received message at most
\* (SetSeqIn before the handlers of ProcessApplicationMessage; SessSvc).
THEOREM RestartsLoseOne == Spec => []RestartLosesOne
<1> DEFINE Inv == TypeOK /\ Phases /\ Losses
<1>1. Init => Inv
  BY InitTypeOK, InitPhases
<1>2. Inv /\ [Next]_vars => Inv'
  BY NextTypeOK, NextPhases, NextLosses
<1>3. Inv => RestartLosesOne
  BY DEF Losses, RestartLosesOne, Missed
<1> QED
  BY <1>1, <1>2, <1>3, PTL DEF Spec

\* Where the exchange keeps pace SEQ_IN says what was done, through any number of gaps,
\* batches, replays, rejects, terminations, reconnections and restarts, and whatever is
\* lost on the way: each message once (CheckIncomingSeq, CheckIncomingSequenceOK, drain).
THEOREM EachHandledOnce == ASSUME Paced PROVE Spec => []HandledExactlyOnce
<1> DEFINE Inv == TypeOK /\ Phases /\ Losses /\ Tame
<1>1. Init => Inv
  BY InitTypeOK, InitPhases, InitTame
<1>2. Inv /\ [Next]_vars => Inv'
  BY NextTypeOK, NextPhases, NextLosses, NextTame
<1>3. Inv => HandledExactlyOnce
  BY DEF Tame, Counted, HandledExactlyOnce
<1> QED
  BY <1>1, <1>2, <1>3, PTL DEF Spec

\* Where the exchange keeps pace a session waits for what it misses, and nothing that comes
\* before it is missing: the drain at the end of a gap finds no hole (GapDetected, the batch
\* edge case of CheckIncomingSequenceOK).
THEOREM WaitsForWhatItMisses == ASSUME Paced PROVE Spec => []WaitsForMissing
<1> DEFINE Inv == TypeOK /\ Phases /\ Losses /\ Tame
<1>1. Init => Inv
  BY InitTypeOK, InitPhases, InitTame
<1>2. Inv /\ [Next]_vars => Inv'
  BY NextTypeOK, NextPhases, NextLosses, NextTame
<1>3. Inv => WaitsForMissing
  <2> SUFFICES ASSUME TypeOK, Tame, st = "WaitingForRetransmission", ~Commanded
               PROVE  /\ gap.end > sess.seqIn
                      /\ ((sess.seqIn + 1) .. (gap.start - 1)) \subseteq recov
    BY DEF WaitsForMissing
  <2>1. Waits
    BY DEF Tame, Arrivals, InSession, LoggingIn
  <2>2. sess.seqIn \in Nat /\ gap.start \in Nat /\ gap.end \in Nat
    BY Numbers DEF Facts
  <2>3. sess.seqIn < gap.start /\ gap.start <= gap.end
    BY <2>1 DEF Waits, OpenGap
  <2>4. \A x \in Nat : sess.seqIn < x /\ x < gap.start => x \in recov
    BY <2>1 DEF Waits
  <2>5. ASSUME NEW x \in (sess.seqIn + 1) .. (gap.start - 1) PROVE x \in recov
    <3>1. x \in Nat /\ sess.seqIn < x /\ x < gap.start
      BY <2>2
    <3> QED
      BY <2>4, <3>1
  <2>6. gap.end > sess.seqIn
    BY <2>2, <2>3
  <2> QED
    BY <2>5, <2>6
<1> QED
  BY <1>1, <1>2, <1>3, PTL DEF Spec

\* Where the exchange keeps pace the session implements ordered delivery, whatever is
\* lost, asked for again, queued, drained or rejected on the way, and however often the
\* process ends and starts: its callers get each message once, in order, and one at a
\* time (CheckIncomingSeq, drain, NegotiateSession, onEstablishAckMsg).
THEOREM SessionImplementsDelivery == ASSUME Paced PROVE Spec => DeliversInOrder
<1> DEFINE Inv == TypeOK /\ Phases /\ Losses /\ Tame
<1>1. Init => Inv /\ Delivery!Init
  BY InitTypeOK, InitPhases, InitTame, DeliveryFirst
<1>2. Inv /\ [Next]_vars => Inv'
  BY NextTypeOK, NextPhases, NextLosses, NextTame
<1>3. Inv /\ Inv' /\ [Next]_vars => [Delivery!Next]_(Delivery!vars)
  BY StepDelivers
<1> QED
  BY <1>1, <1>2, <1>3, PTL DEF Spec, DeliversInOrder, Delivery!Spec

=============================================================================
