-------------------------- MODULE CfeSessionProofs --------------------------
(***************************************************************************)
(* The session of the CFE handler, for any number of messages, days,       *)
(* mishaps and commands: a message handled twice is flagged, a reset       *)
(* starts from 0, and no message is passed over.                           *)
(***************************************************************************)
EXTENDS CfeSession, SequenceTheorems, TLAPS

Sent == [type : Types, n : 0 .. MaxMsgs, day : 1 .. MaxDays]

Data(m) == m.type \in {"app", "replay"}
Today(m) == Data(m) /\ m.day = ex.day
Plain(m) == m.type \in {"ahead", "rejected", "logout", "closed"}

\* The messages of the day come in the order of their numbers; the live ones
\* were never handled, and the replayed ones come before the end of the replay.
InOrder ==
    /\ \A i \in DOMAIN wire : wire[i].day <= ex.day /\ (Data(wire[i]) => wire[i].n >= 1)
    /\ \A i \in DOMAIN wire : Today(wire[i]) => wire[i].n <= ex.seq
    /\ \A i, j \in DOMAIN wire :
          i < j /\ Today(wire[i]) /\ Today(wire[j]) => wire[i].n < wire[j].n

LiveIsNew ==
    \A i \in DOMAIN wire :
       Today(wire[i]) /\ wire[i].type = "app" => handled[wire[i].n] = 0

ReplayIsOn ==
    /\ \A i \in DOMAIN wire :
          Today(wire[i]) /\ wire[i].type = "replay" => ~replayComplete
    /\ \A i, j \in DOMAIN wire :
          i < j /\ wire[i].type = "complete" /\ Today(wire[j]) => wire[j].type # "replay"

\* The same of the message in hand, which is before those of the wire.
Hand ==
    msg # None =>
        /\ msg.day <= ex.day
        /\ Today(msg) =>
              /\ msg.n <= ex.seq
              /\ msg.type = "app" => handled[msg.n] = 0
              /\ msg.type = "replay" => ~replayComplete
              /\ \A i \in DOMAIN wire : Today(wire[i]) => msg.n < wire[i].n

NothingEarly == \A n \in 1 .. MaxMsgs : n > ex.seq => handled[n] = 0

Flow == InOrder /\ LiveIsNew /\ ReplayIsOn /\ Hand /\ NothingEarly

\* Until a login is accepted nothing of an older connection is left to handle.
Connecting ==
    /\ ex.conn \in {"open", "asked"} => \A i \in DOMAIN wire : Plain(wire[i])
    /\ ex.conn = "asked" => msg = None /\ ~replayComplete

\* While a reset is under way the last number on its way to the file is 0.
Resetting ==
    step["poll"] # "idle" =>
        /\ seqIn.n = 0
        /\ saves = <<>> => file.n = 0
        /\ saves # <<>> => saves[Len(saves)].n = 0

\* The inductive invariant.
IInv == TypeOK /\ Flow /\ Connecting /\ Resetting

-----------------------------------------------------------------------------
(* Sequences.                                                              *)

\* Taking the head of a sequence shifts the rest by one.
LEMMA TailShifts ==
    ASSUME NEW S, NEW s \in Seq(S), s # <<>>
    PROVE  /\ Tail(s) \in Seq(S) /\ Head(s) \in S /\ Head(s) = s[1] /\ 1 \in DOMAIN s
           /\ Len(s) \in Nat \ {0} /\ Len(Tail(s)) = Len(s) - 1
           /\ \A i \in DOMAIN Tail(s) :
                i \in Nat \ {0} /\ i + 1 \in DOMAIN s /\ Tail(s)[i] = s[i + 1]
<1>1. Len(s) \in Nat \ {0} /\ DOMAIN s = 1 .. Len(s)
  BY EmptySeq, LenProperties
<1>2. DOMAIN Tail(s) = 1 .. Len(s) - 1 /\ Tail(s) \in Seq(S) /\ Len(Tail(s)) = Len(s) - 1
  BY HeadTailProperties, LenProperties
<1> QED
  BY <1>1, <1>2, HeadTailProperties

\* An appended element is the last, the others keep their places.
LEMMA AppendAdds ==
    ASSUME NEW S, NEW s \in Seq(S), NEW x \in S
    PROVE  /\ Append(s, x) \in Seq(S) /\ Append(s, x) # <<>>
           /\ Len(s) \in Nat /\ DOMAIN s = 1 .. Len(s)
           /\ Len(Append(s, x)) = Len(s) + 1 /\ Append(s, x)[Len(s) + 1] = x
           /\ \A i \in DOMAIN Append(s, x) :
                \/ i \in DOMAIN s /\ Append(s, x)[i] = s[i]
                \/ i = Len(s) + 1 /\ Append(s, x)[i] = x
BY AppendProperties, LenProperties, EmptySeq

\* A prefix has the first elements at their places.
LEMMA PrefixKeeps ==
    ASSUME NEW S, NEW s \in Seq(S), NEW k \in 0 .. Len(s)
    PROVE  /\ Prefix(s, k) \in Seq(S)
           /\ \A i \in DOMAIN Prefix(s, k) : i \in DOMAIN s /\ Prefix(s, k)[i] = s[i]
BY SubSeqProperties, LenProperties DEF Prefix

\* An element of a concatenation is one of either part.
LEMMA ConcatAdds ==
    ASSUME NEW S, NEW s \in Seq(S), NEW t \in Seq(S)
    PROVE  /\ s \o t \in Seq(S)
           /\ Len(s) \in Nat /\ DOMAIN s = 1 .. Len(s)
           /\ Len(t) \in Nat /\ DOMAIN t = 1 .. Len(t)
           /\ DOMAIN (s \o t) = 1 .. Len(s) + Len(t)
           /\ \A i \in DOMAIN (s \o t) :
                \/ i \in DOMAIN s /\ (s \o t)[i] = s[i]
                \/ i > Len(s) /\ i - Len(s) \in DOMAIN t /\ (s \o t)[i] = t[i - Len(s)]
<1>1. s \o t \in Seq(S) /\ Len(s \o t) = Len(s) + Len(t)
  BY ConcatProperties
<1>2. /\ Len(s) \in Nat /\ DOMAIN s = 1 .. Len(s) /\ Len(t) \in Nat /\ DOMAIN t = 1 .. Len(t)
      /\ DOMAIN (s \o t) = 1 .. Len(s) + Len(t)
  BY <1>1, LenProperties
<1>3. \A i \in 1 .. Len(s) + Len(t) : (s \o t)[i] = IF i <= Len(s) THEN s[i] ELSE t[i - Len(s)]
  BY ConcatProperties
<1> QED
  BY <1>1, <1>2, <1>3

\* w is s, a, b and c one after the other.
Parts(w, s, a, b, c) ==
    LET j == Len(s)
        k == j + Len(a)
        l == k + Len(b)
    IN  \A i \in DOMAIN w :
          \/ i \in 1 .. j /\ w[i] = s[i]
          \/ i > j /\ i - j \in DOMAIN a /\ w[i] = a[i - j]
          \/ i > k /\ i - k \in DOMAIN b /\ w[i] = b[i - k]
          \/ i > l /\ i - l \in DOMAIN c /\ w[i] = c[i - l]

\* The same for four parts.
LEMMA ConcatsAdd ==
    ASSUME NEW S, NEW s \in Seq(S), NEW a \in Seq(S), NEW b \in Seq(S), NEW c \in Seq(S)
    PROVE  s \o a \o b \o c \in Seq(S) /\ Parts(s \o a \o b \o c, s, a, b, c)
<1> DEFINE u == s \o a
           v == u \o b
           w == v \o c
           j == Len(s)
           k == j + Len(a)
           l == k + Len(b)
<1>1. /\ j \in Nat /\ Len(a) \in Nat /\ Len(b) \in Nat
      /\ DOMAIN s = 1 .. j /\ DOMAIN a = 1 .. Len(a) /\ DOMAIN b = 1 .. Len(b)
  BY LenProperties
<1>2. /\ u \in Seq(S) /\ DOMAIN u = 1 .. Len(s) + Len(a)
      /\ \A i \in DOMAIN u :
           \/ i \in DOMAIN s /\ u[i] = s[i]
           \/ i > Len(s) /\ i - Len(s) \in DOMAIN a /\ u[i] = a[i - Len(s)]
  BY ConcatAdds
<1>3. Len(u) = k
  BY ConcatProperties
<1> HIDE DEF u
<1>4. /\ v \in Seq(S) /\ DOMAIN v = 1 .. Len(u) + Len(b)
      /\ \A i \in DOMAIN v :
           \/ i \in DOMAIN u /\ v[i] = u[i]
           \/ i > Len(u) /\ i - Len(u) \in DOMAIN b /\ v[i] = b[i - Len(u)]
  BY <1>2, ConcatAdds
<1>5. Len(v) = Len(u) + Len(b)
  BY <1>2, ConcatProperties
<1> HIDE DEF v
<1>6. /\ w \in Seq(S)
      /\ \A i \in DOMAIN w :
           \/ i \in DOMAIN v /\ w[i] = v[i]
           \/ i > Len(v) /\ i - Len(v) \in DOMAIN c /\ w[i] = c[i - Len(v)]
  BY <1>4, ConcatAdds
<1>7. k \in Nat /\ l \in Nat /\ Len(v) = l
  BY <1>1, <1>3, <1>5
<1> HIDE DEF w, j, k, l
<1>8. \A i \in DOMAIN v :
        \/ i \in 1 .. j /\ v[i] = s[i]
        \/ i > j /\ i - j \in DOMAIN a /\ v[i] = a[i - j]
        \/ i > k /\ i - k \in DOMAIN b /\ v[i] = b[i - k]
  BY <1>1, <1>2, <1>3, <1>4 DEF j
<1>9. \A i \in DOMAIN w :
        \/ i \in 1 .. j /\ w[i] = s[i]
        \/ i > j /\ i - j \in DOMAIN a /\ w[i] = a[i - j]
        \/ i > k /\ i - k \in DOMAIN b /\ w[i] = b[i - k]
        \/ i > l /\ i - l \in DOMAIN c /\ w[i] = c[i - l]
  BY <1>6, <1>7, <1>8
<1> QED
  BY <1>6, <1>9 DEF u, v, w, j, k, l, Parts

\* What is queued for the state file is the last entry, if it was not already.
LEMMA Queued ==
    ASSUME TypeOK, NEW q \in Numbers,
           saves' = IF saves # <<>> /\ saves[Len(saves)] = q THEN saves ELSE Append(saves, q)
    PROVE  /\ saves' \in Seq(Numbers) /\ saves' # <<>>
           /\ saves'[Len(saves')] = q
<1>1. saves \in Seq(Numbers)
  BY DEF TypeOK
<1>2. CASE saves # <<>> /\ saves[Len(saves)] = q
  BY <1>1, <1>2
<1>3. CASE ~(saves # <<>> /\ saves[Len(saves)] = q)
  <2>1. saves' = Append(saves, q)
    BY <1>3
  <2> QED
    BY <1>1, <2>1, AppendAdds
<1> QED
  BY <1>2, <1>3

-----------------------------------------------------------------------------
(* What happens to the messages.                                           *)

\* Messages are lost, and others that carry no data are added.
LEMMA LosingKeepsFlow ==
    ASSUME TypeOK, Flow,
           \A i \in DOMAIN wire' :
              \/ i \in DOMAIN wire /\ wire'[i] = wire[i]
              \/ Plain(wire'[i]) /\ wire'[i].day <= ex.day,
           ex'.seq = ex.seq, ex'.day = ex.day, handled' = handled,
           msg' \in {msg, None}, replayComplete' \in {replayComplete, FALSE}
    PROVE  Flow'
<1> USE DEF Today, Data, Plain
<1>1. InOrder'
  BY DEF Flow, InOrder
<1>2. LiveIsNew'
  BY DEF Flow, LiveIsNew
<1>3. ReplayIsOn'
  <2>1. ~replayComplete => ~replayComplete'
    OBVIOUS
  <2>2. \A i \in DOMAIN wire' : Today(wire[i])' /\ wire'[i].type = "replay" => ~replayComplete'
    BY <2>1 DEF Flow, ReplayIsOn
  <2>3. \A i, j \in DOMAIN wire' :
          i < j /\ wire'[i].type = "complete" /\ Today(wire[j])' => wire'[j].type # "replay"
    BY DEF Flow, ReplayIsOn
  <2> QED
    BY <2>2, <2>3 DEF ReplayIsOn
<1>4. Hand'
  BY DEF Flow, Hand
<1>5. NothingEarly'
  BY DEF Flow, NothingEarly
<1> QED
  BY <1>1, <1>2, <1>3, <1>4, <1>5 DEF Flow

\* A message without data is taken from the wire; the end of the replay is one.
LEMMA TakingKeepsFlow ==
    ASSUME TypeOK, Flow, wire # <<>>, wire' = Tail(wire), ~Data(Head(wire)),
           ex' = ex, handled' = handled, msg' = None,
           (replayComplete' = replayComplete) \/ Head(wire).type = "complete"
    PROVE  Flow'
<1> USE DEF Today, Data
<1>1. wire \in Seq(Sent)
  BY DEF TypeOK, Sent
<1>2. /\ Head(wire) = wire[1] /\ 1 \in DOMAIN wire
      /\ \A i \in DOMAIN wire' : i \in Nat \ {0} /\ i + 1 \in DOMAIN wire /\ wire'[i] = wire[i + 1]
  BY <1>1, TailShifts
<1>3. InOrder'
  BY <1>2 DEF Flow, InOrder
<1>4. LiveIsNew'
  BY <1>2 DEF Flow, LiveIsNew
<1>5. ReplayIsOn'
  BY <1>2 DEF Flow, ReplayIsOn
<1>6. Hand' /\ NothingEarly'
  BY DEF Flow, Hand, NothingEarly
<1> QED
  BY <1>3, <1>4, <1>5, <1>6 DEF Flow

\* CheckIncomingSeq passes a message: it is in hand.
LEMMA PassingKeepsFlow ==
    ASSUME TypeOK, Flow, msg = None, wire # <<>>, wire' = Tail(wire), Data(Head(wire)),
           ex' = ex, handled' = handled, msg' = Head(wire), replayComplete' = replayComplete
    PROVE  Flow' /\ msg' \in [type : {"app", "replay"}, n : 1 .. MaxMsgs, day : 1 .. MaxDays]
<1> USE DEF Today, Data
<1>1. wire \in Seq(Sent)
  BY DEF TypeOK, Sent
<1>2. /\ Head(wire) = wire[1] /\ 1 \in DOMAIN wire /\ Head(wire) \in Sent
      /\ \A i \in DOMAIN wire' : i \in Nat \ {0} /\ i + 1 \in DOMAIN wire /\ wire'[i] = wire[i + 1]
  BY <1>1, TailShifts
<1>3. InOrder'
  BY <1>2 DEF Flow, InOrder
<1>4. LiveIsNew'
  BY <1>2 DEF Flow, LiveIsNew
<1>5. ReplayIsOn'
  BY <1>2 DEF Flow, ReplayIsOn
<1>6. Hand'
  <2>1. \A i \in DOMAIN wire' : Today(wire[1]) /\ Today(wire'[i]) => wire[1].n < wire'[i].n
    BY <1>2 DEF Flow, InOrder
  <2> QED
    BY <1>2, <2>1 DEF Flow, Hand, InOrder, LiveIsNew, ReplayIsOn
<1>7. NothingEarly'
  BY DEF Flow, NothingEarly
<1>8. msg' \in [type : {"app", "replay"}, n : 1 .. MaxMsgs, day : 1 .. MaxDays]
  BY <1>2 DEF Flow, InOrder, Sent
<1> QED
  BY <1>3, <1>4, <1>5, <1>6, <1>7, <1>8 DEF Flow

\* The message in hand is handled.
LEMMA HandlingKeepsFlow ==
    ASSUME TypeOK, Flow, ProcessApplicationMessage
    PROVE  Flow'
<1> USE DEF Today, Data, ProcessApplicationMessage
<1>1. /\ msg.n \in 1 .. MaxMsgs /\ msg.type \in {"app", "replay"} /\ None.n = 0
      /\ handled \in [1 .. MaxMsgs -> 0 .. 2]
  BY DEF TypeOK, None
<1>2. \A n \in 1 .. MaxMsgs : handled'[n] # handled[n] => n = msg.n /\ msg.day = ex.day
  BY <1>1
<1>3. UNCHANGED <<wire, ex, replayComplete>> /\ msg' = None
  BY DEF seen
<1>4. InOrder' /\ ReplayIsOn' /\ Hand'
  BY <1>3 DEF Flow, InOrder, ReplayIsOn, Hand
<1>5. LiveIsNew'
  <2> SUFFICES ASSUME NEW i \in DOMAIN wire, Today(wire[i]), wire[i].type = "app"
               PROVE  handled'[wire[i].n] = 0
    BY <1>3 DEF LiveIsNew
  <2>1. wire[i].n \in 1 .. MaxMsgs /\ handled[wire[i].n] = 0
    <3>1. wire[i] \in Sent
      <4>1. wire \in Seq(Sent)
        BY DEF TypeOK, Sent
      <4> QED
        BY <4>1, ElementOfSeq, LenProperties
    <3> QED
      BY <3>1 DEF Flow, LiveIsNew, InOrder, Sent
  <2>2. msg.day = ex.day => msg.n < wire[i].n
    BY <1>1 DEF Flow, Hand
  <2> QED
    BY <1>1, <1>2, <2>1, <2>2
<1>6. NothingEarly'
  BY <1>1, <1>2, <1>3 DEF Flow, NothingEarly, Hand, TypeOK
<1> QED
  BY <1>4, <1>5, <1>6 DEF Flow

\* A message of the day is published.
LEMMA PublishKeepsFlow ==
    ASSUME IInv, Publish
    PROVE  Flow' /\ wire' \in Seq(Sent)
<1> USE DEF Today, Data
<1> DEFINE m == Message("app", ex.seq + 1)
<1>1. /\ wire \in Seq(Sent) /\ ex.seq \in 0 .. MaxMsgs /\ ex.day \in 1 .. MaxDays
      /\ ex.seq + 1 \in 1 .. MaxMsgs
      /\ ex' = [ex EXCEPT !.seq = ex.seq + 1] /\ ex'.seq = ex.seq + 1 /\ ex'.day = ex.day
      /\ UNCHANGED <<handled, msg, replayComplete>>
  BY CfeConstants DEF IInv, TypeOK, Sent, Publish, seen
<1>2. m \in Sent /\ m.type = "app" /\ m.n = ex.seq + 1 /\ m.day = ex.day
  BY <1>1 DEF Sent, Message, Types
<1>3. handled[m.n] = 0
  BY <1>1, <1>2, CfeConstants DEF IInv, Flow, NothingEarly
<1>4. wire' = wire \/ wire' = Append(wire, m)
  BY DEF Publish
<1> HIDE DEF m
<1>5. /\ wire' \in Seq(Sent)
      /\ DOMAIN wire = 1 .. Len(wire) /\ Len(wire) \in Nat
      /\ \A i \in DOMAIN wire' :
            \/ i \in DOMAIN wire /\ wire'[i] = wire[i]
            \/ i = Len(wire) + 1 /\ wire'[i] = m
  <2>1. DOMAIN wire = 1 .. Len(wire) /\ Len(wire) \in Nat
    BY <1>1, LenProperties
  <2>2. CASE wire' = wire
    BY <1>1, <2>1, <2>2
  <2>3. CASE wire' = Append(wire, m)
    BY <1>1, <1>2, <2>1, <2>3, AppendAdds
  <2> QED
    BY <1>4, <2>1, <2>2, <2>3
<1>6. InOrder'
  <2>1. \A i \in DOMAIN wire : wire[i] \in Sent
    BY <1>1, <1>5, ElementOfSeq
  <2>2. \A i \in DOMAIN wire' : wire'[i].day <= ex'.day /\ (Data(wire'[i]) => wire'[i].n >= 1)
    BY <1>1, <1>2, <1>5 DEF IInv, Flow, InOrder
  <2>3. \A i \in DOMAIN wire' : Today(wire[i])' => wire'[i].n <= ex'.seq
    <3>1. \A i \in DOMAIN wire : wire[i].n \in Nat
      BY <2>1 DEF Sent
    <3>2. \A i \in DOMAIN wire : Today(wire[i]) => wire[i].n <= ex.seq
      BY DEF IInv, Flow, InOrder
    <3> QED
      BY <1>1, <1>2, <1>5, <3>1, <3>2, SMTT(30)
  <2>4. \A i, j \in DOMAIN wire' :
          i < j /\ Today(wire[i])' /\ Today(wire[j])' => wire'[i].n < wire'[j].n
    <3>1. \A i \in DOMAIN wire : Today(wire[i]) => wire[i].n \in Nat /\ wire[i].n <= ex.seq
      BY <2>1 DEF IInv, Flow, InOrder, Sent
    <3>2. \A i, j \in DOMAIN wire :
            i < j /\ Today(wire[i]) /\ Today(wire[j]) => wire[i].n < wire[j].n
      BY DEF IInv, Flow, InOrder
    <3>3. SUFFICES ASSUME NEW i \in DOMAIN wire', NEW j \in DOMAIN wire', i < j,
                          Today(wire[i])', Today(wire[j])'
                   PROVE  wire'[i].n < wire'[j].n
      OBVIOUS
    <3>4. i \in DOMAIN wire /\ wire'[i] = wire[i]
      <4>1. i # Len(wire) + 1
        <5>1. j \in 1 .. Len(wire) + 1
          BY <1>5
        <5> QED
          BY <1>5, <3>3, <5>1
      <4> QED
        BY <1>5, <4>1
    <3>5. CASE j \in DOMAIN wire /\ wire'[j] = wire[j]
      BY <1>1, <3>2, <3>3, <3>4, <3>5
    <3>6. CASE wire'[j] = m
      BY <1>1, <1>2, <3>1, <3>3, <3>4, <3>6
    <3> QED
      BY <1>5, <3>5, <3>6
  <2> QED
    BY <2>2, <2>3, <2>4 DEF InOrder
<1>7. LiveIsNew'
  BY <1>1, <1>2, <1>3, <1>5 DEF IInv, Flow, LiveIsNew
<1>8. ReplayIsOn'
  BY <1>1, <1>2, <1>5 DEF IInv, Flow, ReplayIsOn
<1>9. Hand'
  <2> SUFFICES ASSUME msg # None, Today(msg)
               PROVE  /\ msg.n <= ex.seq + 1
                      /\ \A i \in DOMAIN wire' : Today(wire[i])' => msg.n < wire'[i].n
    BY <1>1 DEF IInv, Flow, Hand
  <2>1. msg.n \in Nat /\ msg.n <= ex.seq
    BY DEF IInv, TypeOK, Flow, Hand
  <2>2. \A i \in DOMAIN wire : Today(wire[i]) => msg.n < wire[i].n
    BY DEF IInv, Flow, Hand
  <2>3. ASSUME NEW i \in DOMAIN wire', Today(wire[i])'
        PROVE  msg.n < wire'[i].n
    <3>1. CASE i \in DOMAIN wire /\ wire'[i] = wire[i]
      BY <1>1, <2>2, <2>3, <3>1
    <3>2. CASE wire'[i] = m
      BY <1>1, <1>2, <2>1, <3>2
    <3> QED
      BY <1>5, <3>1, <3>2
  <2> QED
    BY <1>1, <2>1, <2>3
<1>10. NothingEarly'
  BY <1>1 DEF IInv, Flow, NothingEarly
<1> QED
  BY <1>5, <1>6, <1>7, <1>8, <1>9, <1>10 DEF Flow

\* How many messages a login that is accepted has missed.
Missed == IF ex.seq - ex.asked.n > 0 THEN ex.seq - ex.asked.n ELSE 0

\* They are messages of the day.
LEMMA MissedIs ==
    ASSUME TypeOK
    PROVE  Missed \in Nat /\ \A i \in 1 .. Missed : ex.asked.n + i \in 1 .. ex.seq
<1>1. ex.seq \in Nat /\ ex.asked.n \in Nat
  BY CfeConstants DEF TypeOK, Numbers
<1>2. CASE ex.seq - ex.asked.n > 0
  <2>1. Missed = ex.seq - ex.asked.n
    BY <1>2 DEF Missed
  <2> QED
    BY <1>1, <1>2, <2>1
<1>3. CASE ~(ex.seq - ex.asked.n > 0)
  <2>1. Missed = 0
    BY <1>3 DEF Missed
  <2> QED
    BY <1>1, <2>1
<1> QED
  BY <1>2, <1>3

\* The answer to a login, what the client missed, and the end of the replay
\* come after what was on the wire.
AnswerSent ==
    LET L == Len(wire) IN
    /\ wire' \in Seq(Sent) /\ DOMAIN wire' = 1 .. L + 1 + Missed + 1
    /\ \A i \in DOMAIN wire' :
          \/ i \in 1 .. L /\ wire'[i] = wire[i]
          \/ i = L + 1 /\ wire'[i] = Message("login", ex.seq)
          \/ /\ i > L + 1 /\ i - (L + 1) \in 1 .. Missed
             /\ wire'[i] = Message("replay", ex.asked.n + (i - (L + 1)))
          \/ i = L + 1 + Missed + 1 /\ wire'[i] = Message("complete", 0)

\* They are sent when a login is accepted.
LEMMA AcceptSends ==
    ASSUME TypeOK, AcceptLogin
    PROVE  AnswerSent
<1> DEFINE replay == [i \in 1 .. Missed |-> Message("replay", ex.asked.n + i)]
           login == <<Message("login", ex.seq)>>
           end == <<Message("complete", 0)>>
           L == Len(wire)
<1>1. /\ wire \in Seq(Sent) /\ ex.seq \in 0 .. MaxMsgs /\ ex.day \in 1 .. MaxDays
      /\ ex.asked.n \in 0 .. MaxMsgs /\ MaxMsgs \in Nat
  BY CfeConstants DEF TypeOK, Numbers, Sent
<1>2. wire' = wire \o login \o replay \o end
  BY DEF AcceptLogin, Missed
<1>3. Missed \in Nat /\ \A i \in 1 .. Missed : ex.asked.n + i \in 1 .. ex.seq
  BY MissedIs
<1>4. /\ login \in Seq(Sent) /\ end \in Seq(Sent) /\ replay \in Seq(Sent)
      /\ Len(login) = 1 /\ Len(end) = 1 /\ Len(replay) = Missed
      /\ login[1] = Message("login", ex.seq) /\ end[1] = Message("complete", 0)
      /\ \A i \in 1 .. Missed : replay[i] = Message("replay", ex.asked.n + i)
  <2>1. Message("login", ex.seq) \in Sent /\ Message("complete", 0) \in Sent
    BY <1>1, CfeConstants DEF Message, Sent, Types
  <2>2. \A n \in 1 .. ex.seq : Message("replay", n) \in Sent
    BY <1>1, CfeConstants DEF Message, Sent, Types
  <2>3. replay \in [1 .. Missed -> Sent]
    BY <1>3, <2>2
  <2>4. replay \in Seq(Sent)
    BY <1>3, <2>3, SeqDef
  <2>5. Len(replay) = Missed
    BY <1>3, <2>3, <2>4, LenProperties
  <2>6. login \in Seq(Sent) /\ Len(login) = 1 /\ login[1] = Message("login", ex.seq)
    BY <2>1
  <2>7. end \in Seq(Sent) /\ Len(end) = 1 /\ end[1] = Message("complete", 0)
    BY <2>1
  <2>8. \A i \in 1 .. Missed : replay[i] = Message("replay", ex.asked.n + i)
    OBVIOUS
  <2> QED
    BY <2>4, <2>5, <2>6, <2>7, <2>8
<1> HIDE DEF replay, login, end
<1>5. L \in Nat /\ DOMAIN wire = 1 .. L
  BY <1>1, LenProperties
<1>6. wire' \in Seq(Sent) /\ Parts(wire', wire, login, replay, end)
  BY <1>1, <1>2, <1>4, ConcatsAdd
<1>7. DOMAIN wire' = 1 .. L + 1 + Missed + 1
  <2> DEFINE u == wire \o login
             v == u \o replay
  <2>1. u \in Seq(Sent) /\ Len(u) = L + Len(login)
    BY <1>1, <1>4, ConcatProperties
  <2> HIDE DEF u
  <2>2. v \in Seq(Sent) /\ Len(v) = Len(u) + Len(replay)
    BY <1>4, <2>1, ConcatProperties
  <2> HIDE DEF v
  <2>3. Len(v \o end) = Len(v) + Len(end)
    BY <1>4, <2>2, ConcatProperties
  <2>4. wire' = v \o end
    BY <1>2 DEF u, v
  <2>5. Len(wire') = L + 1 + Missed + 1
    BY <1>4, <2>1, <2>2, <2>3, <2>4
  <2> QED
    BY <1>6, <2>5, LenProperties
<1>8. DOMAIN login = 1 .. 1 /\ DOMAIN end = 1 .. 1 /\ DOMAIN replay = 1 .. Missed
  BY <1>4, LenProperties
<1>9. \A i \in DOMAIN wire' :
        \/ i \in 1 .. L /\ wire'[i] = wire[i]
        \/ i > L /\ i - L \in 1 .. 1 /\ wire'[i] = login[i - L]
        \/ i > L + 1 /\ i - (L + 1) \in 1 .. Missed /\ wire'[i] = replay[i - (L + 1)]
        \/ i > L + 1 + Missed /\ i - (L + 1 + Missed) \in 1 .. 1
           /\ wire'[i] = end[i - (L + 1 + Missed)]
  BY <1>4, <1>6, <1>8 DEF Parts
<1> HIDE DEF L
<1>10. SUFFICES ASSUME NEW i \in DOMAIN wire'
                PROVE  \/ i \in 1 .. L /\ wire'[i] = wire[i]
                       \/ i = L + 1 /\ wire'[i] = Message("login", ex.seq)
                       \/ /\ i > L + 1 /\ i - (L + 1) \in 1 .. Missed
                          /\ wire'[i] = Message("replay", ex.asked.n + (i - (L + 1)))
                       \/ i = L + 1 + Missed + 1 /\ wire'[i] = Message("complete", 0)
  BY <1>6, <1>7 DEF AnswerSent, L
<1>11. i \in Int
  BY <1>3, <1>5, <1>7
<1>12. CASE i > L /\ i - L \in 1 .. 1 /\ wire'[i] = login[i - L]
  <2>1. i = L + 1 /\ i - L = 1
    BY <1>5, <1>11, <1>12
  <2> QED
    BY <1>4, <1>12, <2>1
<1>13. CASE i > L + 1 + Missed /\ i - (L + 1 + Missed) \in 1 .. 1
            /\ wire'[i] = end[i - (L + 1 + Missed)]
  <2>1. i = L + 1 + Missed + 1 /\ i - (L + 1 + Missed) = 1
    BY <1>3, <1>5, <1>11, <1>13
  <2> QED
    BY <1>4, <1>13, <2>1
<1> QED
  BY <1>4, <1>9, <1>12, <1>13

\* The answer to a login, the replay and its end.
LEMMA AcceptKeepsFlow ==
    ASSUME IInv, AcceptLogin
    PROVE  Flow' /\ wire' \in Seq(Sent)
<1> USE DEF Today, Data
<1> DEFINE L == Len(wire)
<1>1. /\ ex.conn = "asked" /\ wire \in Seq(Sent) /\ ex.seq \in 0 .. MaxMsgs
      /\ ex.day \in 1 .. MaxDays /\ ex.asked.n \in 0 .. MaxMsgs
      /\ ex'.seq = ex.seq /\ ex'.day = ex.day
      /\ UNCHANGED <<handled, msg, replayComplete>>
  BY CfeConstants DEF IInv, TypeOK, Numbers, Sent, AcceptLogin, seen
<1>2. AnswerSent
  BY AcceptSends DEF IInv
<1>3. Missed \in Nat /\ \A i \in 1 .. Missed : ex.asked.n + i \in 1 .. ex.seq
  BY MissedIs DEF IInv
<1>5. L \in Nat /\ DOMAIN wire = 1 .. L
  BY <1>1, LenProperties
<1>6. /\ wire' \in Seq(Sent)
      /\ \A i \in DOMAIN wire' :
           \/ i \in 1 .. L /\ wire'[i] = wire[i]
           \/ i = L + 1 /\ wire'[i] = Message("login", ex.seq)
           \/ /\ i > L + 1 /\ i - (L + 1) \in 1 .. Missed
              /\ wire'[i] = Message("replay", ex.asked.n + (i - (L + 1)))
           \/ i = L + 1 + Missed + 1 /\ wire'[i] = Message("complete", 0)
  BY <1>2 DEF AnswerSent
<1> HIDE DEF L
<1>7. /\ \A i \in DOMAIN wire : Plain(wire[i]) /\ wire[i].day <= ex.day
      /\ msg = None /\ ~replayComplete
  BY <1>1 DEF IInv, Connecting, Flow, InOrder
\* A message of the day in the new wire is one of the replay.
<1>8. \A i \in DOMAIN wire' :
        /\ wire'[i].day <= ex.day
        /\ Data(wire'[i]) =>
             /\ wire'[i].type = "replay" /\ wire'[i].n = ex.asked.n + (i - (L + 1))
             /\ wire'[i].n \in 1 .. ex.seq /\ i < L + 1 + Missed + 1 /\ i \in Nat
        /\ wire'[i].type = "complete" => i = L + 1 + Missed + 1
  <2> TAKE i \in DOMAIN wire'
  <2>1. CASE i \in 1 .. L /\ wire'[i] = wire[i]
    BY <1>5, <1>7, <2>1 DEF Plain
  <2>2. CASE i = L + 1 /\ wire'[i] = Message("login", ex.seq)
    BY <1>1, <1>5, <2>2 DEF Message
  <2>3. CASE /\ i > L + 1 /\ i - (L + 1) \in 1 .. Missed
             /\ wire'[i] = Message("replay", ex.asked.n + (i - (L + 1)))
    <3>1. i \in Nat
      BY <1>6, LenProperties
    <3> QED
      BY <1>1, <1>3, <1>5, <2>3, <3>1 DEF Message
  <2>4. CASE i = L + 1 + Missed + 1 /\ wire'[i] = Message("complete", 0)
    BY <1>1, <1>5, <2>4 DEF Message
  <2> QED
    BY <1>6, <2>1, <2>2, <2>3, <2>4
<1>9. DOMAIN wire' \subseteq Nat
  BY <1>6, LenProperties
<1>10. InOrder'
  BY <1>1, <1>3, <1>5, <1>8, <1>9 DEF InOrder
<1>11. LiveIsNew' /\ Hand'
  BY <1>1, <1>7, <1>8 DEF LiveIsNew, Hand
<1>12. ReplayIsOn'
  BY <1>1, <1>3, <1>5, <1>7, <1>8, <1>9 DEF ReplayIsOn
<1>13. NothingEarly'
  BY <1>1 DEF IInv, Flow, NothingEarly
<1> QED
  BY <1>6, <1>10, <1>11, <1>12, <1>13 DEF Flow

\* The exchange's numbers start again: nothing of the new day has been sent.
LEMMA NewDayKeepsFlow ==
    ASSUME IInv, NewDay
    PROVE  Flow' /\ wire' \in Seq(Sent)
<1> USE DEF Today, Data
<1>1. /\ wire \in Seq(Sent) /\ ex.day \in 1 .. MaxDays /\ ex'.day = ex.day + 1 /\ ex'.seq = 0
      /\ ex.day < MaxDays /\ msg' = msg /\ replayComplete' = replayComplete
      /\ handled' = [n \in 1 .. MaxMsgs |-> 0]
  BY DEF IInv, TypeOK, Sent, NewDay
<1>2. /\ wire' \in Seq(Sent)
      /\ \A i \in DOMAIN wire' : /\ wire'[i] \in Sent /\ wire'[i].day <= ex.day
                                 /\ Data(wire'[i]) => wire'[i].n >= 1
  <2>1. \A i \in DOMAIN wire : /\ wire[i] \in Sent /\ wire[i].day <= ex.day
                               /\ Data(wire[i]) => wire[i].n >= 1
    BY <1>1, LenProperties, ElementOfSeq DEF IInv, Flow, InOrder
  <2>2. CASE wire' = wire
    BY <1>1, <2>1, <2>2
  <2>3. CASE wire' # wire
    <3> DEFINE c == Message("closed", 0)
    <3>1. c \in Sent /\ c.day = ex.day /\ c.type = "closed"
      BY <1>1, CfeConstants DEF Message, Sent, Types
    <3>2. PICK k \in 0 .. Len(wire) : wire' = Append(Prefix(wire, k), c)
      BY <2>3 DEF NewDay
    <3> HIDE DEF c
    <3>3. /\ Prefix(wire, k) \in Seq(Sent)
          /\ \A i \in DOMAIN Prefix(wire, k) : i \in DOMAIN wire /\ Prefix(wire, k)[i] = wire[i]
      BY <1>1, PrefixKeeps
    <3>4. \A i \in DOMAIN wire' : \/ i \in DOMAIN wire /\ wire'[i] = wire[i]
                                  \/ wire'[i] = c
      BY <3>1, <3>2, <3>3, AppendAdds
    <3>5. wire' \in Seq(Sent)
      BY <3>1, <3>2, <3>3, AppendAdds
    <3> QED
      <4>1. SUFFICES ASSUME NEW i \in DOMAIN wire'
                     PROVE  /\ wire'[i] \in Sent /\ wire'[i].day <= ex.day
                            /\ Data(wire'[i]) => wire'[i].n >= 1
        BY <3>5
      <4>2. CASE i \in DOMAIN wire /\ wire'[i] = wire[i]
        BY <2>1, <4>2
      <4>3. CASE wire'[i] = c
        BY <1>1, <3>1, <4>3
      <4> QED
        BY <3>4, <4>2, <4>3
  <2> QED
    BY <2>2, <2>3
<1>3. \A i \in DOMAIN wire' :
        wire'[i].day <= ex.day /\ wire'[i].day \in Int /\ (Data(wire'[i]) => wire'[i].n >= 1)
  BY <1>2, CfeConstants DEF Sent
<1>4. InOrder' /\ LiveIsNew' /\ ReplayIsOn'
  BY <1>1, <1>3 DEF InOrder, LiveIsNew, ReplayIsOn
<1>5. Hand'
  <2>1. msg # None => msg.day <= ex.day /\ msg.day \in Int
    BY DEF IInv, TypeOK, Flow, Hand
  <2> QED
    BY <1>1, <2>1 DEF Hand
<1>6. NothingEarly'
  BY <1>1 DEF NothingEarly
<1> QED
  BY <1>2, <1>4, <1>5, <1>6 DEF Flow

\* What is lost of the wire counts as numbers of messages.
LEMMA LostIsNumbered ==
    ASSUME TypeOK, Flow, NEW lost, DOMAIN lost \subseteq Int,
           \A i \in DOMAIN lost : \E j \in DOMAIN wire : lost[i] = wire[j]
    PROVE  Unreplayed(lost) \subseteq 1 .. MaxMsgs
<1>1. \A j \in DOMAIN wire : /\ wire[j].n \in 0 .. MaxMsgs
                             /\ wire[j].type = "replay" => wire[j].n >= 1
  <2>1. \A j \in DOMAIN wire : wire[j] \in Sent
    <3>1. wire \in Seq(Sent)
      BY DEF TypeOK, Sent
    <3> QED
      BY <3>1, LenProperties, ElementOfSeq
  <2> QED
    BY <2>1 DEF Flow, InOrder, Data, Sent
<1>2. \A i \in DOMAIN lost : lost[i].type = "replay" => lost[i].n \in 1 .. MaxMsgs
  <2> TAKE i \in DOMAIN lost
  <2>1. PICK j \in DOMAIN wire : lost[i] = wire[j]
    OBVIOUS
  <2>2. MaxMsgs \in Nat
    BY CfeConstants
  <2>3. wire[j].n \in 0 .. MaxMsgs /\ (wire[j].type = "replay" => wire[j].n >= 1)
    BY <1>1
  <2> QED
    BY <2>1, <2>2, <2>3
<1> QED
  BY <1>2 DEF Unreplayed

\* So does what comes after any place of the wire.
LEMMA SuffixIsNumbered ==
    ASSUME TypeOK, Flow, NEW k \in 0 .. Len(wire)
    PROVE  Unreplayed(Suffix(wire, k)) \subseteq 1 .. MaxMsgs
<1>1. wire \in Seq(Sent) /\ Len(wire) \in Nat /\ DOMAIN wire = 1 .. Len(wire)
  BY LenProperties DEF TypeOK, Sent
<1>2. /\ DOMAIN Suffix(wire, k) \subseteq Int
      /\ \A i \in DOMAIN Suffix(wire, k) :
            i + k \in DOMAIN wire /\ Suffix(wire, k)[i] = wire[i + k]
  <2>1. /\ SubSeq(wire, k + 1, Len(wire)) \in Seq(Sent)
        /\ Len(SubSeq(wire, k + 1, Len(wire)))
              = IF k + 1 <= Len(wire) THEN Len(wire) - (k + 1) + 1 ELSE 0
        /\ \A i \in 1 .. Len(wire) - (k + 1) + 1 :
              SubSeq(wire, k + 1, Len(wire))[i] = wire[k + 1 + i - 1]
    BY <1>1, SubSeqProperties
  <2> DEFINE s == SubSeq(wire, k + 1, Len(wire))
  <2>2. DOMAIN s = 1 .. Len(s)
    BY <2>1, LenProperties
  <2>3. Suffix(wire, k) = s
    BY DEF Suffix
  <2>4. \A i \in DOMAIN s : i \in Int /\ i + k \in DOMAIN wire /\ s[i] = wire[i + k]
    <3>1. Len(s) \in Nat /\ (Len(s) > 0 => Len(s) = Len(wire) - k)
      BY <1>1, <2>1
    <3>2. \A i \in 1 .. Len(wire) - k : s[i] = wire[i + k]
      BY <1>1, <2>1
    <3> HIDE DEF s
    <3> QED
      <4>1. SUFFICES ASSUME NEW i \in 1 .. Len(s)
                     PROVE  i \in Int /\ i + k \in DOMAIN wire /\ s[i] = wire[i + k]
        BY <2>2
      <4>2. i \in Int /\ k \in Int /\ Len(s) > 0
        <5>1. i \in Int
          BY <3>1, <4>1
        <5>3. k \in Int
          BY <1>1
        <5>2. i >= 1 /\ i <= Len(s)
          BY <3>1, <4>1
        <5> QED
          BY <3>1, <5>1, <5>2, <5>3
      <4>3. i \in 1 .. Len(wire) - k
        BY <1>1, <3>1, <4>2
      <4> QED
        BY <1>1, <3>2, <4>2, <4>3
  <2> HIDE DEF s
  <2> QED
    BY <2>3, <2>4
<1> QED
  BY <1>2, LostIsNumbered

\* A connection lost with a part of what was sent on it.
LEMMA CutShort ==
    ASSUME TypeOK, NEW k \in 0 .. Len(wire), NEW c \in Sent
    PROVE  /\ Prefix(wire, k) \in Seq(Sent) /\ Append(Prefix(wire, k), c) \in Seq(Sent)
           /\ \A i \in DOMAIN Prefix(wire, k) :
                i \in DOMAIN wire /\ Prefix(wire, k)[i] = wire[i]
           /\ \A i \in DOMAIN Append(Prefix(wire, k), c) :
                \/ i \in DOMAIN wire /\ Append(Prefix(wire, k), c)[i] = wire[i]
                \/ Append(Prefix(wire, k), c)[i] = c
<1>1. wire \in Seq(Sent)
  BY DEF TypeOK, Sent
<1>2. /\ Prefix(wire, k) \in Seq(Sent)
      /\ \A i \in DOMAIN Prefix(wire, k) : i \in DOMAIN wire /\ Prefix(wire, k)[i] = wire[i]
  BY <1>1, PrefixKeeps
<1> QED
  BY <1>2, AppendAdds

\* The exchange's answers that carry no data.
LEMMA Notices ==
    ASSUME TypeOK, NEW type \in {"ahead", "rejected", "logout", "closed"}
    PROVE  /\ Message(type, 0) \in Sent /\ Plain(Message(type, 0))
           /\ Message(type, 0).day = ex.day /\ ex.day \in Nat
BY CfeConstants DEF TypeOK, Message, Sent, Types, Plain

\* A mishap is counted within its limit.
LEMMA Spent ==
    ASSUME TypeOK, NEW kind \in Mishaps, Spend(kind)
    PROVE  used' \in [Mishaps -> Nat] /\ \A k \in Mishaps : used'[k] <= Limits[k]
<1>1. /\ used \in [Mishaps -> Nat] /\ Limits \in [Mishaps -> Nat] /\ used[kind] < Limits[kind]
      /\ used' = [used EXCEPT ![kind] = used[kind] + 1]
      /\ \A k \in Mishaps : used[k] <= Limits[k]
  BY CfeConstants DEF TypeOK, Spend
<1> QED
  BY <1>1

\* A message received is one that was sent.
LEMMA Received ==
    ASSUME TypeOK, wire # <<>>
    PROVE  Head(wire) \in Sent /\ Tail(wire) \in Seq(Sent)
<1>1. wire \in Seq(Sent)
  BY DEF TypeOK, Sent
<1> QED
  BY <1>1, TailShifts

\* Queue by name: the last entry is the number queued.
LEMMA QueueTyped ==
    ASSUME TypeOK, NEW q \in Numbers, Queue(q)
    PROVE  saves' \in Seq(Numbers) /\ saves' # <<>> /\ saves'[Len(saves')] = q
BY Queued DEF Queue

-----------------------------------------------------------------------------
(* Types.                                                                  *)

\* The types, through the steps of the exchange,
LEMMA ExchangeTypeOK ==
    ASSUME IInv, Exchange
    PROVE  TypeOK'
<1> USE DEF flags, store, seen
<1>1. TypeOK /\ Flow
  BY DEF IInv
<1>2. /\ wire \in Seq(Sent) /\ excused \subseteq 1 .. MaxMsgs /\ MaxMsgs \in Nat /\ MaxDays \in Nat
      /\ ex \in [seq : 0 .. MaxMsgs, day : 1 .. MaxDays, asked : Numbers,
                 conn : {"none", "open", "asked", "in", "out"}]
  BY <1>1, CfeConstants DEF TypeOK, Sent
<1>3. CASE Publish
  <2>1. wire' \in Seq(Sent)
    BY <1>3, PublishKeepsFlow
  <2>2. ex' \in [seq : 0 .. MaxMsgs, day : 1 .. MaxDays, asked : Numbers,
                 conn : {"none", "open", "asked", "in", "out"}]
    BY <1>2, <1>3 DEF Publish
  <2> QED
    BY <1>1, <1>3, <2>1, <2>2 DEF TypeOK, Publish, Sent
<1>4. CASE AcceptLogin
  <2>1. wire' \in Seq(Sent)
    BY <1>4, AcceptKeepsFlow
  <2>2. excused' \subseteq 1 .. MaxMsgs
    BY <1>2, <1>4 DEF AcceptLogin, Numbers
  <2>3. ex' \in [seq : 0 .. MaxMsgs, day : 1 .. MaxDays, asked : Numbers,
                 conn : {"none", "open", "asked", "in", "out"}]
    BY <1>2, <1>4 DEF AcceptLogin
  <2> QED
    BY <1>1, <1>4, <2>1, <2>2, <2>3 DEF TypeOK, AcceptLogin, Sent
<1>5. CASE RejectAhead
  <2>1. wire' \in Seq(Sent)
    BY <1>1, <1>2, <1>5, Notices, AppendAdds DEF RejectAhead
  <2> QED
    BY <1>1, <1>2, <1>5, <2>1 DEF TypeOK, RejectAhead, Sent
<1>6. CASE RefuseLogin
  <2>1. wire' \in Seq(Sent)
    <3>1. <<Message("rejected", 0), Message("closed", 0)>> \in Seq(Sent)
      BY <1>1, Notices
    <3> QED
      BY <1>2, <1>6, <3>1, ConcatProperties DEF RefuseLogin
  <2>2. used' \in [Mishaps -> Nat] /\ \A k \in Mishaps : used'[k] <= Limits[k]
    BY <1>1, <1>6, Spent DEF RefuseLogin, Mishaps
  <2> QED
    BY <1>1, <1>2, <1>6, <2>1, <2>2 DEF TypeOK, RefuseLogin, Sent
<1>7. CASE Cut
  <2>1. wire' \in Seq(Sent) /\ excused' \subseteq 1 .. MaxMsgs
    <3>1. PICK k \in 0 .. Len(wire) :
             /\ wire' = Append(Prefix(wire, k), Message("closed", 0))
             /\ excused' = excused \cup Unreplayed(Suffix(wire, k))
      BY <1>7 DEF Cut
    <3>2. Message("closed", 0) \in Sent
      BY <1>1, Notices
    <3>3. wire' \in Seq(Sent)
      BY <1>1, <3>1, <3>2, CutShort
    <3>4. Unreplayed(Suffix(wire, k)) \subseteq 1 .. MaxMsgs
      BY <1>1, SuffixIsNumbered
    <3> QED
      BY <1>2, <3>1, <3>3, <3>4
  <2>2. used' \in [Mishaps -> Nat] /\ \A k \in Mishaps : used'[k] <= Limits[k]
    BY <1>1, <1>7, Spent DEF Cut, Mishaps
  <2>3. /\ ex' = [ex EXCEPT !.conn = "none"]
        /\ UNCHANGED <<state, seqIn, replayComplete, flags, tcp, msg, store, handled>>
    BY <1>7 DEF Cut
  <2> QED
    BY <1>1, <1>2, <2>1, <2>2, <2>3 DEF TypeOK, Sent
<1>8. CASE NewDay
  <2>1. wire' \in Seq(Sent)
    BY <1>8, NewDayKeepsFlow
  <2>2. /\ ex.day < MaxDays /\ ex' = [ex EXCEPT !.day = @ + 1, !.seq = 0, !.conn = "none"]
        /\ handled' = [n \in 1 .. MaxMsgs |-> 0] /\ excused' = {}
        /\ UNCHANGED <<state, seqIn, replayComplete, flags, tcp, msg, store, used>>
    BY <1>8 DEF NewDay
  <2>3. ex' \in [seq : 0 .. MaxMsgs, day : 1 .. MaxDays, asked : Numbers,
                 conn : {"none", "open", "asked", "in", "out"}]
    <3>1. ex.day + 1 \in 1 .. MaxDays /\ 0 \in 0 .. MaxMsgs
      BY <1>2, <2>2
    <3>2. ex' = [ex EXCEPT !.day = ex.day + 1, !.seq = 0, !.conn = "none"]
      BY <2>2
    <3> QED
      BY <1>2, <3>1, <3>2
  <2>4. handled' \in [1 .. MaxMsgs -> 0 .. 2]
    BY <2>2
  <2> QED
    BY <1>1, <2>1, <2>2, <2>3, <2>4 DEF TypeOK, Sent
<1>9. CASE HangUp
  <2>1. wire' \in Seq(Sent)
    <3>1. <<Message("logout", 0)>> \in Seq(Sent) /\ <<Message("closed", 0)>> \in Seq(Sent)
          /\ <<>> \in Seq(Sent)
      BY <1>1, Notices
    <3>2. PICK s \in Seq(Sent) : wire' = wire \o s \o <<Message("closed", 0)>>
      BY <1>9, <3>1 DEF HangUp
    <3> QED
      BY <1>2, <3>1, <3>2, ConcatProperties
  <2> QED
    BY <1>1, <1>2, <1>9, <2>1 DEF TypeOK, HangUp, Sent
<1> QED
  BY <1>3, <1>4, <1>5, <1>6, <1>7, <1>8, <1>9 DEF Exchange

\* of the poll thread in Poll,
LEMMA PollTypeOK ==
    ASSUME IInv, Poll
    PROVE  TypeOK'
<1> USE DEF flags, store, seen
<1>1. TypeOK
  BY DEF IInv
<1>2. CASE LoginMismatch
  BY <1>1, <1>2, Received DEF TypeOK, LoginMismatch, Receive, Sent
<1>3. CASE LoginAccepted
  <2> DEFINE q == [n |-> Head(wire).n, day |-> Head(wire).day]
  <2>1. Head(wire) \in Sent /\ wire' \in Seq(Sent)
    BY <1>1, <1>3, Received DEF LoginAccepted, Receive
  <2>2. q \in Numbers
    BY <2>1 DEF Sent, Numbers
  <2>3. seqIn' = q /\ Queue(q)
    BY <1>3 DEF LoginAccepted, SetSeqIn
  <2> HIDE DEF q
  <2>4. saves' \in Seq(Numbers)
    BY <1>1, <2>2, <2>3, QueueTyped
  <2> QED
    BY <1>1, <1>3, <2>1, <2>2, <2>3, <2>4 DEF TypeOK, LoginAccepted, States, Sent
<1>4. CASE LoginAhead
  BY <1>1, <1>4, Received DEF TypeOK, LoginAhead, Receive, States, Sent
<1>5. CASE LoggedOut
  <2>1. wire # <<>> /\ wire' = Tail(wire)
    BY <1>5 DEF LoggedOut, Receive
  <2> QED
    BY <1>1, <1>5, <2>1, Received DEF TypeOK, LoggedOut, States, Sent
<1>6. CASE OnReplayComplete
  BY <1>1, <1>6, Received DEF TypeOK, OnReplayComplete, Receive, States, Sent
<1>7. CASE Sequenced
  <2> DEFINE h == Head(wire)
             q == [n |-> h.n, day |-> h.day]
  <2>1. h \in Sent /\ wire' \in Seq(Sent) /\ wire # <<>> /\ wire' = Tail(wire) /\ Data(h)
        /\ msg = None
    BY <1>1, <1>7, Received DEF Sequenced, Receive, Data
  <2>2. q \in Numbers
    BY <2>1 DEF Sent, Numbers
  <2>3. /\ UNCHANGED <<state, replayComplete, flags, tcp, file, ex, seen, used>>
        /\ CheckIncomingSeq(h) /\ msg' = h
    BY <1>7 DEF Sequenced
  <2>4. msg' \in [type : {"app", "replay"}, n : 1 .. MaxMsgs, day : 1 .. MaxDays]
    BY <2>1, <2>3, PassingKeepsFlow DEF IInv
  <2>5. seqIn' \in Numbers /\ saves' \in Seq(Numbers)
    <3>1. CASE UNCHANGED <<seqIn, saves>>
      BY <1>1, <3>1 DEF TypeOK
    <3>2. CASE seqIn' = q /\ Queue(q)
      <4> HIDE DEF q
      <4> QED
        BY <1>1, <2>2, <3>2, QueueTyped
    <3> QED
      BY <2>3, <3>1, <3>2 DEF CheckIncomingSeq, SetSeqIn
  <2> HIDE DEF h, q
  <2> QED
    BY <1>1, <2>1, <2>3, <2>4, <2>5 DEF TypeOK, Sent
<1>8. CASE ProcessApplicationMessage
  <2>1. handled' \in [1 .. MaxMsgs -> 0 .. 2]
    <3>1. handled \in [1 .. MaxMsgs -> 0 .. 2]
      BY <1>1 DEF TypeOK
    <3>2. CASE msg.day # ex.day
      BY <1>8, <3>1, <3>2 DEF ProcessApplicationMessage
    <3>3. CASE msg.day = ex.day
      <4>1. msg.n \in 1 .. MaxMsgs
        BY <1>1, <1>8 DEF TypeOK, ProcessApplicationMessage
      <4>2. (IF handled[msg.n] = 2 THEN 2 ELSE handled[msg.n] + 1) \in 0 .. 2
        BY <3>1, <4>1
      <4> QED
        BY <1>8, <3>1, <3>3, <4>2 DEF ProcessApplicationMessage
    <3> QED
      BY <3>2, <3>3
  <2> QED
    BY <1>1, <1>8, <2>1 DEF TypeOK, ProcessApplicationMessage
<1>9. CASE Closed
  BY <1>1, <1>9, Received DEF TypeOK, Closed, Receive, Sent
<1>10. CASE Reconnect
  BY <1>1, <1>10 DEF TypeOK, Reconnect, Connects
<1> QED
  BY <1>2, <1>3, <1>4, <1>5, <1>6, <1>7, <1>8, <1>9, <1>10 DEF Poll

\* of the rest of Dispatch,
LEMMA DispatchTypeOK ==
    ASSUME IInv, Dispatch
    PROVE  TypeOK'
<1> USE DEF flags, store, seen
<1>1. TypeOK
  BY DEF IInv
<1>2. CASE BeginReset
  <2> DEFINE q == [seqIn EXCEPT !.n = 0]
  <2>1. q \in Numbers /\ file' \in Numbers
    <3>1. 0 \in 0 .. MaxMsgs
      BY CfeConstants
    <3> QED
      BY <1>1, <1>2, <3>1 DEF TypeOK, Numbers, BeginReset
  <2>2. seqIn' = q /\ Queue(q)
    BY <1>2 DEF BeginReset, ResetSessionSeqNumsToZero, SetSeqIn
  <2> HIDE DEF q
  <2>3. saves' \in Seq(Numbers)
    BY <1>1, <2>1, <2>2, QueueTyped
  <2>4. step' \in [Threads -> Places]
    BY <1>1, <1>2 DEF TypeOK, BeginReset, Places
  <2> QED
    BY <1>1, <1>2, <2>1, <2>2, <2>3, <2>4 DEF TypeOK, BeginReset
<1>3. CASE SeesNoSocket
  BY <1>1, <1>3 DEF TypeOK, SeesNoSocket, States
<1>4. CASE LoginAgain
  <2>1. file \in Numbers /\ saves' \in Seq(Numbers)
    BY <1>1, <1>4, QueueTyped DEF TypeOK, LoginAgain
  <2>2. ex' \in [seq : 0 .. MaxMsgs, day : 1 .. MaxDays, asked : Numbers,
                 conn : {"none", "open", "asked", "in", "out"}]
    BY <1>1, <1>4, <2>1 DEF TypeOK, LoginAgain, SessionLogin
  <2> QED
    BY <1>1, <1>4, <2>1, <2>2 DEF TypeOK, LoginAgain, SessionLogin, ReplayStarts, States
<1>5. CASE LoginFirst
  <2>1. ex' \in [seq : 0 .. MaxMsgs, day : 1 .. MaxDays, asked : Numbers,
                 conn : {"none", "open", "asked", "in", "out"}]
    BY <1>1, <1>5 DEF TypeOK, LoginFirst, SessionLogin
  <2> QED
    BY <1>1, <1>5, <2>1 DEF TypeOK, LoginFirst, SessionLogin, ReplayStarts, States
<1>6. CASE SeesSocket
  BY <1>1, <1>6 DEF TypeOK, SeesSocket
<1>7. CASE ResetFails
  <2> DEFINE q == [seqIn EXCEPT !.n = 0]
  <2>1. q \in Numbers
    <3>1. 0 \in 0 .. MaxMsgs
      BY CfeConstants
    <3> QED
      BY <1>1, <3>1 DEF TypeOK, Numbers
  <2>2. seqIn' = q /\ Queue(q)
    BY <1>7 DEF ResetFails, ResetSessionSeqNumsToZero, SetSeqIn
  <2> HIDE DEF q
  <2>3. saves' \in Seq(Numbers)
    BY <1>1, <2>1, <2>2, QueueTyped
  <2>4. used' \in [Mishaps -> Nat] /\ \A k \in Mishaps : used'[k] <= Limits[k]
    BY <1>1, <1>7, Spent DEF ResetFails, Mishaps
  <2> QED
    BY <1>1, <1>7, <2>1, <2>2, <2>3, <2>4 DEF TypeOK, ResetFails
<1> QED
  BY <1>2, <1>3, <1>4, <1>5, <1>6, <1>7 DEF Dispatch

\* of either thread between stop and start,
LEMMA RestartTypeOK ==
    ASSUME IInv, NEW t \in Threads, Restart(t)
    PROVE  TypeOK'
<1> USE DEF flags, store, seen
<1>1. TypeOK /\ Flow
  BY DEF IInv
<1>2. CASE StopHandler(t)
  <2>1. PICK k \in 0 .. Len(wire) :
           wire' = Prefix(wire, k) /\ excused' = excused \cup Unreplayed(Suffix(wire, k))
    BY <1>2 DEF StopHandler
  <2>2. wire' \in Seq(Sent)
    <3>1. wire \in Seq(Sent)
      BY <1>1 DEF TypeOK, Sent
    <3> QED
      BY <2>1, <3>1, PrefixKeeps
  <2>3. excused' \subseteq 1 .. MaxMsgs
    BY <1>1, <2>1, SuffixIsNumbered DEF TypeOK
  <2>4. /\ tcp' = [tcp EXCEPT !.fd = FALSE] /\ ex' = [ex EXCEPT !.conn = "none"]
        /\ step' = [step EXCEPT ![t] = "session"]
        /\ UNCHANGED <<state, seqIn, replayComplete, needsReset, reconnecting, lastFd, gaveUp,
                       msg, store, handled, used>>
    BY <1>2 DEF StopHandler
  <2>5. step' \in [Threads -> Places]
    BY <1>1, <2>4 DEF TypeOK, Places
  <2> QED
    BY <1>1, <2>2, <2>3, <2>4, <2>5 DEF TypeOK, Sent
<1>3. CASE StartSessionManager(t)
  <2>1. file \in Numbers /\ saves' \in Seq(Numbers)
    BY <1>1, <1>3, QueueTyped DEF TypeOK, StartSessionManager
  <2>2. step' \in [Threads -> Places]
    BY <1>1, <1>3 DEF TypeOK, StartSessionManager, Places
  <2> QED
    BY <1>1, <1>3, <2>1, <2>2 DEF TypeOK, StartSessionManager, States
<1>4. CASE StartTcpConnection(t)
  <2>1. excused' \subseteq 1 .. MaxMsgs
    <3>1. DOMAIN wire \subseteq Int
      BY <1>1, LenProperties DEF TypeOK
    <3>2. Unreplayed(wire) \subseteq 1 .. MaxMsgs
      BY <1>1, <3>1, LostIsNumbered
    <3> QED
      BY <1>1, <1>4, <3>2 DEF TypeOK, StartTcpConnection
  <2>2. used' \in [Mishaps -> Nat] /\ \A k \in Mishaps : used'[k] <= Limits[k]
    <3>1. used' = used \/ Spend("initFails")
      BY <1>4 DEF StartTcpConnection, Connects, Fails
    <3>2. CASE used' = used
      BY <1>1, <3>2 DEF TypeOK
    <3>3. CASE Spend("initFails")
      BY <1>1, <3>3, Spent DEF Mishaps
    <3> QED
      BY <3>1, <3>2, <3>3
  <2>3. /\ ex' = [ex EXCEPT !.conn = "open"] \/ ex' = [ex EXCEPT !.conn = "none"]
        /\ tcp' = [fd |-> TRUE, retry |-> FALSE] \/ tcp' = [fd |-> FALSE, retry |-> FALSE]
        /\ gaveUp' = (~tcp'.fd)
        /\ state' = state \/ state' = "Disconnected"
        /\ reconnecting' = FALSE /\ needsReset' = (needsReset /\ t # "poll") /\ wire' = <<>>
        /\ step' = [step EXCEPT ![t] = "idle"]
        /\ saves' = saves \/ Queue(seqIn)
        /\ UNCHANGED <<seqIn, replayComplete, lastFd, msg, file, handled>>
    BY <1>4 DEF StartTcpConnection, Connects, Fails
  <2>4. ex' \in [seq : 0 .. MaxMsgs, day : 1 .. MaxDays, asked : Numbers,
                 conn : {"none", "open", "asked", "in", "out"}]
    BY <1>1, <2>3 DEF TypeOK
  <2>5. step' \in [Threads -> Places]
    BY <1>1, <2>3 DEF TypeOK, Places
  <2>6. wire' \in Seq(Sent) /\ gaveUp' \in BOOLEAN /\ needsReset' \in BOOLEAN
    BY <2>3, EmptySeq
  <2>7. tcp' \in [fd : BOOLEAN, retry : BOOLEAN]
    <3>1. /\ [fd |-> TRUE, retry |-> FALSE] \in [fd : BOOLEAN, retry : BOOLEAN]
          /\ [fd |-> FALSE, retry |-> FALSE] \in [fd : BOOLEAN, retry : BOOLEAN]
      OBVIOUS
    <3>2. tcp' = [fd |-> TRUE, retry |-> FALSE] \/ tcp' = [fd |-> FALSE, retry |-> FALSE]
      BY <2>3
    <3> QED
      BY <3>1, <3>2
  <2>8. saves' \in Seq(Numbers)
    BY <1>1, <2>3, QueueTyped DEF TypeOK
  <2> QED
    BY <1>1, <2>1, <2>2, <2>3, <2>4, <2>5, <2>6, <2>7, <2>8
       DEF TypeOK, States, Sent
<1> QED
  BY <1>2, <1>3, <1>4 DEF Restart

\* and of the command thread, SessSvc and the process.
LEMMA OtherTypeOK ==
    ASSUME IInv,
           TcpReconnect \/ Terminate \/ Logout \/ Save \/ CrashAndStart \/ UNCHANGED vars
    PROVE  TypeOK'
<1> USE DEF flags, store, seen
<1>1. TypeOK /\ Flow
  BY DEF IInv
<1>2. CASE TcpReconnect
  <2>1. used' \in [Mishaps -> Nat] /\ \A k \in Mishaps : used'[k] <= Limits[k]
    BY <1>1, <1>2, Spent DEF TcpReconnect, Mishaps
  <2>2. step' \in [Threads -> Places]
    BY <1>1, <1>2 DEF TypeOK, TcpReconnect, Places
  <2> QED
    BY <1>1, <1>2, <2>1, <2>2 DEF TypeOK, TcpReconnect
<1>3. CASE Terminate
  <2>1. used' \in [Mishaps -> Nat] /\ \A k \in Mishaps : used'[k] <= Limits[k]
    BY <1>1, <1>3, Spent DEF Terminate, Mishaps
  <2>2. saves' \in Seq(Numbers)
    BY <1>1, <1>3, QueueTyped DEF TypeOK, Terminate
  <2>3. step' \in [Threads -> Places]
    BY <1>1, <1>3 DEF TypeOK, Terminate, Places
  <2> QED
    BY <1>1, <1>3, <2>1, <2>2, <2>3 DEF TypeOK, Terminate, States
<1>4. CASE Save
  <2>1. saves \in Seq(Numbers) /\ saves # <<>>
    BY <1>1, <1>4 DEF TypeOK, Save
  <2>2. file' \in Numbers /\ saves' \in Seq(Numbers)
    BY <1>4, <2>1, TailShifts DEF Save
  <2> QED
    BY <1>1, <1>4, <2>2 DEF TypeOK, Save
<1>5. CASE CrashAndStart
  <2>1. used' \in [Mishaps -> Nat] /\ \A k \in Mishaps : used'[k] <= Limits[k]
    BY <1>1, <1>5, Spent DEF CrashAndStart, Mishaps
  <2>2. excused' \subseteq 1 .. MaxMsgs
    <3>1. DOMAIN wire \subseteq Int
      BY <1>1, LenProperties DEF TypeOK
    <3>2. Unreplayed(wire) \subseteq 1 .. MaxMsgs
      BY <1>1, <3>1, LostIsNumbered
    <3> QED
      BY <1>1, <1>5, <3>2 DEF TypeOK, CrashAndStart
  <2>3. /\ state' = "StartingLoginProcess" /\ seqIn' = file /\ saves' = <<file>>
        /\ replayComplete' = FALSE /\ needsReset' = FALSE /\ reconnecting' = FALSE
        /\ lastFd' = FALSE /\ step' = [t \in Threads |-> "idle"] /\ gaveUp' = FALSE
        /\ tcp' = [fd |-> TRUE, retry |-> FALSE]
        /\ ex' = [ex EXCEPT !.conn = "open"] /\ wire' = <<>>
        /\ msg' = None /\ UNCHANGED <<file, handled>>
    BY <1>5 DEF CrashAndStart
  <2>4. file \in Numbers /\ saves' \in Seq(Numbers) /\ wire' \in Seq(Sent)
    BY <1>1, <2>3, EmptySeq DEF TypeOK
  <2>5. ex' \in [seq : 0 .. MaxMsgs, day : 1 .. MaxDays, asked : Numbers,
                 conn : {"none", "open", "asked", "in", "out"}]
    BY <1>1, <2>3 DEF TypeOK
  <2> QED
    BY <1>1, <2>1, <2>2, <2>3, <2>4, <2>5 DEF TypeOK, States, Places, Sent
<1>6. CASE UNCHANGED vars
  BY <1>1, <1>6 DEF TypeOK, vars
<1>7. CASE Logout
  <2>1. step' \in [Threads -> Places]
    BY <1>1, <1>7 DEF TypeOK, Logout, Places
  <2>2. ex' \in [seq : 0 .. MaxMsgs, day : 1 .. MaxDays, asked : Numbers,
                 conn : {"none", "open", "asked", "in", "out"}]
    BY <1>1, <1>7 DEF TypeOK, Logout
  <2> QED
    BY <1>1, <1>7, <2>1, <2>2 DEF TypeOK, Logout, States
<1> QED
  BY <1>2, <1>3, <1>4, <1>5, <1>6, <1>7

\* Every step keeps the types.
LEMMA NextTypeOK ==
    ASSUME IInv, [Next]_vars
    PROVE  TypeOK'
<1>1. ASSUME NEW t \in Threads, Restart(t)
      PROVE  TypeOK'
  BY <1>1, RestartTypeOK
<1> QED
  BY <1>1, PollTypeOK, DispatchTypeOK, ExchangeTypeOK, OtherTypeOK DEF Next

-----------------------------------------------------------------------------
(* The messages.                                                           *)

\* The exchange adds messages in order, after those already sent.
LEMMA ExchangeFlow ==
    ASSUME IInv, Exchange
    PROVE  Flow'
<1> USE DEF flags, store, seen
<1>1. TypeOK /\ Flow /\ wire \in Seq(Sent) /\ ex.day \in Nat
  BY CfeConstants DEF IInv, TypeOK, Sent
<1>2. CASE Publish
  BY <1>2, PublishKeepsFlow
<1>3. CASE AcceptLogin
  BY <1>3, AcceptKeepsFlow
<1>4. CASE RejectAhead
  <2> DEFINE c == Message("ahead", 0)
  <2>1. c \in Sent /\ Plain(c) /\ c.day = ex.day
    BY <1>1, Notices
  <2>2. /\ wire' = Append(wire, c) /\ ex'.seq = ex.seq /\ ex'.day = ex.day
        /\ UNCHANGED <<handled, msg, replayComplete>>
    BY <1>1, <1>4 DEF RejectAhead, TypeOK
  <2> HIDE DEF c
  <2>3. \A i \in DOMAIN wire' : \/ i \in DOMAIN wire /\ wire'[i] = wire[i]
                                \/ Plain(wire'[i]) /\ wire'[i].day <= ex.day
    BY <1>1, <2>1, <2>2, AppendAdds
  <2> QED
    BY <1>1, <2>2, <2>3, LosingKeepsFlow
<1>5. CASE RefuseLogin
  <2> DEFINE c == <<Message("rejected", 0), Message("closed", 0)>>
  <2>1. c \in Seq(Sent) /\ \A i \in DOMAIN c : Plain(c[i]) /\ c[i].day <= ex.day
    BY <1>1, Notices
  <2>2. /\ wire' = wire \o c /\ ex'.seq = ex.seq /\ ex'.day = ex.day
        /\ UNCHANGED <<handled, msg, replayComplete>>
    BY <1>1, <1>5 DEF RefuseLogin, TypeOK
  <2> HIDE DEF c
  <2>3. \A i \in DOMAIN wire' : \/ i \in DOMAIN wire /\ wire'[i] = wire[i]
                                \/ Plain(wire'[i]) /\ wire'[i].day <= ex.day
    BY <1>1, <2>1, <2>2, ConcatAdds
  <2> QED
    BY <1>1, <2>2, <2>3, LosingKeepsFlow
<1>6. CASE Cut
  <2> DEFINE c == Message("closed", 0)
  <2>1. c \in Sent /\ Plain(c) /\ c.day = ex.day
    BY <1>1, Notices
  <2>2. /\ ex'.seq = ex.seq /\ ex'.day = ex.day
        /\ UNCHANGED <<handled, msg, replayComplete>>
    BY <1>1, <1>6 DEF Cut, TypeOK
  <2>3. PICK k \in 0 .. Len(wire) : wire' = Append(Prefix(wire, k), c)
    BY <1>6 DEF Cut
  <2> HIDE DEF c
  <2>4. \A i \in DOMAIN wire' : \/ i \in DOMAIN wire /\ wire'[i] = wire[i]
                                \/ Plain(wire'[i]) /\ wire'[i].day <= ex.day
    BY <1>1, <2>1, <2>3, CutShort
  <2> QED
    BY <1>1, <2>2, <2>4, LosingKeepsFlow
<1>7. CASE NewDay
  BY <1>7, NewDayKeepsFlow
<1>8. CASE HangUp
  <2> DEFINE b == IF ex.conn = "out" THEN <<Message("logout", 0)>> ELSE <<>>
             c == <<Message("closed", 0)>>
  <2>1. /\ b \in Seq(Sent) /\ \A i \in DOMAIN b : Plain(b[i]) /\ b[i].day <= ex.day
        /\ c \in Seq(Sent) /\ \A i \in DOMAIN c : Plain(c[i]) /\ c[i].day <= ex.day
    BY <1>1, Notices
  <2>2. /\ wire' = wire \o b \o c /\ ex'.seq = ex.seq /\ ex'.day = ex.day
        /\ UNCHANGED <<handled, msg, replayComplete>>
    BY <1>1, <1>8 DEF HangUp, TypeOK
  <2> HIDE DEF b, c
  <2> DEFINE u == wire \o b
  <2>3. u \in Seq(Sent) /\ \A i \in DOMAIN u : \/ i \in DOMAIN wire /\ u[i] = wire[i]
                                               \/ Plain(u[i]) /\ u[i].day <= ex.day
    BY <1>1, <2>1, ConcatAdds
  <2>4. wire' = u \o c
    BY <2>2
  <2> HIDE DEF u
  <2>5. \A i \in DOMAIN wire' : \/ i \in DOMAIN wire /\ wire'[i] = wire[i]
                                \/ Plain(wire'[i]) /\ wire'[i].day <= ex.day
    <3>1. \A i \in DOMAIN wire' : \/ i \in DOMAIN u /\ wire'[i] = u[i]
                                  \/ Plain(wire'[i]) /\ wire'[i].day <= ex.day
      BY <2>1, <2>3, <2>4, ConcatAdds
    <3> QED
      BY <2>3, <3>1
  <2> QED
    BY <1>1, <2>2, <2>5, LosingKeepsFlow
<1> QED
  BY <1>2, <1>3, <1>4, <1>5, <1>6, <1>7, <1>8 DEF Exchange

\* Poll takes them one by one.
LEMMA PollFlow ==
    ASSUME IInv, Poll
    PROVE  Flow'
<1> USE DEF flags, store, seen, Receive, Data
<1>1. TypeOK /\ Flow
  BY DEF IInv
\* The messages without data but the end of the replay.
<1>2. CASE LoginMismatch \/ LoginAccepted \/ LoginAhead \/ LoggedOut \/ Closed
  <2>1. /\ wire # <<>> /\ wire' = Tail(wire) /\ ~Data(Head(wire)) /\ ex' = ex
        /\ handled' = handled /\ msg' = None /\ Head(wire).type # "complete"
    BY <1>2 DEF LoginMismatch, LoginAccepted, LoginAhead, LoggedOut, Closed
  <2>2. replayComplete' = replayComplete
    BY <1>2 DEF LoginMismatch, LoginAccepted, LoginAhead, LoggedOut, Closed
  <2> QED
    BY <1>1, <2>1, <2>2, TakingKeepsFlow
<1>3. CASE OnReplayComplete
  <2>1. /\ wire # <<>> /\ wire' = Tail(wire) /\ ~Data(Head(wire)) /\ ex' = ex
        /\ handled' = handled /\ msg' = None
    BY <1>3 DEF OnReplayComplete
  <2>2. Head(wire).type = "complete"
    BY <1>3 DEF OnReplayComplete
  <2> QED
    BY <1>1, <2>1, <2>2, TakingKeepsFlow
<1>4. CASE Sequenced
  <2>1. /\ msg = None /\ wire # <<>> /\ wire' = Tail(wire) /\ Data(Head(wire)) /\ ex' = ex
        /\ handled' = handled /\ msg' = Head(wire) /\ replayComplete' = replayComplete
    BY <1>4 DEF Sequenced
  <2> QED
    BY <1>1, <2>1, PassingKeepsFlow
<1>5. CASE ProcessApplicationMessage
  BY <1>1, <1>5, HandlingKeepsFlow
<1>6. CASE Reconnect
  <2>1. /\ wire' = wire /\ ex'.seq = ex.seq /\ ex'.day = ex.day
        /\ UNCHANGED <<handled, msg, replayComplete>>
    BY <1>1, <1>6 DEF Reconnect, Connects, TypeOK
  <2> QED
    BY <1>1, <2>1, LosingKeepsFlow
<1> QED
  BY <1>2, <1>3, <1>4, <1>5, <1>6 DEF Poll

\* The actions that leave the messages alone, or lose some.
LEMMA OtherFlow ==
    ASSUME IInv,
           \/ Dispatch \/ \E t \in Threads : Restart(t)
           \/ TcpReconnect \/ Terminate \/ Logout \/ Save \/ CrashAndStart \/ UNCHANGED vars
    PROVE  Flow'
<1> USE DEF flags, store, seen
<1>1. TypeOK /\ Flow /\ wire \in Seq(Sent)
  BY DEF IInv, TypeOK, Sent
<1>2. CASE Dispatch
  <2>1. /\ wire' = wire /\ ex'.seq = ex.seq /\ ex'.day = ex.day
        /\ UNCHANGED <<handled, msg>>
    BY <1>1, <1>2 DEF Dispatch, BeginReset, ResetFails, SeesNoSocket, LoginAgain, LoginFirst,
                      SeesSocket, SessionLogin, TypeOK
  <2>2. replayComplete' = replayComplete \/ replayComplete' = FALSE
    BY <1>2 DEF Dispatch, BeginReset, ResetFails, SeesNoSocket, LoginAgain, LoginFirst,
                SeesSocket, SessionLogin, ReplayStarts
  <2> QED
    BY <1>1, <2>1, <2>2, LosingKeepsFlow
<1>3. ASSUME NEW t \in Threads, Restart(t)
      PROVE  Flow'
  <2>1. /\ ex'.seq = ex.seq /\ ex'.day = ex.day
        /\ UNCHANGED <<handled, msg, replayComplete>>
    BY <1>1, <1>3 DEF Restart, StopHandler, StartSessionManager, StartTcpConnection,
                      Connects, Fails, TypeOK
  <2>2. wire' = wire \/ wire' = <<>> \/ \E k \in 0 .. Len(wire) : wire' = Prefix(wire, k)
    BY <1>3 DEF Restart, StopHandler, StartSessionManager, StartTcpConnection
  <2>3. \A i \in DOMAIN wire' : i \in DOMAIN wire /\ wire'[i] = wire[i]
    BY <1>1, <2>2, PrefixKeeps
  <2> QED
    BY <1>1, <2>1, <2>3, LosingKeepsFlow
<1>4. CASE CrashAndStart
  <2>1. /\ wire' = <<>> /\ ex'.seq = ex.seq /\ ex'.day = ex.day
        /\ handled' = handled /\ msg' = None /\ replayComplete' = FALSE
    BY <1>1, <1>4 DEF CrashAndStart, TypeOK
  <2>2. \A i \in DOMAIN wire' : i \in DOMAIN wire /\ wire'[i] = wire[i]
    BY <2>1
  <2>3. msg' \in {msg, None} /\ replayComplete' \in {replayComplete, FALSE}
    BY <2>1
  <2> QED
    BY <1>1, <2>1, <2>2, <2>3, LosingKeepsFlow
<1>5. CASE TcpReconnect \/ Terminate \/ Logout \/ Save \/ UNCHANGED vars
  <2>1. /\ wire' = wire /\ ex'.seq = ex.seq /\ ex'.day = ex.day
        /\ UNCHANGED <<handled, msg, replayComplete>>
    BY <1>1, <1>5 DEF TcpReconnect, Terminate, Logout, Save, vars, TypeOK
  <2> QED
    BY <1>1, <2>1, LosingKeepsFlow
<1> QED
  BY <1>2, <1>3, <1>4, <1>5

\* Every step keeps the messages in order.
LEMMA NextFlow ==
    ASSUME IInv, [Next]_vars
    PROVE  Flow'
BY PollFlow, ExchangeFlow, OtherFlow DEF Next

-----------------------------------------------------------------------------
(* The connection.                                                         *)

\* The exchange sends no data before it accepts a login.
LEMMA ExchangeConnecting ==
    ASSUME IInv, Exchange
    PROVE  Connecting'
<1> USE DEF flags, store, seen
<1>1. TypeOK /\ Connecting /\ wire \in Seq(Sent)
  BY DEF IInv, TypeOK, Sent
<1>2. CASE Publish
  BY <1>1, <1>2 DEF Publish, TypeOK, Connecting, Plain
<1>3. CASE RejectAhead
  <2> DEFINE c == Message("ahead", 0)
  <2>1. c \in Sent /\ Plain(c)
    BY <1>1, Notices
  <2>2. ex.conn = "asked" /\ wire' = Append(wire, c) /\ ex'.conn = "open"
    BY <1>1, <1>3 DEF RejectAhead, TypeOK
  <2> HIDE DEF c
  <2>3. \A i \in DOMAIN wire' : Plain(wire'[i])
    BY <1>1, <2>1, <2>2, AppendAdds DEF Connecting
  <2> QED
    BY <2>2, <2>3 DEF Connecting, Plain
<1>4. CASE AcceptLogin \/ RefuseLogin \/ Cut \/ NewDay \/ HangUp
  <2>1. ex'.conn \in {"in", "none"}
    BY <1>1, <1>4 DEF AcceptLogin, RefuseLogin, Cut, NewDay, HangUp, TypeOK
  <2> QED
    BY <2>1 DEF Connecting
<1> QED
  BY <1>2, <1>3, <1>4 DEF Exchange

\* A reconnect finds nothing left of the connection before.
LEMMA PollConnecting ==
    ASSUME IInv, Poll
    PROVE  Connecting'
<1> USE DEF flags, store, seen, Receive
<1>1. TypeOK /\ Connecting /\ wire \in Seq(Sent)
  BY DEF IInv, TypeOK, Sent
<1>2. ASSUME wire # <<>>, wire' = Tail(wire), ex' = ex
      PROVE  /\ ex'.conn \in {"open", "asked"} => \A i \in DOMAIN wire' : Plain(wire'[i])
             /\ ex.conn = "asked" => Plain(Head(wire))
  BY <1>1, <1>2, TailShifts DEF Connecting
<1>3. CASE LoginMismatch \/ LoginAccepted \/ LoginAhead \/ LoggedOut \/ Closed
  <2>1. /\ wire # <<>> /\ wire' = Tail(wire) /\ ex' = ex /\ msg' = msg
        /\ replayComplete' = replayComplete
    BY <1>3 DEF LoginMismatch, LoginAccepted, LoginAhead, LoggedOut, Closed
  <2> QED
    BY <1>1, <1>2, <2>1 DEF Connecting, Plain
<1>4. CASE OnReplayComplete \/ Sequenced
  <2>1. /\ wire # <<>> /\ wire' = Tail(wire) /\ ex' = ex
        /\ Head(wire).type \in {"complete", "app", "replay"}
    BY <1>4 DEF OnReplayComplete, Sequenced
  <2>2. ex.conn # "asked"
    BY <1>2, <2>1 DEF Plain
  <2> QED
    BY <1>2, <2>1, <2>2 DEF Connecting, Plain
<1>5. CASE ProcessApplicationMessage
  BY <1>1, <1>5 DEF ProcessApplicationMessage, Connecting, Plain
<1>6. CASE Reconnect
  <2>1. wire' = <<>> /\ ex'.conn = "open"
    BY <1>1, <1>6 DEF Reconnect, Draining, Connects, TypeOK
  <2> QED
    BY <2>1 DEF Connecting
<1> QED
  BY <1>3, <1>4, <1>5, <1>6 DEF Poll

\* A login is sent with no message in hand and the replay flag cleared.
LEMMA OtherConnecting ==
    ASSUME IInv,
           \/ Dispatch \/ \E t \in Threads : Restart(t)
           \/ TcpReconnect \/ Terminate \/ Logout \/ Save \/ CrashAndStart \/ UNCHANGED vars
    PROVE  Connecting'
<1> USE DEF flags, store, seen
<1>1. TypeOK /\ Connecting
  BY DEF IInv
<1>2. CASE LoginAgain \/ LoginFirst
  <2>1. /\ wire' = wire /\ msg' = None /\ ~replayComplete'
        /\ ex'.conn = ex.conn \/ (ex.conn = "open" /\ ex'.conn = "asked")
    BY <1>1, <1>2 DEF LoginAgain, LoginFirst, Dispatching, InDispatch, SessionLogin,
                      ReplayStarts, TypeOK
  <2> QED
    BY <1>1, <2>1 DEF Connecting, Plain
<1>3. CASE \/ BeginReset \/ ResetFails \/ SeesNoSocket \/ SeesSocket
           \/ TcpReconnect \/ Save \/ UNCHANGED vars
  <2>1. UNCHANGED <<wire, msg, replayComplete, ex>>
    BY <1>3 DEF BeginReset, ResetFails, SeesNoSocket, SeesSocket, TcpReconnect, Save, vars
  <2> QED
    BY <1>1, <2>1 DEF Connecting, Plain
<1>4. ASSUME NEW t \in Threads, Restart(t)
      PROVE  Connecting'
  <2>1. CASE StopHandler(t)
    <3>1. ex'.conn = "none"
      BY <1>1, <2>1 DEF StopHandler, TypeOK
    <3> QED
      BY <3>1 DEF Connecting
  <2>2. CASE StartSessionManager(t)
    BY <1>1, <2>2 DEF StartSessionManager, Connecting, Plain
  <2>3. CASE StartTcpConnection(t)
    <3>1. wire' = <<>> /\ ex'.conn \in {"open", "none"}
      BY <1>1, <2>3 DEF StartTcpConnection, Connects, Fails, TypeOK
    <3> QED
      BY <3>1 DEF Connecting
  <2> QED
    BY <1>4, <2>1, <2>2, <2>3 DEF Restart
<1>5. CASE Terminate \/ Logout
  <2>1. /\ UNCHANGED <<wire, msg, replayComplete>>
        /\ ex' = ex \/ ex'.conn = "out"
    BY <1>1, <1>5 DEF Terminate, Logout, TypeOK
  <2> QED
    BY <1>1, <2>1 DEF Connecting, Plain
<1>6. CASE CrashAndStart
  <2>1. wire' = <<>> /\ ex'.conn = "open"
    BY <1>1, <1>6 DEF CrashAndStart, TypeOK
  <2> QED
    BY <2>1 DEF Connecting
<1> QED
  BY <1>2, <1>3, <1>4, <1>5, <1>6 DEF Dispatch

\* Every step keeps this.
LEMMA NextConnecting ==
    ASSUME IInv, [Next]_vars
    PROVE  Connecting'
BY PollConnecting, ExchangeConnecting, OtherConnecting DEF Next

-----------------------------------------------------------------------------
(* The reset.                                                              *)

\* Outside a reset the poll thread may do anything with the numbers.
LEMMA NextResetting ==
    ASSUME IInv, [Next]_vars
    PROVE  Resetting'
<1> USE DEF flags, store, seen
<1>1. TypeOK /\ Resetting /\ step \in [Threads -> Places]
  BY DEF IInv, TypeOK
<1>2. CASE step'["poll"] = "idle"
  BY <1>2 DEF Resetting
<1>3. ASSUME UNCHANGED <<seqIn, saves, file>>,
             step'["poll"] # "idle" => step["poll"] # "idle"
      PROVE  Resetting'
  BY <1>1, <1>3 DEF Resetting
<1>4. ASSUME UNCHANGED <<seqIn, file>>, Queue(seqIn) \/ saves' = saves,
             step'["poll"] = step["poll"]
      PROVE  Resetting'
  <2>1. CASE saves' = saves
    BY <1>3, <1>4, <2>1
  <2>2. CASE Queue(seqIn)
    <3>1. saves' # <<>> /\ saves'[Len(saves')] = seqIn
      BY <1>1, <2>2, QueueTyped DEF TypeOK
    <3> QED
      BY <1>1, <1>4, <3>1 DEF Resetting
  <2> QED
    BY <1>4, <2>1, <2>2
<1>5. CASE Poll /\ step'["poll"] # "idle"
  <2>1. CASE ProcessApplicationMessage
    BY <1>3, <2>1 DEF ProcessApplicationMessage
  <2>2. CASE ~ProcessApplicationMessage
    <3>1. step["poll"] = "idle" /\ step' = step
      BY <1>5, <2>2 DEF Poll, LoginMismatch, LoginAccepted, LoginAhead, LoggedOut,
                OnReplayComplete, Sequenced, Closed, Reconnect, Receive
    <3> QED
      BY <1>5, <3>1
  <2> QED
    BY <2>1, <2>2
<1>6. CASE BeginReset
  <2>1. [seqIn EXCEPT !.n = 0] \in Numbers
    <3>1. 0 \in 0 .. MaxMsgs
      BY CfeConstants
    <3> QED
      BY <1>1, <3>1 DEF TypeOK, Numbers
  <2>2. seqIn' = [seqIn EXCEPT !.n = 0] /\ Queue([seqIn EXCEPT !.n = 0])
    BY <1>6 DEF BeginReset, ResetSessionSeqNumsToZero, SetSeqIn
  <2>3. saves' # <<>> /\ saves'[Len(saves')] = [seqIn EXCEPT !.n = 0]
    BY <1>1, <2>1, <2>2, QueueTyped
  <2>4. seqIn'.n = 0 /\ [seqIn EXCEPT !.n = 0].n = 0
    BY <1>1, <2>2 DEF TypeOK, Numbers
  <2> QED
    BY <2>3, <2>4 DEF Resetting
<1>7. CASE /\ ResetFails \/ SeesNoSocket \/ LoginAgain \/ LoginFirst \/ SeesSocket
           /\ step'["poll"] # "idle"
  <2>1. step["poll"] = "idle" /\ step' = step
    BY <1>7
       DEF ResetFails, SeesNoSocket, LoginAgain, LoginFirst, SeesSocket, Dispatching, InDispatch
  <2> QED
    BY <1>7, <2>1
<1>8. ASSUME NEW t \in Threads, Restart(t), step'["poll"] # "idle"
      PROVE  Resetting'
  <2>1. step["poll"] # "idle"
    BY <1>1, <1>8 DEF Restart, StopHandler, StartSessionManager, StartTcpConnection, Threads
  <2>2. CASE StopHandler(t)
    BY <1>3, <2>1, <2>2 DEF StopHandler
  <2>3. CASE StartTcpConnection(t)
    <3>1. step' = [step EXCEPT ![t] = "idle"] /\ UNCHANGED <<seqIn, file>>
      BY <2>3 DEF StartTcpConnection
    <3>2. Queue(seqIn) \/ saves' = saves
      BY <2>3 DEF StartTcpConnection
    <3>3. step'["poll"] = step["poll"]
      BY <1>1, <1>8, <3>1 DEF Threads
    <3> QED
      BY <1>4, <3>1, <3>2, <3>3
  <2>4. CASE StartSessionManager(t)
    <3>1. saves = <<>> /\ seqIn' = file /\ Queue(file) /\ file' = file
      BY <2>4 DEF StartSessionManager
    <3>2. saves' # <<>> /\ saves'[Len(saves')] = file
      BY <1>1, <3>1, QueueTyped DEF TypeOK
    <3> QED
      BY <1>1, <2>1, <3>1, <3>2 DEF Resetting
  <2> QED
    BY <1>8, <2>2, <2>3, <2>4 DEF Restart
<1>9. CASE TcpReconnect \/ Logout
  <2>1. step'["poll"] = step["poll"]
    BY <1>1, <1>9 DEF TcpReconnect, Logout, Threads
  <2> QED
    BY <1>3, <1>9, <2>1 DEF TcpReconnect, Logout
<1>10. CASE Terminate
  <2>1. step'["poll"] = step["poll"]
    BY <1>1, <1>10 DEF Terminate, Threads
  <2>2. seqIn' = seqIn /\ file' = file /\ (Queue(seqIn) \/ saves' = saves)
    BY <1>10 DEF Terminate
  <2> QED
    BY <1>4, <2>1, <2>2
<1>11. CASE Save
  <2>1. /\ saves # <<>> /\ file' = Head(saves) /\ saves' = Tail(saves) /\ seqIn' = seqIn
        /\ step' = step /\ saves \in Seq(Numbers)
    BY <1>1, <1>11 DEF Save, TypeOK
  <2>2. /\ saves' \in Seq(Numbers) /\ Head(saves) = saves[1] /\ Len(saves) \in Nat \ {0}
        /\ Len(saves') = Len(saves) - 1
        /\ \A i \in DOMAIN saves' : saves'[i] = saves[i + 1]
    BY <2>1, TailShifts
  <2>3. CASE saves' = <<>>
    <3>1. Len(saves) = 1
      BY <2>2, <2>3
    <3> QED
      BY <1>1, <2>1, <2>2, <2>3, <3>1 DEF Resetting
  <2>4. CASE saves' # <<>>
    <3>1. Len(saves') \in DOMAIN saves' /\ Len(saves') + 1 = Len(saves)
      BY <2>2, <2>4, LenProperties, EmptySeq
    <3>2. saves'[Len(saves')] = saves[Len(saves)]
      BY <2>2, <3>1
    <3> QED
      BY <1>1, <2>1, <2>4, <3>2 DEF Resetting
  <2> QED
    BY <2>3, <2>4
<1>12. CASE CrashAndStart
  <2>1. step'["poll"] = "idle"
    BY <1>12 DEF CrashAndStart, Threads
  <2> QED
    BY <1>2, <2>1
<1>13. CASE Exchange \/ UNCHANGED vars
  BY <1>3, <1>13 DEF Exchange, Publish, AcceptLogin, RejectAhead, RefuseLogin, Cut, NewDay,
                     HangUp, vars
<1> QED
  BY <1>2, <1>5, <1>6, <1>7, <1>8, <1>9, <1>10, <1>11, <1>12, <1>13 DEF Next, Dispatch

-----------------------------------------------------------------------------
(* The theorems.                                                           *)

\* The first state satisfies the invariant.
LEMMA InitIInv ==
    ASSUME Init
    PROVE  IInv
<1>1. /\ file \in Numbers /\ seqIn = file /\ saves = <<file>> /\ wire = <<>> /\ MaxMsgs \in Nat
      /\ 1 \in 1 .. MaxDays /\ 0 \in 0 .. MaxMsgs
  BY CfeConstants DEF Init, Numbers
<1>2. TypeOK
  <2>1. /\ wire \in Seq([type : Types, n : 0 .. MaxMsgs, day : 1 .. MaxDays])
        /\ saves \in Seq(Numbers)
    BY <1>1, EmptySeq
  <2>2. ex \in [seq : 0 .. MaxMsgs, day : 1 .. MaxDays, asked : Numbers,
                conn : {"none", "open", "asked", "in", "out"}]
    BY <1>1 DEF Init
  <2>3. used \in [Mishaps -> Nat] /\ \A k \in Mishaps : used[k] <= Limits[k]
    BY CfeConstants DEF Init
  <2>4. handled \in [1 .. MaxMsgs -> 0 .. 2]
    BY DEF Init
  <2> QED
    BY <1>1, <2>1, <2>2, <2>3, <2>4 DEF TypeOK, Init, States, Places
<1>3. Flow
  BY <1>1 DEF Init, Flow, InOrder, LiveIsNew, ReplayIsOn, Hand, NothingEarly
<1>4. Connecting
  BY <1>1 DEF Init, Connecting
<1>5. Resetting
  BY DEF Init, Resetting, Threads
<1> QED
  BY <1>2, <1>3, <1>4, <1>5 DEF IInv

\* The invariant of the session: the messages that are under way, the one in
\* hand, the connection and a reset stay consistent whatever happens.
THEOREM SpecIInv == Spec => []IInv
<1>1. Init => IInv
  BY InitIInv
<1>2. IInv /\ [Next]_vars => IInv'
  BY NextTypeOK, NextFlow, NextConnecting, NextResetting DEF IInv
<1> QED
  BY <1>1, <1>2, PTL DEF Spec

\* Every variable of the session keeps its type.
THEOREM SpecTypeOK == Spec => []TypeOK
<1>1. IInv => TypeOK
  BY DEF IInv
<1> QED
  BY <1>1, SpecIInv, PTL

\* When Dispatch has reset the numbers, StartSessionManager reads 0 back from
\* the state file, whatever SessSvc still had to write when the reset began.
THEOREM SpecResetReadsZero == Spec => []ResetReadsZero
<1>1. IInv => ResetReadsZero
  BY DEF IInv, Resetting, ResetReadsZero
<1> QED
  BY <1>1, SpecIInv, PTL

\* A message that the application handles for the second time comes before the
\* end of the replay, and is reported as a possible retransmission.
THEOREM SpecTwiceIsFlagged == Spec => TwiceIsFlagged
<1>1. ASSUME IInv, [Next]_vars, NEW n \in 1 .. MaxMsgs, handled[n] = 1, handled'[n] = 2
      PROVE  ~replayComplete
  <2>1. Flow /\ handled \in [1 .. MaxMsgs -> 0 .. 2] /\ handled' # handled
    <3>1. handled' # handled
      BY <1>1
    <3> QED
      BY <1>1, <3>1 DEF IInv, TypeOK
  <2>2. CASE ProcessApplicationMessage
    <3>1. msg.day = ex.day /\ msg.n = n /\ msg # None
      BY <1>1, <2>1, <2>2 DEF ProcessApplicationMessage
    <3>2. msg.type \in {"app", "replay"}
      BY <1>1, <3>1 DEF IInv, TypeOK
    <3> QED
      BY <1>1, <2>1, <3>1, <3>2 DEF Flow, Hand, Today, Data
  <2>3. CASE NewDay
    BY <1>1, <2>3 DEF NewDay
  <2>4. ProcessApplicationMessage \/ NewDay
    BY <1>1, <2>1
       DEF Next, Poll, Dispatch, Restart, Exchange, vars, seen,
           LoginMismatch, LoginAccepted, LoginAhead, LoggedOut, OnReplayComplete, Sequenced,
           Closed, Reconnect, BeginReset, ResetFails, SeesNoSocket, LoginAgain, LoginFirst,
           SeesSocket, StopHandler, StartSessionManager, StartTcpConnection, TcpReconnect,
           Terminate, Logout, Save, CrashAndStart, Publish, AcceptLogin, RejectAhead, RefuseLogin, Cut, HangUp
  <2> QED
    BY <2>2, <2>3, <2>4
<1>2. IInv /\ [Next]_vars =>
        [\A n \in 1 .. MaxMsgs : handled[n] = 1 /\ handled'[n] = 2 => ~replayComplete]_vars
  BY <1>1
<1> QED
  BY <1>2, SpecIInv, PTL DEF Spec, TwiceIsFlagged

-----------------------------------------------------------------------------
(* No message is passed over.                                              *)

\* What stands on a wire: the logins, the messages of day d, the replayed ones.
Logins(w) == {w[i] : i \in {j \in DOMAIN w : w[j].type = "login"}}
Datas(w, d) == {w[i].n : i \in {j \in DOMAIN w : Data(w[j]) /\ w[j].day = d}}
Replays(w, d) == {w[i].n : i \in {j \in DOMAIN w : w[j].type = "replay" /\ w[j].day = d}}

\* The numbers the session has, or may start from.
Known == {seqIn, file} \cup {saves[i] : i \in DOMAIN saves}

\* SEQ_IN is what was queued for the file last, so that a session that reads
\* the file when all is written changes nothing.
Synced ==
    /\ saves = <<>> => file = seqIn
    /\ saves # <<>> => saves[Len(saves)] = seqIn

NoneAhead == \A q \in Known : q.day <= ex.day

\* Only a reset that is due begins, and its handler starts from 0 alone.
ResetIsDue ==
    /\ step["poll"] # "idle" => needsReset
    /\ step["poll"] = "tcp" => \A q \in Known : q.n = 0

\* A login is before the messages of its connection, and all are of one day.
LoginLeads ==
    /\ \A i, j \in DOMAIN wire : i < j /\ wire[j].type = "login" => Plain(wire[i])
    /\ ex.conn = "in" \/ Datas(wire, ex.day) # {} =>
          \A i \in DOMAIN wire :
             wire[i].type = "login" \/ Data(wire[i]) => wire[i].day = ex.day

Done(n) == handled[n] > 0 \/ n \in excused
InHand(n) == msg # None /\ msg.day = ex.day /\ msg.n = n

\* No message up to n of the day can be missed: it was handled, is in hand, or
\* is under way in the replay of a login that was taken.
Covers(n) ==
    \A k \in 1 .. n :
       Done(k) \/ InHand(k) \/ (Logins(wire) = {} /\ k \in Replays(wire, ex.day))

Covered == \A q \in Known : q.day = ex.day => Covers(q.n)

AskedIsSeqIn == ex.conn = "asked" => ex.asked = seqIn

Fits == \A l \in Logins(wire) : seqIn.n <= l.n

\* A login that fits brings what it moves SEQ_IN past.
LoginBrings ==
    \A l \in Logins(wire) :
       l.day = ex.day /\ seqIn.n <= l.n =>
          \A k \in 1 .. l.n : Done(k) \/ k \in Replays(wire, ex.day)

\* A client that is logged in has, or will have, all of the day.
AllSent ==
    ex.conn = "in" /\ Fits =>
       \A k \in 1 .. ex.seq : Done(k) \/ InHand(k) \/ k \in Datas(wire, ex.day)

\* The messages of the day come to a SEQ_IN of the day.
OfThisDay ==
    Logins(wire) = {} /\ (ex.conn = "in" \/ Datas(wire, ex.day) # {}) => seqIn.day = ex.day

\* While no reset is due no number passes over a message.
NonePassed ==
    ~needsReset => Covered /\ AskedIsSeqIn /\ LoginBrings /\ AllSent /\ OfThisDay

SkipInv == Synced /\ NoneAhead /\ ResetIsDue /\ LoginLeads /\ NonePassed

-----------------------------------------------------------------------------
(* What stands on the wire when a message is taken, sent or lost.          *)

\* A message of the wire stands on it.
LEMMA OnWire ==
    ASSUME NEW w, NEW d, NEW i \in DOMAIN w
    PROVE  /\ w[i].type = "login" => w[i] \in Logins(w)
           /\ Data(w[i]) /\ w[i].day = d => w[i].n \in Datas(w, d)
           /\ w[i].type = "replay" /\ w[i].day = d => w[i].n \in Replays(w, d)
BY DEF Logins, Datas, Replays

\* Every message of v is one of w, or one without data and no login.
LEMMA PartOfWire ==
    ASSUME NEW v, NEW w, NEW d,
           \A i \in DOMAIN v : (\E j \in DOMAIN w : v[i] = w[j]) \/ Plain(v[i])
    PROVE  /\ Logins(v) \subseteq Logins(w)
           /\ Datas(v, d) \subseteq Datas(w, d) /\ Replays(v, d) \subseteq Replays(w, d)
<1> USE DEF Plain, Data
<1>1. ASSUME NEW l \in Logins(v) PROVE l \in Logins(w)
  <2>1. PICK i \in DOMAIN v : v[i].type = "login" /\ l = v[i]
    BY <1>1 DEF Logins
  <2> QED
    BY <2>1, OnWire
<1>2. ASSUME NEW n \in Datas(v, d) PROVE n \in Datas(w, d)
  <2>1. PICK i \in DOMAIN v : Data(v[i]) /\ v[i].day = d /\ n = v[i].n
    BY <1>2 DEF Datas
  <2> QED
    BY <2>1, OnWire
<1>3. ASSUME NEW n \in Replays(v, d) PROVE n \in Replays(w, d)
  <2>1. PICK i \in DOMAIN v : v[i].type = "replay" /\ v[i].day = d /\ n = v[i].n
    BY <1>3 DEF Replays
  <2> QED
    BY <2>1, OnWire
<1> QED
  BY <1>1, <1>2, <1>3

\* Every message of w is one of v or of lost.
LEMMA WireSplits ==
    ASSUME NEW w, NEW v, NEW lost, NEW d,
           \A i \in DOMAIN w : \/ \E j \in DOMAIN v : w[i] = v[j]
                               \/ \E j \in DOMAIN lost : w[i] = lost[j]
    PROVE  /\ Logins(w) \subseteq Logins(v) \cup Logins(lost)
           /\ Datas(w, d) \subseteq Datas(v, d) \cup Datas(lost, d)
           /\ Replays(w, d) \subseteq Replays(v, d) \cup Replays(lost, d)
<1>1. ASSUME NEW l \in Logins(w) PROVE l \in Logins(v) \cup Logins(lost)
  <2>1. PICK i \in DOMAIN w : w[i].type = "login" /\ l = w[i]
    BY <1>1 DEF Logins
  <2> QED
    BY <2>1, OnWire
<1>2. ASSUME NEW n \in Datas(w, d) PROVE n \in Datas(v, d) \cup Datas(lost, d)
  <2>1. PICK i \in DOMAIN w : Data(w[i]) /\ w[i].day = d /\ n = w[i].n
    BY <1>2 DEF Datas
  <2> QED
    BY <2>1, OnWire
<1>3. ASSUME NEW n \in Replays(w, d) PROVE n \in Replays(v, d) \cup Replays(lost, d)
  <2>1. PICK i \in DOMAIN w : w[i].type = "replay" /\ w[i].day = d /\ n = w[i].n
    BY <1>3 DEF Replays
  <2> QED
    BY <2>1, OnWire
<1> QED
  BY <1>1, <1>2, <1>3

\* One message more, or less, at either end.
LEMMA OneMessage ==
    ASSUME NEW m, NEW one, NEW d, DOMAIN one = {1}, one[1] = m
    PROVE  /\ Logins(one) = IF m.type = "login" THEN {m} ELSE {}
           /\ Datas(one, d) = IF Data(m) /\ m.day = d THEN {m.n} ELSE {}
           /\ Replays(one, d) = IF m.type = "replay" /\ m.day = d THEN {m.n} ELSE {}
BY DEF Logins, Datas, Replays

\* Taking the head of the wire leaves the rest.
LEMMA TakingLeaves ==
    ASSUME NEW w \in Seq(Sent), w # <<>>, NEW d
    PROVE  /\ Logins(Tail(w)) \subseteq Logins(w) /\ Datas(Tail(w), d) \subseteq Datas(w, d)
           /\ Replays(Tail(w), d) \subseteq Replays(w, d)
           /\ \A l \in Logins(w) : l \in Logins(Tail(w)) \/ (l = Head(w) /\ l.type = "login")
           /\ \A n \in Datas(w, d) :
                 n \in Datas(Tail(w), d) \/ (n = Head(w).n /\ Data(Head(w)) /\ Head(w).day = d)
           /\ \A n \in Replays(w, d) :
                 \/ n \in Replays(Tail(w), d)
                 \/ n = Head(w).n /\ Head(w).type = "replay" /\ Head(w).day = d
           /\ Head(w).type = "login" => Head(w) \in Logins(w)
           /\ Data(Head(w)) /\ Head(w).day = d => Head(w).n \in Datas(w, d)
<1> DEFINE v == Tail(w)
           one == [i \in {1} |-> Head(w)]
<1>1. /\ Head(w) = w[1] /\ 1 \in DOMAIN w /\ DOMAIN w = 1 .. Len(w) /\ Len(w) \in Nat
      /\ DOMAIN v = 1 .. Len(w) - 1
      /\ \A i \in DOMAIN v : i \in Nat \ {0} /\ i + 1 \in DOMAIN w /\ v[i] = w[i + 1]
  BY TailShifts, LenProperties
<1>2. \A i \in DOMAIN v : \E j \in DOMAIN w : v[i] = w[j]
  BY <1>1
<1>3. \A i \in DOMAIN w : \/ \E j \in DOMAIN v : w[i] = v[j]
                          \/ \E j \in DOMAIN one : w[i] = one[j]
  <2> SUFFICES ASSUME NEW i \in DOMAIN w
               PROVE  \/ \E j \in DOMAIN v : w[i] = v[j]
                      \/ \E j \in DOMAIN one : w[i] = one[j]
    OBVIOUS
  <2>1. CASE i = 1
    BY <1>1, <2>1
  <2>2. CASE i # 1
    <3>1. i - 1 \in DOMAIN v /\ (i - 1) + 1 = i
      BY <1>1, <2>2
    <3>2. v[i - 1] = w[i]
      BY <1>1, <3>1
    <3> QED
      BY <3>1, <3>2
  <2> QED
    BY <2>1, <2>2
<1>4. DOMAIN one = {1} /\ one[1] = Head(w)
  OBVIOUS
<1> HIDE DEF v, one
<1>5. /\ Logins(v) \subseteq Logins(w) /\ Datas(v, d) \subseteq Datas(w, d)
      /\ Replays(v, d) \subseteq Replays(w, d)
  BY <1>2, PartOfWire
<1>6. /\ Logins(w) \subseteq Logins(v) \cup Logins(one)
      /\ Datas(w, d) \subseteq Datas(v, d) \cup Datas(one, d)
      /\ Replays(w, d) \subseteq Replays(v, d) \cup Replays(one, d)
  BY <1>3, WireSplits
<1>7. /\ Logins(one) = IF Head(w).type = "login" THEN {Head(w)} ELSE {}
      /\ Datas(one, d) = IF Data(Head(w)) /\ Head(w).day = d THEN {Head(w).n} ELSE {}
      /\ Replays(one, d) = IF Head(w).type = "replay" /\ Head(w).day = d THEN {Head(w).n} ELSE {}
  BY <1>4, OneMessage
<1>8. /\ Head(w).type = "login" => Head(w) \in Logins(w)
      /\ Data(Head(w)) /\ Head(w).day = d => Head(w).n \in Datas(w, d)
  BY <1>1, OnWire
<1> QED
  BY <1>5, <1>6, <1>7, <1>8 DEF v

\* A message sent stands on the wire.
LEMMA SendingAdds ==
    ASSUME NEW w \in Seq(Sent), NEW m \in Sent, NEW d
    PROVE  /\ Logins(w) \subseteq Logins(Append(w, m))
           /\ Datas(w, d) \subseteq Datas(Append(w, m), d)
           /\ Replays(w, d) \subseteq Replays(Append(w, m), d)
           /\ \A l \in Logins(Append(w, m)) : l \in Logins(w) \/ (l = m /\ m.type = "login")
           /\ Data(m) /\ m.day = d => m.n \in Datas(Append(w, m), d)
<1> DEFINE v == Append(w, m)
           one == [i \in {1} |-> m]
<1>1. /\ DOMAIN w = 1 .. Len(w) /\ Len(w) \in Nat /\ DOMAIN v = 1 .. Len(w) + 1
      /\ v[Len(w) + 1] = m /\ \A i \in DOMAIN w : v[i] = w[i]
      /\ \A i \in DOMAIN v : i \in DOMAIN w \/ i = Len(w) + 1
  BY AppendProperties, LenProperties
<1>2. \A i \in DOMAIN w : \E j \in DOMAIN v : w[i] = v[j]
  BY <1>1
<1>3. \A i \in DOMAIN v : \/ \E j \in DOMAIN w : v[i] = w[j]
                          \/ \E j \in DOMAIN one : v[i] = one[j]
  BY <1>1
<1>4. DOMAIN one = {1} /\ one[1] = m /\ Len(w) + 1 \in DOMAIN v
  BY <1>1
<1> HIDE DEF v, one
<1>5. /\ Logins(w) \subseteq Logins(v) /\ Datas(w, d) \subseteq Datas(v, d)
      /\ Replays(w, d) \subseteq Replays(v, d)
  BY <1>2, PartOfWire
<1>6. Logins(v) \subseteq Logins(w) \cup Logins(one)
  BY <1>3, WireSplits
<1>7. Logins(one) = IF m.type = "login" THEN {m} ELSE {}
  BY <1>4, OneMessage
<1>8. Data(m) /\ m.day = d => m.n \in Datas(v, d)
  BY <1>1, <1>4, OnWire
<1> QED
  BY <1>5, <1>6, <1>7, <1>8 DEF v

-----------------------------------------------------------------------------
(* Messages lost with a connection.                                        *)

\* v is what is left of the wire, lost what is not.
Loses(v, lost) ==
    /\ Logins(v) \subseteq Logins(wire) /\ Logins(lost) \subseteq Logins(wire)
    /\ Logins(wire) \subseteq Logins(v) \cup Logins(lost)
    /\ Datas(v, ex.day) \subseteq Datas(wire, ex.day)
    /\ Replays(wire, ex.day) \subseteq Replays(v, ex.day) \cup Replays(lost, ex.day)
    /\ Logins(v) # {} \/ Datas(v, ex.day) # {} => Logins(lost) = {}

\* Nothing stands on an empty wire.
LEMMA EmptyWire ==
    ASSUME NEW d
    PROVE  Logins(<<>>) = {} /\ Datas(<<>>, d) = {} /\ Replays(<<>>, d) = {}
<1>1. DOMAIN <<>> = {}
  OBVIOUS
<1> QED
  BY <1>1 DEF Logins, Datas, Replays

\* The end of the wire is lost,
LEMMA CutLoses ==
    ASSUME TypeOK, LoginLeads, NEW k \in 0 .. Len(wire), NEW c \in Sent, Plain(c), NEW v,
           v = Prefix(wire, k) \/ v = Append(Prefix(wire, k), c)
    PROVE  Loses(v, Suffix(wire, k))
<1> DEFINE lost == Suffix(wire, k)
           d == ex.day
<1>1. wire \in Seq(Sent) /\ DOMAIN wire = 1 .. Len(wire) /\ Len(wire) \in Nat /\ k \in Nat
      /\ k <= Len(wire)
  BY LenProperties DEF TypeOK, Sent
<1>2. /\ Prefix(wire, k) \in Seq(Sent) /\ Len(Prefix(wire, k)) = k
      /\ DOMAIN Prefix(wire, k) = 1 .. k
      /\ \A i \in 1 .. k : Prefix(wire, k)[i] = wire[i]
  <2>1. SubSeq(wire, 1, k) \in Seq(Sent) /\ Len(SubSeq(wire, 1, k)) = k
        /\ \A i \in 1 .. k : SubSeq(wire, 1, k)[i] = wire[i]
    BY <1>1, SubSeqProperties
  <2> QED
    BY <2>1, LenProperties DEF Prefix
<1>3. /\ \A i \in DOMAIN v : (i \in 1 .. k /\ v[i] = wire[i]) \/ Plain(v[i])
      /\ \A i \in 1 .. k : i \in DOMAIN v /\ v[i] = wire[i]
  <2>1. CASE v = Prefix(wire, k)
    BY <1>2, <2>1
  <2>2. CASE v = Append(Prefix(wire, k), c)
    <3>1. /\ DOMAIN v = 1 .. k + 1 /\ v[k + 1] = c
          /\ \A i \in 1 .. k : v[i] = Prefix(wire, k)[i]
      BY <1>1, <1>2, <2>2, AppendProperties, LenProperties
    <3>2. \A i \in DOMAIN v : i \in 1 .. k \/ i = k + 1
      BY <1>1, <3>1
    <3>3. \A i \in 1 .. k : i \in DOMAIN v
      BY <1>1, <3>1
    <3> QED
      BY <1>2, <3>1, <3>2, <3>3
  <2> QED
    BY <2>1, <2>2
<1>4. /\ \A i \in DOMAIN lost : i + k \in DOMAIN wire /\ i + k > k /\ lost[i] = wire[i + k]
      /\ \A j \in DOMAIN wire : j > k => j - k \in DOMAIN lost /\ lost[j - k] = wire[j]
  <2> DEFINE s == SubSeq(wire, k + 1, Len(wire))
  <2>1. s \in Seq(Sent) /\ Len(s) = Len(wire) - k /\ \A i \in 1 .. Len(wire) - k : s[i] = wire[i + k]
    BY <1>1, SubSeqProperties
  <2>2. DOMAIN s = 1 .. Len(wire) - k
    BY <2>1, LenProperties
  <2>3. lost = s
    BY DEF Suffix
  <2> HIDE DEF s
  <2>4. \A i \in 1 .. Len(wire) - k : i + k \in DOMAIN wire /\ i + k > k
    BY <1>1
  <2>5. \A j \in DOMAIN wire : j > k => j - k \in 1 .. Len(wire) - k /\ (j - k) + k = j
    BY <1>1
  <2> QED
    BY <2>1, <2>2, <2>3, <2>4, <2>5
<1> HIDE DEF lost
<1>5. /\ Logins(v) \subseteq Logins(wire) /\ Datas(v, d) \subseteq Datas(wire, d)
  <2>1. \A i \in DOMAIN v : (\E j \in DOMAIN wire : v[i] = wire[j]) \/ Plain(v[i])
    BY <1>1, <1>3
  <2> QED
    BY <2>1, PartOfWire
<1>6. Logins(lost) \subseteq Logins(wire)
  <2>1. \A i \in DOMAIN lost : (\E j \in DOMAIN wire : lost[i] = wire[j]) \/ Plain(lost[i])
    BY <1>4
  <2> QED
    BY <2>1, PartOfWire
<1>7. /\ Logins(wire) \subseteq Logins(v) \cup Logins(lost)
      /\ Replays(wire, d) \subseteq Replays(v, d) \cup Replays(lost, d)
  <2>1. \A i \in DOMAIN wire : \/ \E j \in DOMAIN v : wire[i] = v[j]
                               \/ \E j \in DOMAIN lost : wire[i] = lost[j]
    <3> SUFFICES ASSUME NEW i \in DOMAIN wire
                 PROVE  \/ \E j \in DOMAIN v : wire[i] = v[j]
                        \/ \E j \in DOMAIN lost : wire[i] = lost[j]
      OBVIOUS
    <3>1. i \in 1 .. k \/ i > k
      BY <1>1
    <3> QED
      BY <1>3, <1>4, <3>1
  <2> QED
    BY <2>1, WireSplits
<1>8. ASSUME Logins(lost) # {} PROVE Logins(v) = {} /\ Datas(v, d) = {}
  <2>1. PICK j \in DOMAIN lost : lost[j].type = "login"
    BY <1>8 DEF Logins
  <2>2. \A i \in 1 .. k : Plain(wire[i])
    <3>1. \A i \in 1 .. k : i \in DOMAIN wire /\ i < j + k
      BY <1>1, <1>4
    <3> QED
      BY <1>4, <2>1, <3>1 DEF LoginLeads
  <2>3. \A i \in DOMAIN v : Plain(v[i])
    BY <1>3, <2>2
  <2> QED
    BY <2>3 DEF Logins, Datas, Plain, Data
<1> QED
  BY <1>5, <1>6, <1>7, <1>8 DEF Loses, lost

\* or all of it,
LEMMA AllLost == Loses(<<>>, wire)
BY EmptyWire DEF Loses

\* or nothing, and messages without data are added.
LEMMA NothingLost ==
    ASSUME NEW v,
           \A i \in DOMAIN v : (\E j \in DOMAIN wire : v[i] = wire[j]) \/ Plain(v[i]),
           \A i \in DOMAIN wire : \E j \in DOMAIN v : wire[i] = v[j]
    PROVE  Loses(v, <<>>) /\ Unreplayed(<<>>) = {}
<1>1. Logins(v) \subseteq Logins(wire) /\ Datas(v, ex.day) \subseteq Datas(wire, ex.day)
  BY PartOfWire
<1>2. Logins(wire) \subseteq Logins(v) /\ Replays(wire, ex.day) \subseteq Replays(v, ex.day)
  BY PartOfWire
<1>3. Unreplayed(<<>>) = {}
  <2>1. DOMAIN <<>> = {}
    OBVIOUS
  <2> QED
    BY <2>1 DEF Unreplayed
<1> QED
  BY <1>1, <1>2, <1>3, EmptyWire DEF Loses

\* What counts as lost.
LEMMA UnreplayedIs ==
    ASSUME NEW lost, Logins(lost) = {}
    PROVE  Unreplayed(lost) = Replays(lost, ex.day)
<1>1. ~\E i \in DOMAIN lost : lost[i].type = "login"
  BY DEF Logins
<1> QED
  BY <1>1 DEF Unreplayed, Replays

-----------------------------------------------------------------------------
(* The numbers the session may start from.                                 *)

\* Queueing a number makes it known.
LEMMA QueueKnown ==
    ASSUME TypeOK, NEW q \in Numbers, Queue(q), seqIn' = q
    PROVE  \A p \in Known' : p = q \/ p = file' \/ \E i \in DOMAIN saves : p = saves[i]
<1>1. saves \in Seq(Numbers)
  BY DEF TypeOK
<1>2. \A i \in DOMAIN saves' : saves'[i] = q \/ \E j \in DOMAIN saves : saves'[i] = saves[j]
  <2>1. CASE saves' = saves
    BY <2>1
  <2>2. CASE saves' = Append(saves, q)
    BY <1>1, <2>2, AppendAdds
  <2> QED
    BY <2>1, <2>2 DEF Queue
<1> QED
  BY <1>2 DEF Known

\* Queueing SEQ_IN again adds no number.
LEMMA QueuedAgain ==
    ASSUME TypeOK, Queue(seqIn), UNCHANGED <<seqIn, file>>
    PROVE  Known' \subseteq Known
<1>1. seqIn \in Numbers
  BY DEF TypeOK
<1>2. \A p \in Known' : p = seqIn \/ p = file' \/ \E i \in DOMAIN saves : p = saves[i]
  BY <1>1, QueueKnown
<1> QED
  BY <1>2 DEF Known

\* What holds of these numbers, reset or not.
Numbering == Synced /\ NoneAhead /\ ResetIsDue

\* Nothing is added to the numbers, and no handler is started.
LEMMA StillNumbers ==
    ASSUME IInv, Numbering, UNCHANGED <<seqIn, saves, file>>, ex'.day >= ex.day, ex'.day \in Nat,
           step'["poll"] # "idle" => needsReset',
           step'["poll"] = "tcp" => step["poll"] = "tcp"
    PROVE  Numbering'
<1>1. Known' = Known
  BY DEF Known
<1>2. \A q \in Known : q.day \in Nat /\ q.day <= ex.day /\ ex.day \in Nat
  <2>1. Known \subseteq Numbers
    BY LenProperties, ElementOfSeq DEF IInv, TypeOK, Known
  <2> QED
    BY <2>1 DEF Numbering, NoneAhead, Numbers, IInv, TypeOK
<1>3. NoneAhead'
  <2> SUFFICES ASSUME NEW q \in Known PROVE q.day <= ex'.day
    BY <1>1 DEF NoneAhead
  <2> QED
    BY <1>2
<1> QED
  BY <1>1, <1>3 DEF Numbering, Synced, ResetIsDue

\* One number is added.
LEMMA NextNumber ==
    ASSUME IInv, Numbering, NEW q \in Numbers, Queue(q), seqIn' = q, q.day <= ex.day,
           ex'.day = ex.day, file'.day = file.day,
           step'["poll"] # "idle" => needsReset',
           step'["poll"] = "tcp" => q.n = 0 /\ file'.n = 0 /\ \A i \in DOMAIN saves : saves[i].n = 0
    PROVE  Numbering'
<1>1. saves' # <<>> /\ saves'[Len(saves')] = q
  BY QueueTyped DEF IInv
<1>2. \A p \in Known' : p = q \/ p = file' \/ \E i \in DOMAIN saves : p = saves[i]
  BY QueueKnown DEF IInv
<1>3. NoneAhead'
  BY <1>2 DEF Numbering, NoneAhead, Known
<1>4. ResetIsDue'
  BY <1>2 DEF ResetIsDue
<1> QED
  BY <1>1, <1>3, <1>4 DEF Numbering, Synced

\* Every step keeps the numbers of the session and the file consistent.
LEMMA NextNumbering ==
    ASSUME IInv, Numbering, [Next]_vars
    PROVE  Numbering'
<1> USE DEF flags, store, seen
<1>1. /\ TypeOK /\ step \in [Threads -> Places]
      /\ seqIn \in Numbers /\ file \in Numbers /\ saves \in Seq(Numbers)
      /\ wire \in Seq(Sent) /\ ex.day \in Nat /\ "poll" \in Threads
  BY CfeConstants DEF IInv, TypeOK, Threads, Sent
<1>2. seqIn.day <= ex.day /\ file.day <= ex.day
  BY DEF Numbering, NoneAhead, Known
<1>3. step["poll"] # "idle" => needsReset
  BY DEF Numbering, ResetIsDue
<1>4. ASSUME UNCHANGED <<seqIn, saves, file>>, ex'.day = ex.day,
             step'["poll"] = step["poll"], needsReset' \in {needsReset, TRUE}
      PROVE  Numbering'
  <2>1. ex'.day >= ex.day /\ ex'.day \in Nat
    BY <1>1, <1>4
  <2>2. needsReset => needsReset'
    BY <1>4
  <2> QED
    BY <1>3, <1>4, <2>1, <2>2, StillNumbers
<1>5. ASSUME UNCHANGED <<seqIn, file>>, Queue(seqIn) \/ saves' = saves, ex'.day = ex.day,
             step'["poll"] # "idle" => needsReset',
             step'["poll"] = "tcp" => step["poll"] = "tcp"
      PROVE  Numbering'
  <2>1. CASE saves' = saves
    <3>1. ex'.day >= ex.day /\ ex'.day \in Nat
      BY <1>1, <1>5
    <3> QED
      BY <1>5, <2>1, <3>1, StillNumbers
  <2>2. CASE Queue(seqIn)
    <3>1. step["poll"] = "tcp" =>
            seqIn.n = 0 /\ file.n = 0 /\ \A i \in DOMAIN saves : saves[i].n = 0
      BY DEF Numbering, ResetIsDue, Known
    <3> QED
      BY <1>1, <1>2, <1>5, <2>2, <3>1, NextNumber
  <2> QED
    BY <1>5, <2>1, <2>2
<1>6. CASE Poll
  <2>1. CASE LoginMismatch \/ LoginAhead \/ LoggedOut \/ OnReplayComplete
             \/ ProcessApplicationMessage \/ Closed \/ Reconnect
    <3>1. UNCHANGED <<seqIn, saves, file>> /\ ex'.day = ex.day /\ step' = step
      BY <1>1, <2>1
         DEF LoginMismatch, LoginAhead, LoggedOut, OnReplayComplete,
             ProcessApplicationMessage, Closed, Reconnect, Connects, IInv, TypeOK
    <3>2. needsReset' \in {needsReset, TRUE}
      BY <2>1 DEF LoginMismatch, LoginAhead, LoggedOut, OnReplayComplete,
                  ProcessApplicationMessage, Closed, Reconnect
    <3> QED
      BY <1>4, <3>1, <3>2
  <2>2. ASSUME step["poll"] = "idle", step' = step, ex' = ex, file' = file, needsReset' = needsReset,
               wire # <<>>, SetSeqIn([n |-> Head(wire).n, day |-> Head(wire).day])
        PROVE  Numbering'
    <3> DEFINE q == [n |-> Head(wire).n, day |-> Head(wire).day]
    <3>1. Head(wire) \in Sent /\ Head(wire) = wire[1] /\ 1 \in DOMAIN wire
      BY <1>1, <2>2, TailShifts
    <3>2. q \in Numbers
      BY <3>1 DEF Sent, Numbers
    <3>3. q.day <= ex.day
      BY <3>1 DEF IInv, Flow, InOrder
    <3>4. Queue(q) /\ seqIn' = q
      BY <2>2 DEF SetSeqIn
    <3> HIDE DEF q
    <3> QED
      BY <2>2, <3>2, <3>3, <3>4, NextNumber
  <2>3. CASE LoginAccepted
    BY <2>2, <2>3 DEF LoginAccepted, Receive
  <2>4. CASE Sequenced
    <3>1. /\ step["poll"] = "idle" /\ step' = step /\ ex' = ex /\ file' = file
          /\ needsReset' = needsReset /\ wire # <<>> /\ CheckIncomingSeq(Head(wire))
      BY <2>4 DEF Sequenced, Receive
    <3>2. \/ SetSeqIn([n |-> Head(wire).n, day |-> Head(wire).day])
          \/ UNCHANGED <<seqIn, saves>>
      BY <3>1 DEF CheckIncomingSeq
    <3> QED
      BY <1>4, <2>2, <3>1, <3>2
  <2> QED
    BY <1>6, <2>1, <2>3, <2>4 DEF Poll
<1>7. CASE BeginReset \/ ResetFails
  <2> DEFINE q == [seqIn EXCEPT !.n = 0]
  <2>1. q \in Numbers /\ q.day = seqIn.day /\ [file EXCEPT !.n = 0].day = file.day
    <3>1. 0 \in 0 .. MaxMsgs
      BY CfeConstants
    <3> QED
      BY <1>1, <3>1 DEF Numbers
  <2>2. seqIn' = q /\ Queue(q) /\ ex' = ex /\ needsReset /\ needsReset' = needsReset
    BY <1>7 DEF BeginReset, ResetFails, ResetSessionSeqNumsToZero, SetSeqIn
  <2>3. file' = [file EXCEPT !.n = 0] \/ file' = file
    BY <1>7 DEF BeginReset, ResetFails
  <2>4. step'["poll"] # "tcp"
    BY <1>1, <1>7 DEF BeginReset, ResetFails, InDispatch
  <2> HIDE DEF q
  <2> QED
    BY <1>2, <2>1, <2>2, <2>3, <2>4, NextNumber
<1>8. CASE SeesNoSocket \/ LoginFirst \/ SeesSocket
  <2>1. /\ UNCHANGED <<seqIn, saves, file>> /\ step' = step /\ needsReset' = needsReset
        /\ ex'.day = ex.day
    BY <1>1, <1>8 DEF SeesNoSocket, LoginFirst, SeesSocket, SessionLogin, IInv, TypeOK
  <2> QED
    BY <1>4, <2>1
<1>9. CASE LoginAgain
  <2>1. /\ step["poll"] = "idle" /\ step' = step /\ file' = file /\ seqIn' = file /\ Queue(file)
        /\ ex'.day = ex.day
    BY <1>1, <1>9 DEF LoginAgain, Dispatching, InDispatch, SessionLogin, IInv, TypeOK
  <2> QED
    BY <1>1, <1>2, <2>1, NextNumber
<1>10. ASSUME NEW t \in Threads, Restart(t)
      PROVE  Numbering'
  <2>1. t = "poll" \/ (t = "cmd" /\ t # "poll")
    BY DEF Threads
  <2>2. CASE StopHandler(t)
    <3>1. /\ UNCHANGED <<seqIn, saves, file>> /\ needsReset' = needsReset
          /\ step[t] = "stop" /\ step' = [step EXCEPT ![t] = "session"] /\ ex'.day = ex.day
      BY <2>2 DEF StopHandler, IInv, TypeOK
    <3>2. step'["poll"] # "idle" => step["poll"] # "idle"
      BY <1>1, <2>1, <3>1
    <3>3. step'["poll"] = "tcp" => step["poll"] = "tcp"
      BY <1>1, <2>1, <3>1
    <3>4. ex'.day >= ex.day /\ ex'.day \in Nat
      BY <1>1, <3>1
    <3> QED
      BY <1>3, <3>1, <3>2, <3>3, <3>4, StillNumbers
  <2>3. CASE StartSessionManager(t)
    <3>1. /\ step[t] = "session" /\ saves = <<>> /\ step' = [step EXCEPT ![t] = "tcp"]
          /\ seqIn' = file /\ Queue(file) /\ file' = file /\ ex' = ex /\ needsReset' = needsReset
      BY <2>3 DEF StartSessionManager
    <3>2. step'["poll"] # "idle" => step["poll"] # "idle"
      BY <1>1, <2>1, <3>1
    <3>3. step'["poll"] = "tcp" => step["poll"] # "idle"
      BY <1>1, <2>1, <3>1
    <3>4. step'["poll"] = "tcp" => file.n = 0 /\ \A i \in DOMAIN saves : saves[i].n = 0
      BY <3>1, <3>3 DEF IInv, Resetting
    <3> QED
      BY <1>1, <1>2, <1>3, <3>1, <3>2, <3>4, NextNumber
  <2>4. CASE StartTcpConnection(t)
    <3>1. /\ UNCHANGED <<seqIn, file>> /\ needsReset' = (needsReset /\ t # "poll")
          /\ Queue(seqIn) \/ saves' = saves
          /\ step' = [step EXCEPT ![t] = "idle"] /\ ex'.day = ex.day
      BY <2>4 DEF StartTcpConnection, Connects, Fails, IInv, TypeOK
    <3>2. step'["poll"] # "idle" => step'["poll"] = step["poll"] /\ t # "poll"
      BY <1>1, <2>1, <3>1
    <3>3. step'["poll"] # "idle" => needsReset'
      BY <1>3, <3>1, <3>2
    <3>4. step'["poll"] = "tcp" => step["poll"] = "tcp"
      BY <3>2
    <3> QED
      BY <1>5, <3>1, <3>3, <3>4
  <2> QED
    BY <1>10, <2>2, <2>3, <2>4 DEF Restart
<1>11. CASE TcpReconnect \/ Logout
  <2>1. step'["poll"] = step["poll"] /\ ex'.day = ex.day
    BY <1>1, <1>11 DEF TcpReconnect, Logout, Threads, IInv, TypeOK
  <2> QED
    BY <1>4, <1>11, <2>1 DEF TcpReconnect, Logout
<1>12. CASE Terminate
  <2>1. step'["poll"] = step["poll"]
    BY <1>1, <1>12 DEF Terminate, Threads
  <2>2. /\ seqIn' = seqIn /\ file' = file /\ needsReset' = needsReset
        /\ (Queue(seqIn) \/ saves' = saves) /\ ex'.day = ex.day
    BY <1>12 DEF Terminate, IInv, TypeOK
  <2> QED
    BY <1>3, <1>5, <2>1, <2>2
<1>13. CASE Save
  <2>1. /\ saves # <<>> /\ file' = Head(saves) /\ saves' = Tail(saves) /\ seqIn' = seqIn
        /\ step' = step /\ needsReset' = needsReset /\ ex' = ex
    BY <1>13 DEF Save
  <2>2. /\ saves' \in Seq(Numbers) /\ Head(saves) = saves[1] /\ 1 \in DOMAIN saves
        /\ Len(saves) \in Nat \ {0} /\ Len(saves') = Len(saves) - 1
        /\ \A i \in DOMAIN saves' : i + 1 \in DOMAIN saves /\ saves'[i] = saves[i + 1]
    BY <1>1, <2>1, TailShifts
  <2>3. Known' \subseteq Known
    BY <2>1, <2>2 DEF Known
  <2>4. Synced'
    <3>1. CASE saves' = <<>>
      <4>1. Len(saves) = 1
        BY <2>2, <3>1
      <4> QED
        BY <2>1, <2>2, <3>1, <4>1 DEF Numbering, Synced
    <3>2. CASE saves' # <<>>
      <4>1. Len(saves') \in DOMAIN saves' /\ Len(saves') + 1 = Len(saves)
        BY <2>2, <3>2, LenProperties, EmptySeq
      <4>2. saves'[Len(saves')] = saves[Len(saves)]
        BY <2>2, <4>1
      <4> QED
        BY <2>1, <3>2, <4>2 DEF Numbering, Synced
    <3> QED
      BY <3>1, <3>2
  <2> QED
    BY <2>1, <2>3, <2>4 DEF Numbering, NoneAhead, ResetIsDue
<1>14. CASE CrashAndStart
  <2>1. /\ step'["poll"] = "idle" /\ seqIn' = file /\ file' = file /\ saves' = <<file>>
        /\ ex'.day = ex.day
    BY <1>14 DEF CrashAndStart, Threads, IInv, TypeOK
  <2>2. Known' = {file} /\ saves' # <<>> /\ saves'[Len(saves')] = file
    BY <2>1 DEF Known
  <2> QED
    BY <1>2, <2>1, <2>2 DEF Numbering, NoneAhead, ResetIsDue, Synced
<1>15. CASE Exchange
  <2>1. UNCHANGED <<seqIn, saves, file, step, needsReset>>
    BY <1>15 DEF Exchange, Publish, AcceptLogin, RejectAhead, RefuseLogin, Cut, NewDay, HangUp
  <2>2. CASE NewDay
    <3>1. ex'.day = ex.day + 1
      BY <2>2 DEF NewDay, IInv, TypeOK
    <3>2. ex'.day >= ex.day /\ ex'.day \in Nat
      BY <1>1, <3>1
    <3> QED
      BY <1>3, <2>1, <3>2, StillNumbers
  <2>3. CASE ~NewDay
    <3>1. ex'.day = ex.day
      BY <1>15, <2>3
         DEF Exchange, Publish, AcceptLogin, RejectAhead, RefuseLogin, Cut, HangUp, IInv, TypeOK
    <3> QED
      BY <1>4, <2>1, <3>1
  <2> QED
    BY <2>2, <2>3
<1>16. CASE UNCHANGED vars
  BY <1>4, <1>16 DEF vars
<1> QED
  BY <1>6, <1>7, <1>8, <1>9, <1>10, <1>11, <1>12, <1>13, <1>14, <1>15, <1>16
     DEF Next, Dispatch

-----------------------------------------------------------------------------
(* A login leads.                                                          *)

\* Messages are lost, and others without data are added.
LEMMA LosingKeepsLead ==
    ASSUME LoginLeads,
           \A i \in DOMAIN wire' :
              \/ i \in DOMAIN wire /\ wire'[i] = wire[i]
              \/ Plain(wire'[i]),
           ex'.day = ex.day, ex'.conn # "in" \/ ex'.conn = ex.conn
    PROVE  LoginLeads'
<1>1. Datas(wire', ex.day) \subseteq Datas(wire, ex.day)
  BY PartOfWire
<1>2. \A i, j \in DOMAIN wire' : i < j /\ wire'[j].type = "login" => Plain(wire'[i])
  <2>1. SUFFICES ASSUME NEW i \in DOMAIN wire', NEW j \in DOMAIN wire', i < j,
                        wire'[j].type = "login"
                 PROVE  Plain(wire'[i])
    OBVIOUS
  <2>2. j \in DOMAIN wire /\ wire'[j] = wire[j]
    BY <2>1 DEF Plain
  <2> QED
    BY <2>1, <2>2 DEF LoginLeads
<1>3. ASSUME ex'.conn = "in" \/ Datas(wire', ex'.day) # {}, NEW i \in DOMAIN wire',
             wire'[i].type = "login" \/ Data(wire'[i])
      PROVE  wire'[i].day = ex'.day
  <2>1. ex.conn = "in" \/ Datas(wire, ex.day) # {}
    BY <1>1, <1>3
  <2>2. i \in DOMAIN wire /\ wire'[i] = wire[i]
    BY <1>3 DEF Plain, Data
  <2> QED
    BY <1>3, <2>1, <2>2 DEF LoginLeads
<1> QED
  BY <1>2, <1>3 DEF LoginLeads, Plain, Data

\* A message is taken.
LEMMA TakingKeepsLead ==
    ASSUME TypeOK, LoginLeads, wire # <<>>, wire' = Tail(wire), ex' = ex
    PROVE  LoginLeads'
<1>1. wire \in Seq(Sent)
  BY DEF TypeOK, Sent
<1>2. Datas(wire', ex.day) \subseteq Datas(wire, ex.day)
  BY <1>1, TakingLeaves
<1>3. \A i \in DOMAIN wire' : i \in Nat \ {0} /\ i + 1 \in DOMAIN wire /\ wire'[i] = wire[i + 1]
  BY <1>1, TailShifts
<1>4. \A i, j \in DOMAIN wire' : i < j /\ wire'[j].type = "login" => Plain(wire'[i])
  BY <1>3 DEF LoginLeads
<1>5. ex'.conn = "in" \/ Datas(wire', ex'.day) # {} =>
         \A i \in DOMAIN wire' :
            wire'[i].type = "login" \/ Data(wire'[i]) => wire'[i].day = ex'.day
  BY <1>2, <1>3 DEF LoginLeads
<1> QED
  BY <1>4, <1>5 DEF LoginLeads, Plain, Data

\* Nothing of the new day is on the wire when it begins.
LEMMA NewDayClears ==
    ASSUME IInv, NewDay
    PROVE  /\ ex'.conn = "none" /\ ex'.day = ex.day + 1 /\ ex.day \in Nat
           /\ \A i \in DOMAIN wire' :
                 (i \in DOMAIN wire /\ wire'[i] = wire[i]) \/ Plain(wire'[i])
           /\ \A i \in DOMAIN wire : wire[i].day <= ex.day /\ wire[i].day \in Int
           /\ Datas(wire', ex'.day) = {}
<1> DEFINE c == Message("closed", 0)
<1>1. TypeOK /\ wire \in Seq(Sent) /\ ex.day \in Nat
  BY CfeConstants DEF IInv, TypeOK, Sent
<1>2. c \in Sent /\ Plain(c)
  BY <1>1, Notices
<1>3. ex'.conn = "none" /\ ex'.day = ex.day + 1
  BY <1>1 DEF NewDay, TypeOK
<1>4. \A i \in DOMAIN wire' : (i \in DOMAIN wire /\ wire'[i] = wire[i]) \/ Plain(wire'[i])
  <2>1. CASE wire' = wire
    BY <2>1
  <2>2. CASE wire' # wire
    <3>1. PICK k \in 0 .. Len(wire) : wire' = Append(Prefix(wire, k), c)
      BY <2>2 DEF NewDay
    <3> HIDE DEF c
    <3> QED
      BY <1>1, <1>2, <3>1, CutShort
  <2> QED
    BY <2>1, <2>2
<1> HIDE DEF c
<1>5. \A i \in DOMAIN wire : wire[i].day <= ex.day /\ wire[i].day \in Int
  <2>1. \A i \in DOMAIN wire : wire[i] \in Sent
    BY <1>1, LenProperties, ElementOfSeq
  <2> QED
    BY <2>1, CfeConstants DEF IInv, Flow, InOrder, Sent
<1>6. \A i \in DOMAIN wire' : ~(Data(wire'[i]) /\ wire'[i].day = ex'.day)
  <2>1. SUFFICES ASSUME NEW i \in DOMAIN wire', Data(wire'[i]), wire'[i].day = ex'.day
                 PROVE  FALSE
    OBVIOUS
  <2>2. i \in DOMAIN wire /\ wire'[i] = wire[i]
    BY <1>4, <2>1 DEF Data, Plain
  <2> QED
    BY <1>1, <1>3, <1>5, <2>1, <2>2
<1>7. Datas(wire', ex'.day) = {}
  BY <1>6 DEF Datas
<1> QED
  BY <1>1, <1>3, <1>4, <1>5, <1>7

\* Refusals and the end of a connection add messages without data.
LEMMA NoticesAdded ==
    ASSUME TypeOK, RejectAhead \/ RefuseLogin \/ HangUp
    PROVE  /\ ex'.conn \in {"open", "none"} /\ ex'.day = ex.day /\ ex'.seq = ex.seq
           /\ \A i \in DOMAIN wire' :
                 (i \in DOMAIN wire /\ wire'[i] = wire[i]) \/ Plain(wire'[i])
           /\ \A i \in DOMAIN wire : i \in DOMAIN wire' /\ wire'[i] = wire[i]
<1> DEFINE Adds(s) ==
             /\ s \in Seq(Sent)
             /\ \A i \in DOMAIN s : (i \in DOMAIN wire /\ s[i] = wire[i]) \/ Plain(s[i])
             /\ \A i \in DOMAIN wire : i \in DOMAIN s /\ s[i] = wire[i]
           a == Message("rejected", 0)
           b == Message("logout", 0)
           c == Message("closed", 0)
           h == Message("ahead", 0)
<1>1. /\ a \in Sent /\ Plain(a) /\ b \in Sent /\ Plain(b) /\ c \in Sent /\ Plain(c)
      /\ h \in Sent /\ Plain(h)
  BY Notices
<1>2. ex'.conn \in {"open", "none"} /\ ex'.day = ex.day /\ ex'.seq = ex.seq
  BY DEF RejectAhead, RefuseLogin, HangUp, TypeOK
<1>3. wire \in Seq(Sent)
  BY DEF TypeOK, Sent
<1>4. \/ wire' = Append(wire, h)
      \/ wire' = wire \o <<a, c>> \/ wire' = wire \o <<b>> \o <<c>>
      \/ wire' = wire \o <<>> \o <<c>>
  BY DEF RejectAhead, RefuseLogin, HangUp
<1> HIDE DEF a, b, c, h
<1>5. \/ wire' = Append(wire, h) \/ wire' = Append(Append(wire, a), c)
      \/ wire' = Append(Append(wire, b), c) \/ wire' = Append(wire, c)
  <2>1. wire \o <<a, c>> = Append(Append(wire, a), c)
    BY <1>1, <1>3
  <2>2. wire \o <<b>> \o <<c>> = Append(Append(wire, b), c)
    BY <1>1, <1>3
  <2>3. wire \o <<>> \o <<c>> = Append(wire, c)
    BY <1>1, <1>3
  <2> QED
    BY <1>4, <2>1, <2>2, <2>3
<1>6. ASSUME NEW s, Adds(s), NEW m \in Sent, Plain(m)
      PROVE  Adds(Append(s, m))
  <2>1. /\ Append(s, m) \in Seq(Sent) /\ Len(s) \in Nat /\ DOMAIN s = 1 .. Len(s)
        /\ DOMAIN Append(s, m) = 1 .. Len(s) + 1
        /\ \A i \in 1 .. Len(s) : Append(s, m)[i] = s[i]
        /\ Append(s, m)[Len(s) + 1] = m
    BY <1>6, AppendProperties, LenProperties
  <2>2. \A i \in DOMAIN Append(s, m) : i \in DOMAIN s \/ i = Len(s) + 1
    BY <2>1
  <2>3. \A i \in DOMAIN s : i \in DOMAIN Append(s, m)
    BY <2>1
  <2> QED
    BY <1>6, <2>1, <2>2, <2>3
<1> HIDE DEF Adds
<1>7. Adds(wire')
  <2>0. Adds(wire)
    BY <1>3 DEF Adds
  <2>1. Adds(Append(wire, h)) /\ Adds(Append(wire, a)) /\ Adds(Append(wire, b))
        /\ Adds(Append(wire, c))
    BY <1>1, <1>6, <2>0
  <2>2. Adds(Append(Append(wire, a), c)) /\ Adds(Append(Append(wire, b), c))
    BY <1>1, <1>6, <2>1
  <2> QED
    BY <1>5, <2>1, <2>2
<1> QED
  BY <1>2, <1>7 DEF Adds

\* The exchange sends a login before the messages it brings,
LEMMA ExchangeLead ==
    ASSUME IInv, LoginLeads, Exchange
    PROVE  LoginLeads'
<1> USE DEF flags, store, seen
<1>1. /\ TypeOK /\ wire \in Seq(Sent) /\ ex.day \in Nat /\ DOMAIN wire = 1 .. Len(wire)
      /\ Len(wire) \in Nat
  BY CfeConstants, LenProperties DEF IInv, TypeOK, Sent
<1>2. CASE Publish
  <2> DEFINE m == Message("app", ex.seq + 1)
  <2>1. /\ m \in Sent /\ m.type = "app" /\ ex'.day = ex.day /\ ex'.conn = ex.conn
    <3>1. ex.seq + 1 \in 0 .. MaxMsgs
      BY <1>1, <1>2, CfeConstants DEF TypeOK, Publish
    <3>2. ex.day \in 1 .. MaxDays
      BY <1>1 DEF TypeOK
    <3> QED
      BY <1>1, <1>2, <3>1, <3>2 DEF TypeOK, Publish, Message, Sent, Types
  <2>2. wire' = IF ex.conn = "in" THEN Append(wire, m) ELSE wire
    BY <1>2 DEF Publish
  <2> HIDE DEF m
  <2>3. CASE ex.conn = "in"
    <3>1. wire' = Append(wire, m)
      BY <2>2, <2>3
    <3>2. /\ Len(wire) \in Nat /\ DOMAIN wire = 1 .. Len(wire)
          /\ \A i \in DOMAIN wire' : \/ i \in DOMAIN wire /\ wire'[i] = wire[i]
                                     \/ i = Len(wire) + 1 /\ wire'[i] = m
      BY <1>1, <2>1, <3>1, AppendAdds
    <3>3. \A i, j \in DOMAIN wire' : i < j /\ wire'[j].type = "login" => Plain(wire'[i])
      <4>1. SUFFICES ASSUME NEW i \in DOMAIN wire', NEW j \in DOMAIN wire', i < j,
                            wire'[j].type = "login"
                     PROVE  Plain(wire'[i])
        OBVIOUS
      <4>2. j \in DOMAIN wire /\ wire'[j] = wire[j]
        BY <2>1, <3>2, <4>1
      <4>3. i \in DOMAIN wire /\ wire'[i] = wire[i]
        BY <3>2, <4>1, <4>2
      <4> QED
        BY <4>1, <4>2, <4>3 DEF LoginLeads
    <3>4. m.day = ex.day
      BY DEF m, Message
    <3>5. \A i \in DOMAIN wire' :
             wire'[i].type = "login" \/ Data(wire'[i]) => wire'[i].day = ex'.day
      BY <2>1, <2>3, <3>2, <3>4 DEF LoginLeads
    <3> QED
      BY <3>3, <3>5 DEF LoginLeads, Plain, Data
  <2>4. CASE ex.conn # "in"
    BY <2>1, <2>2, <2>4, LosingKeepsLead
  <2> QED
    BY <2>3, <2>4
<1>3. CASE AcceptLogin
  <2> DEFINE L == Len(wire)
  <2>1. AnswerSent /\ Missed \in Nat
    <3>1. Missed \in Nat
      BY <1>1 DEF TypeOK, Missed, Numbers
    <3> QED
      BY <1>1, <1>3, <3>1, AcceptSends
  <2>2. \A i \in DOMAIN wire' :
          /\ i \in Nat /\ (i <= L => wire'[i] = wire[i] /\ i \in DOMAIN wire)
          /\ i > L => wire'[i].day = ex.day
          /\ i > L /\ wire'[i].type = "login" => i = L + 1
    <3> SUFFICES ASSUME NEW i \in DOMAIN wire'
                 PROVE  /\ i \in Nat /\ (i <= L => wire'[i] = wire[i] /\ i \in DOMAIN wire)
                        /\ i > L => wire'[i].day = ex.day
                        /\ i > L /\ wire'[i].type = "login" => i = L + 1
      OBVIOUS
    <3>1. i \in Nat /\ (i <= L => i \in DOMAIN wire)
      BY <1>1, <2>1 DEF AnswerSent
    <3>2. i <= L => wire'[i] = wire[i]
      BY <1>1, <2>1, <3>1 DEF AnswerSent
    <3>3. /\ i > L => wire'[i].day = ex.day
          /\ i > L /\ wire'[i].type = "login" => i = L + 1
      BY <1>1, <2>1, <3>1 DEF AnswerSent, Message
    <3> QED
      BY <3>1, <3>2, <3>3
  <2>3. \A i \in DOMAIN wire : Plain(wire[i])
    BY <1>3 DEF AcceptLogin, IInv, Connecting
  <2>4. \A i \in DOMAIN wire' : wire'[i].type = "login" => i = L + 1
    BY <1>1, <2>2, <2>3 DEF Plain
  <2>5. \A i, j \in DOMAIN wire' : i < j /\ wire'[j].type = "login" => Plain(wire'[i])
    BY <1>1, <2>2, <2>3, <2>4
  <2>6. \A i \in DOMAIN wire' :
           wire'[i].type = "login" \/ Data(wire'[i]) => wire'[i].day = ex.day
    BY <1>1, <2>2, <2>3 DEF Plain, Data
  <2>7. ex'.day = ex.day
    BY <1>3 DEF AcceptLogin, IInv, TypeOK
  <2> QED
    BY <2>5, <2>6, <2>7 DEF LoginLeads, Plain, Data
<1>4. CASE RejectAhead \/ RefuseLogin \/ HangUp
  BY <1>1, <1>4, NoticesAdded, LosingKeepsLead
<1>5. CASE Cut
  <2> DEFINE c == Message("closed", 0)
  <2>1. c \in Sent /\ Plain(c)
    BY <1>1, Notices
  <2>2. PICK k \in 0 .. Len(wire) : wire' = Append(Prefix(wire, k), c)
    BY <1>5 DEF Cut
  <2>3. ex'.conn = "none" /\ ex'.day = ex.day
    BY <1>1, <1>5 DEF Cut, TypeOK
  <2> HIDE DEF c
  <2>4. \A i \in DOMAIN wire' : (i \in DOMAIN wire /\ wire'[i] = wire[i]) \/ Plain(wire'[i])
    BY <1>1, <2>1, <2>2, CutShort
  <2> QED
    BY <2>3, <2>4, LosingKeepsLead
<1>6. CASE NewDay
  <2>1. /\ ex'.conn = "none" /\ Datas(wire', ex'.day) = {}
        /\ \A i \in DOMAIN wire' : (i \in DOMAIN wire /\ wire'[i] = wire[i]) \/ Plain(wire'[i])
    BY <1>6, NewDayClears
  <2>2. \A i, j \in DOMAIN wire' : i < j /\ wire'[j].type = "login" => Plain(wire'[i])
    <3>1. SUFFICES ASSUME NEW i \in DOMAIN wire', NEW j \in DOMAIN wire', i < j,
                          wire'[j].type = "login"
                   PROVE  Plain(wire'[i])
      OBVIOUS
    <3>2. j \in DOMAIN wire /\ wire'[j] = wire[j]
      BY <2>1, <3>1 DEF Plain
    <3> QED
      BY <2>1, <3>1, <3>2 DEF LoginLeads
  <2> QED
    BY <2>1, <2>2 DEF LoginLeads, Plain, Data
<1> QED
  BY <1>2, <1>3, <1>4, <1>5, <1>6 DEF Exchange

\* and no step changes their order.
LEMMA NextLead ==
    ASSUME IInv, LoginLeads, [Next]_vars
    PROVE  LoginLeads'
<1> USE DEF flags, store, seen
<1>1. TypeOK /\ wire \in Seq(Sent)
  BY DEF IInv, TypeOK, Sent
<1>2. ASSUME wire' = wire, ex'.day = ex.day, ex'.conn # "in" \/ ex'.conn = ex.conn
      PROVE  LoginLeads'
  BY <1>2, LosingKeepsLead
<1>3. ASSUME wire' = <<>>, ex'.day = ex.day, ex'.conn # "in"
      PROVE  LoginLeads'
  <2>1. DOMAIN wire' = {}
    BY <1>3
  <2> QED
    BY <1>3, <2>1, LosingKeepsLead
<1>4. CASE Poll
  <2>1. CASE ProcessApplicationMessage \/ Reconnect
    <3>1. wire' = wire /\ ex'.day = ex.day /\ (ex'.conn # "in" \/ ex'.conn = ex.conn)
      BY <1>1, <2>1 DEF ProcessApplicationMessage, Reconnect, Connects, TypeOK
    <3> QED
      BY <1>2, <3>1
  <2>2. CASE ~(ProcessApplicationMessage \/ Reconnect)
    <3>1. wire # <<>> /\ wire' = Tail(wire) /\ ex' = ex
      BY <1>4, <2>2
         DEF Poll, Receive, LoginMismatch, LoginAccepted, LoginAhead, LoggedOut,
             OnReplayComplete, Sequenced, Closed
    <3> QED
      BY <1>1, <3>1, TakingKeepsLead
  <2> QED
    BY <2>1, <2>2
<1>5. CASE Dispatch
  <2>1. wire' = wire /\ ex'.day = ex.day /\ (ex'.conn # "in" \/ ex'.conn = ex.conn)
    BY <1>1, <1>5
       DEF Dispatch, BeginReset, ResetFails, SeesNoSocket, LoginAgain, LoginFirst, SeesSocket,
           SessionLogin, TypeOK
  <2> QED
    BY <1>2, <2>1
<1>6. ASSUME NEW t \in Threads, Restart(t)
      PROVE  LoginLeads'
  <2>1. CASE StopHandler(t)
    <3>1. PICK k \in 0 .. Len(wire) : wire' = Prefix(wire, k)
      BY <2>1 DEF StopHandler
    <3>2. ex'.conn = "none" /\ ex'.day = ex.day
      BY <1>1, <2>1 DEF StopHandler, TypeOK
    <3>3. \A i \in DOMAIN wire' : i \in DOMAIN wire /\ wire'[i] = wire[i]
      BY <1>1, <3>1, PrefixKeeps
    <3> QED
      BY <3>2, <3>3, LosingKeepsLead
  <2>2. CASE StartSessionManager(t)
    BY <1>2, <2>2 DEF StartSessionManager
  <2>3. CASE StartTcpConnection(t)
    <3>1. wire' = <<>> /\ ex'.conn \in {"open", "none"} /\ ex'.day = ex.day
      BY <1>1, <2>3 DEF StartTcpConnection, Connects, Fails, TypeOK
    <3> QED
      BY <1>3, <3>1
  <2> QED
    BY <1>6, <2>1, <2>2, <2>3 DEF Restart
<1>7. CASE Terminate \/ Logout
  <2>1. wire' = wire /\ ex'.day = ex.day /\ (ex'.conn = "out" \/ ex'.conn = ex.conn)
    BY <1>1, <1>7 DEF Terminate, Logout, TypeOK
  <2> QED
    BY <1>2, <2>1
<1>8. CASE TcpReconnect \/ Save \/ UNCHANGED vars
  BY <1>2, <1>8 DEF TcpReconnect, Save, vars
<1>9. CASE CrashAndStart
  <2>1. wire' = <<>> /\ ex'.conn = "open" /\ ex'.day = ex.day
    BY <1>1, <1>9 DEF CrashAndStart, TypeOK
  <2> QED
    BY <1>3, <2>1
<1> QED
  BY <1>4, <1>5, <1>6, <1>7, <1>8, <1>9, ExchangeLead DEF Next

-----------------------------------------------------------------------------
(* No number passes over a message.                                        *)

\* Numbers are ones of the exchange.
LEMMA NumbersTyped ==
    ASSUME TypeOK
    PROVE  /\ MaxMsgs \in Nat /\ ex.seq \in Nat /\ ex.seq <= MaxMsgs
           /\ \A q \in Known : q \in Numbers /\ q.n \in Nat /\ q.n <= MaxMsgs
           /\ \A l \in Logins(wire) : l.n \in Nat /\ l.n <= MaxMsgs
<1>1. /\ wire \in Seq(Sent) /\ saves \in Seq(Numbers) /\ seqIn \in Numbers /\ file \in Numbers
      /\ MaxMsgs \in Nat /\ ex.seq \in 0 .. MaxMsgs
  BY CfeConstants DEF TypeOK, Sent
<1>2. ex.seq \in Nat /\ ex.seq <= MaxMsgs
  BY <1>1
<1>3. \A q \in Known : q \in Numbers
  BY <1>1, LenProperties, ElementOfSeq DEF Known
<1>4. \A q \in Numbers : q.n \in Nat /\ q.n <= MaxMsgs
  BY <1>1 DEF Numbers
<1>5. \A i \in DOMAIN wire : wire[i] \in Sent
  BY <1>1, LenProperties, ElementOfSeq
<1>6. \A m \in Sent : m.n \in Nat /\ m.n <= MaxMsgs
  BY <1>1 DEF Sent
<1>7. \A l \in Logins(wire) : l \in Sent
  BY <1>5 DEF Logins
<1> QED
  BY <1>1, <1>2, <1>3, <1>4, <1>6, <1>7

\* A login or a message with data has no login behind it.
LEMMA NoLoginBehind ==
    ASSUME TypeOK, LoginLeads, wire # <<>>, ~Plain(Head(wire))
    PROVE  /\ Logins(Tail(wire)) = {}
           /\ Head(wire).type # "login" => Logins(wire) = {}
<1>1. /\ wire \in Seq(Sent) /\ Head(wire) = wire[1] /\ 1 \in DOMAIN wire
      /\ \A i \in DOMAIN Tail(wire) :
            i \in Nat \ {0} /\ i + 1 \in DOMAIN wire /\ Tail(wire)[i] = wire[i + 1]
  <2>1. wire \in Seq(Sent)
    BY DEF TypeOK, Sent
  <2> QED
    BY <2>1, TailShifts
<1>2. \A i \in DOMAIN Tail(wire) : Tail(wire)[i].type # "login"
  BY <1>1 DEF LoginLeads
<1>3. Logins(Tail(wire)) = {}
  BY <1>2 DEF Logins
<1>4. \A l \in Logins(wire) : l \in Logins(Tail(wire)) \/ (l = Head(wire) /\ l.type = "login")
  BY <1>1, TakingLeaves
<1> QED
  BY <1>3, <1>4

\* Nothing is sent and SEQ_IN stays: messages may be handled, be lost and be
\* given up, and the connection may go.
LEMMA KeepsNonePassed ==
    ASSUME TypeOK, NonePassed, ~needsReset,
           seqIn' = seqIn, Known' \subseteq Known, ex'.day = ex.day, ex'.seq = ex.seq,
           Logins(wire') \subseteq Logins(wire),
           \A k \in 1 .. MaxMsgs : (Done(k) => Done(k)') /\ (InHand(k) => Done(k)' \/ InHand(k)'),
           Logins(wire) = {} \/ Logins(wire') # {} =>
              \A k \in Replays(wire, ex.day) : k \in Replays(wire', ex.day) \/ Done(k)',
           ex'.conn = "in" =>
              /\ ex.conn = "in" /\ Logins(wire) \subseteq Logins(wire')
              /\ Datas(wire, ex.day) \subseteq Datas(wire', ex.day),
           ex'.conn = "asked" => ex'.asked = seqIn \/ (ex.conn = "asked" /\ ex'.asked = ex.asked),
           Datas(wire', ex.day) # {} =>
              Datas(wire, ex.day) # {} /\ Logins(wire) \subseteq Logins(wire')
    PROVE  NonePassed'
<1>1. Covered /\ AskedIsSeqIn /\ LoginBrings /\ AllSent /\ OfThisDay
  BY DEF NonePassed
<1>2. \A q \in Known : q.n \in Nat /\ \A k \in 1 .. q.n : k \in 1 .. MaxMsgs
  BY NumbersTyped
<1>3. Covered'
  <2> SUFFICES ASSUME NEW q \in Known', q.day = ex.day, NEW k \in 1 .. q.n
               PROVE  \/ Done(k)' \/ InHand(k)'
                      \/ Logins(wire') = {} /\ k \in Replays(wire', ex.day)
    BY DEF Covered, Covers
  <2>1. Done(k) \/ InHand(k) \/ (Logins(wire) = {} /\ k \in Replays(wire, ex.day))
    BY <1>1 DEF Covered, Covers
  <2>2. k \in 1 .. MaxMsgs
    BY <1>2
  <2> QED
    BY <2>1, <2>2
<1>4. AskedIsSeqIn'
  BY <1>1 DEF AskedIsSeqIn
<1>5. LoginBrings'
  <2> SUFFICES ASSUME NEW l \in Logins(wire'), l.day = ex.day, seqIn.n <= l.n, NEW k \in 1 .. l.n
               PROVE  Done(k)' \/ k \in Replays(wire', ex.day)
    BY DEF LoginBrings
  <2>1. Done(k) \/ k \in Replays(wire, ex.day)
    BY <1>1 DEF LoginBrings
  <2>2. k \in 1 .. MaxMsgs
    BY NumbersTyped
  <2> QED
    BY <2>1, <2>2
<1>6. AllSent'
  <2> SUFFICES ASSUME ex'.conn = "in", Fits', NEW k \in 1 .. ex.seq
               PROVE  Done(k)' \/ InHand(k)' \/ k \in Datas(wire', ex.day)
    BY DEF AllSent
  <2>1. Fits
    BY DEF Fits
  <2>2. Done(k) \/ InHand(k) \/ k \in Datas(wire, ex.day)
    BY <1>1, <2>1 DEF AllSent
  <2>3. k \in 1 .. MaxMsgs
    BY NumbersTyped
  <2> QED
    BY <2>2, <2>3
<1>7. OfThisDay'
  BY <1>1 DEF OfThisDay
<1> QED
  BY <1>3, <1>4, <1>5, <1>6, <1>7 DEF NonePassed

\* The messages stay, or one goes that is no login and has no data.
LEMMA StandingKeepsNone ==
    ASSUME TypeOK, NonePassed, ~needsReset,
           seqIn' = seqIn, Known' \subseteq Known, ex'.day = ex.day, ex'.seq = ex.seq,
           UNCHANGED <<msg, handled, excused>>,
           \/ wire' = wire
           \/ /\ wire # <<>> /\ wire' = Tail(wire)
              /\ ~Data(Head(wire)) /\ Head(wire).type # "login",
           ex'.conn \notin {"in", "asked"} \/ ex' = ex \/ (ex'.conn = "asked" /\ ex'.asked = seqIn)
    PROVE  NonePassed'
<1>1. /\ Logins(wire') = Logins(wire) /\ Datas(wire', ex.day) = Datas(wire, ex.day)
      /\ Replays(wire', ex.day) = Replays(wire, ex.day)
  <2>1. wire \in Seq(Sent)
    BY DEF TypeOK, Sent
  <2>2. CASE wire' = wire
    BY <2>2
  <2>3. CASE /\ wire # <<>> /\ wire' = Tail(wire)
             /\ ~Data(Head(wire)) /\ Head(wire).type # "login"
    <3>1. Head(wire).type # "replay"
      BY <2>3 DEF Data
    <3>2. /\ Logins(Tail(wire)) \subseteq Logins(wire)
          /\ Datas(Tail(wire), ex.day) \subseteq Datas(wire, ex.day)
          /\ Replays(Tail(wire), ex.day) \subseteq Replays(wire, ex.day)
      BY <2>1, <2>3, TakingLeaves
    <3>3. \A l \in Logins(wire) : l \in Logins(Tail(wire))
      BY <2>1, <2>3, TakingLeaves
    <3>4. \A n \in Datas(wire, ex.day) : n \in Datas(Tail(wire), ex.day)
      BY <2>1, <2>3, TakingLeaves
    <3>5. \A n \in Replays(wire, ex.day) : n \in Replays(Tail(wire), ex.day)
      BY <2>1, <2>3, <3>1, TakingLeaves
    <3> QED
      BY <2>3, <3>2, <3>3, <3>4, <3>5
  <2> QED
    BY <2>2, <2>3
<1>2. \A k : (Done(k) => Done(k)') /\ (InHand(k) => InHand(k)')
  BY DEF Done, InHand
<1> QED
  BY <1>1, <1>2, KeepsNonePassed

\* Messages are lost with the connection.
LEMMA LosingKeepsNone ==
    ASSUME TypeOK, NonePassed, ~needsReset, NEW lost, Loses(wire', lost),
           excused' = excused \cup Unreplayed(lost),
           UNCHANGED <<seqIn, msg, handled>>, Known' \subseteq Known,
           ex'.day = ex.day, ex'.seq = ex.seq, ex'.conn \notin {"in", "asked"}
    PROVE  NonePassed'
<1>1. \A k : (Done(k) => Done(k)') /\ (InHand(k) => InHand(k)')
  BY DEF Done, InHand
<1>2. Logins(wire) = {} \/ Logins(wire') # {} =>
         \A k \in Replays(wire, ex.day) : k \in Replays(wire', ex.day) \/ Done(k)'
  <2> SUFFICES ASSUME Logins(wire) = {} \/ Logins(wire') # {}, NEW k \in Replays(wire, ex.day),
                      k \notin Replays(wire', ex.day)
               PROVE  Done(k)'
    OBVIOUS
  <2>1. Logins(lost) = {} /\ k \in Replays(lost, ex.day)
    BY DEF Loses
  <2>2. k \in Unreplayed(lost)
    BY <2>1, UnreplayedIs
  <2> QED
    BY <2>2 DEF Done
<1>3. Datas(wire', ex.day) # {} =>
         Datas(wire, ex.day) # {} /\ Logins(wire) \subseteq Logins(wire')
  BY DEF Loses
<1> QED
  BY <1>1, <1>2, <1>3, KeepsNonePassed DEF Loses

\* A login that fits moves SEQ_IN past the messages that follow it.
LEMMA AcceptedKeepsNone ==
    ASSUME IInv, Numbering, LoginLeads, NonePassed, ~needsReset, LoginAccepted
    PROVE  NonePassed'
<1> USE DEF seen
<1> DEFINE l == Head(wire)
           q == [n |-> l.n, day |-> l.day]
           d == ex.day
<1>1. /\ TypeOK /\ wire \in Seq(Sent) /\ wire # <<>> /\ wire' = Tail(wire) /\ l.type = "login"
      /\ UNCHANGED <<msg, file, ex, handled, excused>> /\ msg = None
      /\ seqIn' = q /\ Queue(q) /\ seqIn.n \in Int /\ l.n \in Int /\ ~(seqIn.n > l.n)
      /\ l \in Sent /\ 1 \in DOMAIN wire /\ l = wire[1]
  <2>1. wire \in Seq(Sent) /\ seqIn.n \in Int /\ MaxMsgs \in Nat
    BY CfeConstants DEF IInv, TypeOK, Sent, Numbers
  <2>2. wire # <<>>
    BY DEF LoginAccepted, Receive
  <2>3. l \in Sent /\ 1 \in DOMAIN wire /\ l = wire[1]
    BY <2>1, <2>2, TailShifts
  <2>4. l.n \in Int
    BY <2>1, <2>3 DEF Sent
  <2> QED
    BY <2>1, <2>2, <2>3, <2>4 DEF IInv, LoginAccepted, Receive, Mismatch, SetSeqIn
<1>2. q \in Numbers /\ q.n = l.n /\ q.day = l.day /\ seqIn.n <= l.n
  BY <1>1 DEF Sent, Numbers
<1> HIDE DEF l, q
<1>3. Logins(wire') = {} /\ l \in Logins(wire)
  <2>1. ~Plain(l)
    BY <1>1 DEF Plain
  <2>2. Logins(Tail(wire)) = {}
    BY <1>1, <2>1, NoLoginBehind DEF l
  <2>3. l \in Logins(wire)
    BY <1>1, OnWire
  <2> QED
    BY <1>1, <2>2, <2>3
<1>4. /\ \A k \in Replays(wire, d) : k \in Replays(wire', d)
      /\ \A k \in Datas(wire, d) : k \in Datas(wire', d)
      /\ Datas(wire', d) \subseteq Datas(wire, d)
  <2>1. ~Data(l) /\ l.type # "replay"
    BY <1>1 DEF Data
  <2> QED
    BY <1>1, <2>1, TakingLeaves DEF l
<1>5. \A k : (Done(k)' <=> Done(k)) /\ ~InHand(k)
  BY <1>1 DEF Done, InHand
<1>6. Covered /\ LoginBrings /\ AllSent /\ OfThisDay
  BY DEF NonePassed
<1>7. \A p \in Known' : p = q \/ p \in Known
  <2>1. \A p \in Known' : p = q \/ p = file' \/ \E i \in DOMAIN saves : p = saves[i]
    BY <1>1, <1>2, QueueKnown
  <2> QED
    BY <1>1, <2>1 DEF Known
<1>8. Covered'
  <2> SUFFICES ASSUME NEW p \in Known', p.day = d, NEW k \in 1 .. p.n
               PROVE  Done(k) \/ k \in Replays(wire', d)
    BY <1>1, <1>3, <1>5 DEF Covered, Covers
  <2>1. CASE p \in Known
    BY <1>3, <1>5, <1>6, <2>1 DEF Covered, Covers
  <2>2. CASE p = q
    BY <1>2, <1>3, <1>4, <1>6, <2>2 DEF LoginBrings
  <2> QED
    BY <1>7, <2>1, <2>2
<1>9. AskedIsSeqIn'
  <2>1. ex.conn # "asked"
    BY <1>1 DEF IInv, Connecting, Plain
  <2> QED
    BY <1>1, <2>1 DEF AskedIsSeqIn
<1>10. LoginBrings'
  BY <1>3 DEF LoginBrings
<1>11. AllSent'
  <2> SUFFICES ASSUME ex.conn = "in", NEW k \in 1 .. ex.seq
               PROVE  Done(k) \/ k \in Datas(wire', d)
    BY <1>1, <1>5 DEF AllSent
  <2>1. Fits
    <3>1. \A m \in Logins(wire) : m = l
      <4>1. \A m \in Logins(wire) : m \in Logins(Tail(wire)) \/ (m = Head(wire) /\ m.type = "login")
        BY <1>1, TakingLeaves
      <4> QED
        BY <1>1, <1>3, <4>1 DEF l
    <3> QED
      BY <1>2, <3>1 DEF Fits
  <2> QED
    BY <1>4, <1>5, <1>6, <2>1 DEF AllSent
<1>12. OfThisDay'
  BY <1>1, <1>2, <1>4 DEF OfThisDay, LoginLeads
<1> QED
  BY <1>8, <1>9, <1>10, <1>11, <1>12 DEF NonePassed

\* A message is passed: in order, SEQ_IN moves to it, and it is in hand.
LEMMA PassingKeepsNone ==
    ASSUME IInv, Numbering, LoginLeads, NonePassed, ~needsReset, Sequenced
    PROVE  NonePassed'
<1> USE DEF seen
<1> DEFINE m == Head(wire)
           q == [n |-> m.n, day |-> m.day]
           d == ex.day
<1>1. /\ TypeOK /\ wire \in Seq(Sent) /\ wire # <<>> /\ wire' = Tail(wire) /\ Data(m)
      /\ UNCHANGED <<file, ex, handled, excused>> /\ msg = None /\ msg' = m
      /\ CheckIncomingSeq(m)
      /\ seqIn \in Numbers /\ m \in Sent /\ 1 \in DOMAIN wire /\ m = wire[1]
  <2>1. wire \in Seq(Sent) /\ seqIn \in Numbers /\ MaxMsgs \in Nat
    BY CfeConstants DEF IInv, TypeOK, Sent
  <2>2. wire # <<>>
    BY DEF Sequenced, Receive
  <2>3. m \in Sent /\ 1 \in DOMAIN wire /\ m = wire[1]
    BY <2>1, <2>2, TailShifts
  <2> QED
    BY <2>1, <2>2, <2>3 DEF IInv, Sequenced, Receive, Data
<1>2. /\ q \in Numbers /\ q.n = m.n /\ q.day = m.day /\ m # None
      /\ seqIn.n \in Nat /\ m.n \in Nat
  BY <1>1, CfeConstants DEF Sent, Numbers, Data, None
<1>3. \/ m.n = seqIn.n + 1 /\ seqIn' = q /\ Queue(q)
      \/ UNCHANGED <<seqIn, saves>>
  BY <1>1 DEF CheckIncomingSeq, SetSeqIn
<1> HIDE DEF m, q
<1>4. Logins(wire') = {} /\ Logins(wire) = {}
  <2>1. ~Plain(m) /\ m.type # "login"
    BY <1>1 DEF Plain, Data
  <2> QED
    BY <1>1, <2>1, NoLoginBehind DEF m
<1>5. /\ \A k \in Replays(wire, d) : k \in Replays(wire', d) \/ (k = m.n /\ m.day = d)
      /\ \A k \in Datas(wire, d) : k \in Datas(wire', d) \/ (k = m.n /\ m.day = d)
      /\ Datas(wire', d) \subseteq Datas(wire, d)
      /\ m.day = d => Datas(wire, d) # {}
  <2>1. /\ \A k \in Replays(wire, d) : k \in Replays(wire', d) \/ (k = m.n /\ m.day = d)
        /\ \A k \in Datas(wire, d) : k \in Datas(wire', d) \/ (k = m.n /\ m.day = d)
        /\ Datas(wire', d) \subseteq Datas(wire, d)
    BY <1>1, TakingLeaves DEF m
  <2>2. m.day = d => m.n \in Datas(wire, d)
    BY <1>1, OnWire
  <2> QED
    BY <2>1, <2>2
<1>6. \A k : (Done(k)' <=> Done(k)) /\ ~InHand(k) /\ (InHand(k)' <=> (m.day = d /\ m.n = k))
  BY <1>1, <1>2 DEF Done, InHand
<1>7. Covered /\ AllSent /\ OfThisDay
  BY DEF NonePassed
<1>8. \A p \in Known' : p \in Known \/ (p = q /\ m.n = seqIn.n + 1)
  <2>1. CASE m.n = seqIn.n + 1 /\ seqIn' = q /\ Queue(q)
    <3>1. \A p \in Known' : p = q \/ p = file' \/ \E i \in DOMAIN saves : p = saves[i]
      BY <1>1, <1>2, <2>1, QueueKnown
    <3> QED
      BY <1>1, <2>1, <3>1 DEF Known
  <2>2. CASE UNCHANGED <<seqIn, saves>>
    BY <1>1, <2>2 DEF Known
  <2> QED
    BY <1>3, <2>1, <2>2
<1>9. \A p \in Known : p.day = d => \A k \in 1 .. p.n :
         Done(k) \/ k \in Replays(wire', d) \/ (m.day = d /\ m.n = k)
  BY <1>5, <1>6, <1>7 DEF Covered, Covers
<1>10. Covered'
  <2> SUFFICES ASSUME NEW p \in Known', p.day = d, NEW k \in 1 .. p.n
               PROVE  Done(k) \/ k \in Replays(wire', d) \/ (m.day = d /\ m.n = k)
    BY <1>1, <1>4, <1>6 DEF Covered, Covers
  <2>1. CASE p \in Known
    BY <1>9, <2>1
  <2>2. CASE p = q /\ m.n = seqIn.n + 1
    <3>1. m.day = d /\ seqIn.day = d /\ seqIn \in Known
      BY <1>2, <1>4, <1>5, <1>7, <2>2 DEF OfThisDay, Known
    <3>2. k = m.n \/ k \in 1 .. seqIn.n
      BY <1>2, <2>2
    <3> QED
      BY <1>9, <3>1, <3>2
  <2> QED
    BY <1>8, <2>1, <2>2
<1>11. AskedIsSeqIn'
  <2>1. ex.conn # "asked"
    BY <1>1 DEF IInv, Connecting, Plain, Data
  <2> QED
    BY <1>1, <2>1 DEF AskedIsSeqIn
<1>12. LoginBrings'
  BY <1>4 DEF LoginBrings
<1>13. AllSent'
  <2> SUFFICES ASSUME ex.conn = "in", NEW k \in 1 .. ex.seq
               PROVE  Done(k) \/ (m.day = d /\ m.n = k) \/ k \in Datas(wire', d)
    BY <1>1, <1>6 DEF AllSent
  <2>1. Fits
    BY <1>4 DEF Fits
  <2> QED
    BY <1>5, <1>6, <1>7, <2>1 DEF AllSent
<1>14. OfThisDay'
  <2> SUFFICES ASSUME ex.conn = "in" \/ Datas(wire', d) # {}
               PROVE  seqIn'.day = d
    BY <1>1 DEF OfThisDay
  <2>1. ex.conn = "in" \/ Datas(wire, d) # {}
    BY <1>5
  <2>2. seqIn.day = d /\ m.day = d
    BY <1>1, <1>4, <1>7, <2>1 DEF OfThisDay, LoginLeads
  <2> QED
    BY <1>2, <1>3, <2>2
<1> QED
  BY <1>10, <1>11, <1>12, <1>13, <1>14 DEF NonePassed

\* The message in hand is handled.
LEMMA HandlingKeepsNone ==
    ASSUME IInv, NonePassed, ~needsReset, ProcessApplicationMessage
    PROVE  NonePassed'
<1>1. /\ TypeOK /\ handled \in [1 .. MaxMsgs -> 0 .. 2] /\ msg # None
      /\ UNCHANGED <<seqIn, saves, file, wire, ex, excused>>
  BY DEF IInv, TypeOK, ProcessApplicationMessage, store
<1>2. Known' = Known
  BY <1>1 DEF Known
<1>3. \A k \in 1 .. MaxMsgs : handled[k] > 0 => handled'[k] > 0
  BY <1>1 DEF ProcessApplicationMessage
<1>4. \A k \in 1 .. MaxMsgs : msg.day = ex.day /\ msg.n = k => handled'[k] > 0
  BY <1>1 DEF ProcessApplicationMessage
<1>5. \A k \in 1 .. MaxMsgs : (Done(k) => Done(k)') /\ (InHand(k) => Done(k)' \/ InHand(k)')
  BY <1>1, <1>3, <1>4 DEF Done, InHand
<1> QED
  BY <1>1, <1>2, <1>5, KeepsNonePassed

\* A message is published.
LEMMA PublishKeepsNone ==
    ASSUME IInv, LoginLeads, NonePassed, ~needsReset, Publish
    PROVE  NonePassed'
<1> USE DEF store, seen, flags
<1> DEFINE m == Message("app", ex.seq + 1)
           d == ex.day
<1>1. /\ TypeOK /\ wire \in Seq(Sent) /\ ex.seq \in Nat /\ ex'.seq = ex.seq + 1 /\ ex'.day = d
      /\ ex'.conn = ex.conn /\ ex'.asked = ex.asked
      /\ UNCHANGED <<seqIn, saves, file, msg, handled, excused>>
      /\ m \in Sent /\ m.type = "app" /\ m.n = ex.seq + 1 /\ m.day = d
  <2>1. ex.seq + 1 \in 0 .. MaxMsgs /\ ex.seq \in Nat /\ ex.day \in 1 .. MaxDays
    BY CfeConstants DEF IInv, TypeOK, Publish
  <2> QED
    BY <2>1 DEF IInv, TypeOK, Publish, Message, Sent, Types
<1>2. wire' = IF ex.conn = "in" THEN Append(wire, m) ELSE wire
  BY DEF Publish
<1> HIDE DEF m
<1>3. /\ Logins(wire') = Logins(wire) /\ Datas(wire, d) \subseteq Datas(wire', d)
      /\ Replays(wire, d) \subseteq Replays(wire', d)
      /\ ex.conn = "in" => m.n \in Datas(wire', d)
      /\ ex.conn # "in" => Datas(wire', d) = Datas(wire, d)
  <2>1. CASE ex.conn = "in"
    <3>1. wire' = Append(wire, m) /\ Data(m)
      BY <1>1, <1>2, <2>1 DEF Data
    <3>2. /\ Logins(wire) \subseteq Logins(wire') /\ Datas(wire, d) \subseteq Datas(wire', d)
          /\ Replays(wire, d) \subseteq Replays(wire', d)
          /\ \A l \in Logins(wire') : l \in Logins(wire) \/ (l = m /\ m.type = "login")
          /\ m.n \in Datas(wire', d)
      BY <1>1, <3>1, SendingAdds
    <3>3. Logins(wire') \subseteq Logins(wire)
      BY <1>1, <3>2
    <3> QED
      BY <2>1, <3>2, <3>3
  <2>2. CASE ex.conn # "in"
    BY <1>2, <2>2
  <2> QED
    BY <2>1, <2>2
<1>4. \A k : (Done(k)' <=> Done(k)) /\ (InHand(k)' <=> InHand(k))
  BY <1>1 DEF Done, InHand
<1>5. Covered /\ AskedIsSeqIn /\ LoginBrings /\ AllSent /\ OfThisDay /\ Known' = Known
  BY <1>1 DEF NonePassed, Known
<1>6. Covered'
  BY <1>1, <1>3, <1>4, <1>5 DEF Covered, Covers
<1>7. AskedIsSeqIn'
  BY <1>1, <1>5 DEF AskedIsSeqIn
<1>8. LoginBrings'
  BY <1>1, <1>3, <1>4, <1>5 DEF LoginBrings
<1>9. AllSent'
  <2> SUFFICES ASSUME ex.conn = "in", Fits, NEW k \in 1 .. ex.seq + 1
               PROVE  Done(k) \/ InHand(k) \/ k \in Datas(wire', d)
    BY <1>1, <1>3, <1>4 DEF AllSent, Fits
  <2>1. k = ex.seq + 1 \/ k \in 1 .. ex.seq
    BY <1>1
  <2> QED
    BY <1>1, <1>3, <1>5, <2>1 DEF AllSent
<1>10. OfThisDay'
  BY <1>1, <1>3, <1>5 DEF OfThisDay
<1> QED
  BY <1>6, <1>7, <1>8, <1>9, <1>10 DEF NonePassed

\* A login is accepted: what the client has not got follows.
LEMMA AnswerKeepsNone ==
    ASSUME IInv, Numbering, NonePassed, ~needsReset, AcceptLogin
    PROVE  NonePassed'
<1> USE DEF store, seen, flags
<1> DEFINE l == Message("login", ex.seq)
           d == ex.day
           L == Len(wire)
<1>1. /\ TypeOK /\ wire \in Seq(Sent) /\ L \in Nat /\ ex.seq \in Nat /\ seqIn.n \in Nat
      /\ ex.conn = "asked" /\ ex'.conn = "in" /\ ex'.seq = ex.seq /\ ex'.day = d
      /\ UNCHANGED <<seqIn, saves, file, msg, handled>> /\ msg = None
      /\ l.type = "login" /\ l.n = ex.seq /\ l.day = d
      /\ excused \subseteq excused'
  <2>1. TypeOK /\ wire \in Seq(Sent) /\ L \in Nat /\ ex.seq \in Nat /\ seqIn.n \in Nat
    <3>1. TypeOK /\ wire \in Seq(Sent)
      BY DEF IInv, TypeOK, Sent
    <3>2. seqIn \in Known
      BY DEF Known
    <3> QED
      BY <3>1, <3>2, NumbersTyped, LenProperties
  <2>2. ex \in [seq : 0 .. MaxMsgs, day : 1 .. MaxDays, asked : Numbers,
                conn : {"none", "open", "asked", "in", "out"}]
    BY <2>1 DEF TypeOK
  <2>3. /\ ex.conn = "asked" /\ ex'.conn = "in" /\ ex'.seq = ex.seq /\ ex'.day = d
        /\ UNCHANGED <<seqIn, saves, file, msg, handled>>
    BY <2>2 DEF AcceptLogin
  <2>4. msg = None
    BY <2>3 DEF IInv, Connecting
  <2>5. l.type = "login" /\ l.n = ex.seq /\ l.day = d
    BY DEF Message
  <2>6. excused \subseteq excused'
    BY DEF AcceptLogin
  <2> QED
    BY <2>1, <2>3, <2>4, <2>5, <2>6
<1>2. Covered /\ ex.asked = seqIn /\ Known' = Known
  BY <1>1 DEF NonePassed, AskedIsSeqIn, Known
<1>3. AnswerSent
  BY <1>1, AcceptSends
<1>4. Missed \in Nat /\ (seqIn.n <= ex.seq => Missed = ex.seq - seqIn.n)
  <2>1. CASE ex.seq - seqIn.n > 0
    BY <1>1, <1>2, <2>1 DEF Missed
  <2>2. CASE ~(ex.seq - seqIn.n > 0)
    <3>1. Missed = 0
      BY <1>2, <2>2 DEF Missed
    <3> QED
      BY <1>1, <2>2, <3>1
  <2> QED
    BY <2>1, <2>2
<1> HIDE DEF l, L
<1>5. \A i \in DOMAIN wire : Plain(wire[i])
  BY <1>1 DEF IInv, Connecting
<1>6. DOMAIN wire' = 1 .. L + 1 + Missed + 1
  BY <1>3 DEF AnswerSent, L
<1>7. l \in Logins(wire')
  <2>1. L + 1 \in DOMAIN wire' /\ ~(L + 1 > L + 1) /\ L + 1 # L + 1 + Missed + 1 /\ L + 1 \notin 1 .. L
    BY <1>1, <1>4, <1>6
  <2>2. wire'[L + 1] = l
    BY <1>3, <2>1 DEF AnswerSent, l, L
  <2> QED
    BY <1>1, <2>1, <2>2, OnWire
<1>8. ASSUME seqIn.n <= ex.seq, NEW k \in 1 .. ex.seq, k > seqIn.n
      PROVE  k \in Replays(wire', d) /\ k \in Datas(wire', d)
  <2> DEFINE i == L + 1 + (k - seqIn.n)
  <2>1. /\ i \in DOMAIN wire' /\ i \notin 1 .. L /\ i # L + 1 /\ i # L + 1 + Missed + 1
        /\ seqIn.n + (i - (L + 1)) = k
    <3>1. /\ L \in Nat /\ seqIn.n \in Nat /\ k \in Nat /\ Missed \in Nat
          /\ k - seqIn.n >= 1 /\ k - seqIn.n <= Missed
      <4>1. L \in Nat /\ seqIn.n \in Nat /\ k \in Nat /\ Missed \in Nat /\ k > seqIn.n
        BY <1>1, <1>4, <1>8
      <4>2. Missed = ex.seq - seqIn.n /\ k <= ex.seq /\ ex.seq \in Nat
        BY <1>1, <1>4, <1>8
      <4> QED
        BY <4>1, <4>2
    <3>2. /\ i \in 1 .. L + 1 + Missed + 1 /\ i \notin 1 .. L /\ i # L + 1
          /\ i # L + 1 + Missed + 1 /\ seqIn.n + (i - (L + 1)) = k
      BY <3>1
    <3> QED
      BY <1>6, <3>2
  <2> HIDE DEF i
  <2>2. wire'[i] = Message("replay", seqIn.n + (i - (L + 1)))
    BY <1>2, <1>3, <2>1 DEF AnswerSent, L
  <2>3. wire'[i].type = "replay" /\ wire'[i].n = k /\ wire'[i].day = d
    BY <2>1, <2>2 DEF Message
  <2>4. Data(wire'[i])
    BY <2>3 DEF Data
  <2> QED
    BY <2>1, <2>3, <2>4, OnWire
<1>9. \A m \in Logins(wire') : m = l
  <2>1. \A i \in DOMAIN wire' : wire'[i].type = "login" => wire'[i] = l
    <3>1. SUFFICES ASSUME NEW i \in DOMAIN wire', wire'[i].type = "login" PROVE wire'[i] = l
      OBVIOUS
    <3>2. \A j \in 1 .. L : Plain(wire[j])
      BY <1>1, <1>5, LenProperties DEF L
    <3> QED
      BY <1>3, <3>1, <3>2 DEF AnswerSent, l, L, Message, Plain
  <2> QED
    BY <2>1 DEF Logins
<1>10. Replays(wire, d) = {} /\ \A k : ~InHand(k) /\ (Done(k) => Done(k)')
  <2>1. Replays(wire, d) = {}
    BY <1>5 DEF Replays, Plain
  <2> QED
    BY <1>1, <2>1 DEF InHand, Done
<1>11. \A q \in Known : q.day = d => \A k \in 1 .. q.n : Done(k)'
  BY <1>2, <1>10 DEF Covered, Covers
<1>12. Covered'
  BY <1>1, <1>2, <1>11 DEF Covered, Covers
<1>13. AskedIsSeqIn'
  BY <1>1 DEF AskedIsSeqIn
\* What the client had got was handled, or is of an older day.
<1>14. ASSUME seqIn.n <= ex.seq, NEW k \in 1 .. seqIn.n
       PROVE  Done(k)'
  <2>1. seqIn \in Known /\ seqIn.day <= d /\ seqIn.day \in Int /\ d \in Int
    BY <1>1, CfeConstants DEF Known, Numbering, NoneAhead, TypeOK, Numbers
  <2>2. CASE seqIn.day = d
    BY <1>11, <2>1, <2>2
  <2>3. CASE seqIn.day < d
    <3>1. excused' = excused \cup (1 .. seqIn.n)
      BY <1>2, <1>14, <2>3 DEF AcceptLogin
    <3> QED
      BY <3>1 DEF Done
  <2> QED
    BY <2>1, <2>2, <2>3
<1>15. LoginBrings'
  <2> SUFFICES ASSUME seqIn.n <= ex.seq, NEW k \in 1 .. ex.seq
               PROVE  Done(k)' \/ k \in Replays(wire', d)
    BY <1>1, <1>9 DEF LoginBrings
  <2>1. k \in 1 .. seqIn.n \/ k > seqIn.n
    BY <1>1
  <2> QED
    BY <1>8, <1>14, <2>1
<1>16. AllSent'
  <2> SUFFICES ASSUME seqIn.n <= ex.seq, NEW k \in 1 .. ex.seq
               PROVE  Done(k)' \/ k \in Datas(wire', d)
    BY <1>1, <1>7 DEF AllSent, Fits
  <2>1. k \in 1 .. seqIn.n \/ k > seqIn.n
    BY <1>1
  <2> QED
    BY <1>8, <1>14, <2>1
<1>17. OfThisDay'
  BY <1>7 DEF OfThisDay
<1> QED
  BY <1>12, <1>13, <1>15, <1>16, <1>17 DEF NonePassed

\* A connection starts with an empty wire.
LEMMA EmptyKeepsNone ==
    ASSUME wire' = <<>>, ex'.conn \in {"open", "none"}, Covered'
    PROVE  NonePassed'
<1>1. Logins(wire') = {} /\ Datas(wire', ex'.day) = {}
  BY EmptyWire
<1>2. AskedIsSeqIn' /\ LoginBrings' /\ AllSent' /\ OfThisDay'
  BY <1>1 DEF AskedIsSeqIn, LoginBrings, AllSent, OfThisDay
<1> QED
  BY <1>2 DEF NonePassed

\* What the file promises was handled, or is given up on with what is lost.
LEMMA CrashKeepsNone ==
    ASSUME TypeOK, NonePassed, CrashAndStart
    PROVE  NonePassed'
<1>1. /\ seqIn' = file /\ file' = file /\ saves' = <<file>> /\ wire' = <<>>
      /\ handled' = handled /\ excused \subseteq excused'
      /\ Unreplayed(wire) \subseteq excused'
  BY DEF CrashAndStart
<1>2. ex'.conn = "open" /\ ex'.day = ex.day
  <2>1. ex \in [seq : 0 .. MaxMsgs, day : 1 .. MaxDays, asked : Numbers,
                conn : {"none", "open", "asked", "in", "out"}]
    BY DEF TypeOK
  <2> QED
    BY <2>1 DEF CrashAndStart
<1>3. \A q \in Known' : q = file
  BY <1>1 DEF Known
<1>4. file \in Known /\ file.n \in Nat /\ file.n <= MaxMsgs /\ MaxMsgs \in Nat
  <2>1. file \in Known
    BY DEF Known
  <2> QED
    BY <2>1, NumbersTyped
<1>5. ASSUME file.day = ex.day, NEW k \in 1 .. file.n
      PROVE  Done(k)'
  <2>1. k \in 1 .. MaxMsgs
    BY <1>4
  <2>2. CASE needsReset
    <3>1. k <= file.n
      OBVIOUS
    <3>2. k \in excused'
      BY <1>5, <2>1, <2>2, <3>1 DEF CrashAndStart
    <3> QED
      BY <3>2 DEF Done
  <2>3. CASE ~needsReset
    <3>1. Done(k) \/ InHand(k) \/ (Logins(wire) = {} /\ k \in Replays(wire, ex.day))
      BY <1>4, <1>5, <2>3 DEF NonePassed, Covered, Covers
    <3>2. CASE Done(k)
      BY <1>1, <3>2 DEF Done
    <3>3. CASE InHand(k)
      <4>1. k \in excused'
        BY <2>1, <3>3 DEF CrashAndStart, InHand
      <4> QED
        BY <4>1 DEF Done
    <3>4. CASE Logins(wire) = {} /\ k \in Replays(wire, ex.day)
      <4>1. k \in Unreplayed(wire)
        BY <3>4, UnreplayedIs
      <4> QED
        BY <1>1, <4>1 DEF Done
    <3> QED
      BY <3>1, <3>2, <3>3, <3>4
  <2> QED
    BY <2>2, <2>3
<1>6. Covered'
  BY <1>2, <1>3, <1>5 DEF Covered, Covers
<1> QED
  BY <1>1, <1>2, <1>6, EmptyKeepsNone

\* A handler starts: after a reset from 0, after a command with what was taken.
LEMMA ConnectingKeepsNone ==
    ASSUME IInv, Numbering, NonePassed, NEW t \in Threads, StartTcpConnection(t)
    PROVE  NonePassed'
<1>1. /\ step[t] = "tcp" /\ needsReset' = (needsReset /\ t # "poll") /\ wire' = <<>>
      /\ excused' = excused \cup Unreplayed(wire)
      /\ Queue(seqIn) \/ saves' = saves
      /\ UNCHANGED <<seqIn, file, msg, handled>>
  BY DEF StartTcpConnection, store
<1>2. TypeOK /\ ex'.conn \in {"open", "none"} /\ ex'.day = ex.day /\ ex'.seq = ex.seq
  <2>1. ex \in [seq : 0 .. MaxMsgs, day : 1 .. MaxDays, asked : Numbers,
                conn : {"none", "open", "asked", "in", "out"}]
    BY DEF IInv, TypeOK
  <2> QED
    BY <2>1 DEF IInv, StartTcpConnection, Connects, Fails
<1>3. Known' \subseteq Known
  <2>1. CASE Queue(seqIn)
    BY <1>1, <1>2, <2>1, QueuedAgain
  <2>2. CASE saves' = saves
    BY <1>1, <2>2 DEF Known
  <2> QED
    BY <1>1, <2>1, <2>2
<1>4. CASE t = "poll"
  <2>2. \A q \in Known : q.n = 0
    BY <1>1, <1>4 DEF Numbering, ResetIsDue
  <2>3. 1 .. 0 = {}
    OBVIOUS
  <2>4. Covered'
    BY <1>3, <2>2, <2>3 DEF Covered, Covers
  <2> QED
    BY <1>1, <1>2, <2>4, EmptyKeepsNone
<1>5. CASE t # "poll" /\ needsReset
  BY <1>1, <1>5 DEF NonePassed
<1>6. CASE t # "poll" /\ ~needsReset
  <2>1. Loses(wire', wire)
    BY <1>1, AllLost
  <2> QED
    BY <1>1, <1>2, <1>6, <1>3, <2>1, LosingKeepsNone
<1> QED
  BY <1>4, <1>5, <1>6

\* No number the session has is of the day that begins.
LEMMA NewDayKeepsNone ==
    ASSUME IInv, Numbering, NewDay
    PROVE  NonePassed'
<1>1. /\ ex'.conn = "none" /\ ex'.day = ex.day + 1 /\ ex.day \in Nat
      /\ \A i \in DOMAIN wire' : (i \in DOMAIN wire /\ wire'[i] = wire[i]) \/ Plain(wire'[i])
      /\ \A i \in DOMAIN wire : wire[i].day <= ex.day /\ wire[i].day \in Int
      /\ Datas(wire', ex'.day) = {}
  BY NewDayClears
<1>2. Known' = Known
  BY DEF NewDay, store, Known
<1>3. \A q \in Known : q.day <= ex.day /\ q.day \in Int
  <2>1. \A q \in Known : q \in Numbers
    BY NumbersTyped DEF IInv
  <2> QED
    BY <2>1, CfeConstants DEF Numbering, NoneAhead, Numbers
<1>4. \A q \in Known : q.day # ex'.day
  BY <1>1, <1>3
<1>5. Covered'
  BY <1>2, <1>4 DEF Covered
<1>6. \A l \in Logins(wire') : l.day # ex'.day
  <2>1. SUFFICES ASSUME NEW i \in DOMAIN wire', wire'[i].type = "login"
                 PROVE  wire'[i].day # ex'.day
    BY DEF Logins
  <2>2. i \in DOMAIN wire /\ wire'[i] = wire[i]
    BY <1>1, <2>1 DEF Plain
  <2> QED
    BY <1>1, <2>2
<1>7. AskedIsSeqIn' /\ LoginBrings' /\ AllSent' /\ OfThisDay'
  BY <1>1, <1>6 DEF AskedIsSeqIn, LoginBrings, AllSent, OfThisDay
<1> QED
  BY <1>5, <1>7 DEF NonePassed

\* A connection is cut or the handler stopped, and with it goes the end of the wire.
LEMMA BreakingKeepsNone ==
    ASSUME IInv, LoginLeads, NonePassed, ~needsReset, Cut \/ \E t \in Threads : StopHandler(t)
    PROVE  NonePassed'
<1> DEFINE c == Message("closed", 0)
<1>1. TypeOK /\ c \in Sent /\ Plain(c)
  BY Notices DEF IInv
<1>2. /\ UNCHANGED <<seqIn, saves, file, msg, handled>>
      /\ ex' = [ex EXCEPT !.conn = "none"]
  BY DEF Cut, StopHandler, store
<1>3. PICK k \in 0 .. Len(wire) :
         /\ wire' = Append(Prefix(wire, k), c) \/ wire' = Prefix(wire, k)
         /\ excused' = excused \cup Unreplayed(Suffix(wire, k))
  BY DEF Cut, StopHandler
<1> HIDE DEF c
<1>4. Loses(wire', Suffix(wire, k))
  BY <1>1, <1>3, CutLoses
<1>5. ex'.conn = "none" /\ ex'.day = ex.day /\ ex'.seq = ex.seq
  BY <1>1, <1>2 DEF TypeOK
<1>6. Known' = Known
  BY <1>2 DEF Known
<1> QED
  BY <1>1, <1>2, <1>3, <1>4, <1>5, <1>6, LosingKeepsNone

\* The exchange sends a notice after all it sent before.
LEMMA NoticeKeepsNone ==
    ASSUME IInv, NonePassed, ~needsReset, RejectAhead \/ RefuseLogin \/ HangUp
    PROVE  NonePassed'
<1>1. /\ TypeOK
      /\ ex'.conn \in {"open", "none"} /\ ex'.day = ex.day /\ ex'.seq = ex.seq
      /\ \A i \in DOMAIN wire' : (i \in DOMAIN wire /\ wire'[i] = wire[i]) \/ Plain(wire'[i])
      /\ \A i \in DOMAIN wire : i \in DOMAIN wire' /\ wire'[i] = wire[i]
  BY NoticesAdded DEF IInv
<1>2. Loses(wire', <<>>) /\ Unreplayed(<<>>) = {}
  BY <1>1, NothingLost
<1>3. UNCHANGED <<seqIn, saves, file, msg, handled, excused>>
  BY DEF RejectAhead, RefuseLogin, HangUp, store, seen
<1>4. excused' = excused \cup Unreplayed(<<>>) /\ Known' = Known
  BY <1>2, <1>3 DEF Known
<1> QED
  BY <1>1, <1>2, <1>3, <1>4, LosingKeepsNone

\* The steps that send, take and lose no message that has data.
LEMMA RestKeepsNone ==
    ASSUME IInv, Numbering, NonePassed, ~needsReset,
           \/ LoggedOut \/ OnReplayComplete \/ Closed \/ Reconnect
           \/ SeesNoSocket \/ LoginAgain \/ LoginFirst \/ SeesSocket
           \/ \E t \in Threads : StartSessionManager(t)
           \/ TcpReconnect \/ Terminate \/ Logout \/ Save \/ UNCHANGED vars
    PROVE  NonePassed'
<1> USE DEF store, seen, flags
<1>1. /\ TypeOK /\ saves \in Seq(Numbers)
      /\ ex \in [seq : 0 .. MaxMsgs, day : 1 .. MaxDays, asked : Numbers,
                 conn : {"none", "open", "asked", "in", "out"}]
  BY DEF IInv, TypeOK
<1>2. saves = <<>> => file = seqIn
  BY DEF Numbering, Synced
<1>3. CASE LoggedOut \/ OnReplayComplete \/ Closed
  <2>1. /\ UNCHANGED <<seqIn, saves, file, ex, msg, handled, excused>>
        /\ wire # <<>> /\ wire' = Tail(wire)
        /\ ~Data(Head(wire)) /\ Head(wire).type # "login"
    BY <1>3 DEF LoggedOut, OnReplayComplete, Closed, Receive, Data
  <2>2. Known' = Known
    BY <2>1 DEF Known
  <2> QED
    BY <1>1, <2>1, <2>2, StandingKeepsNone
<1>4. CASE SeesNoSocket \/ SeesSocket \/ TcpReconnect \/ UNCHANGED vars
  <2>1. UNCHANGED <<seqIn, saves, file, ex, wire, msg, handled, excused>>
    BY <1>4 DEF SeesNoSocket, SeesSocket, TcpReconnect, vars
  <2>2. Known' = Known
    BY <2>1 DEF Known
  <2> QED
    BY <1>1, <2>1, <2>2, StandingKeepsNone
<1>5. CASE Reconnect
  <2>1. /\ UNCHANGED <<seqIn, saves, file, wire, msg, handled, excused>>
        /\ ex' = [ex EXCEPT !.conn = "open"]
    BY <1>5 DEF Reconnect, Connects
  <2>2. Known' = Known /\ ex'.conn = "open" /\ ex'.day = ex.day /\ ex'.seq = ex.seq
    BY <1>1, <2>1 DEF Known
  <2> QED
    BY <1>1, <2>1, <2>2, StandingKeepsNone
<1>6. CASE LoginFirst \/ LoginAgain
  <2>1. /\ UNCHANGED <<file, wire, msg, handled, excused>> /\ seqIn' = seqIn
        /\ ex' = IF ex.conn = "open" THEN [ex EXCEPT !.conn = "asked", !.asked = seqIn] ELSE ex
    BY <1>2, <1>6 DEF LoginFirst, LoginAgain, SessionLogin
  <2>2. Known' \subseteq Known
    <3>1. CASE LoginFirst
      BY <3>1 DEF LoginFirst, Known
    <3>2. CASE LoginAgain
      <4>1. Queue(seqIn)
        BY <1>2, <3>2 DEF LoginAgain
      <4> QED
        BY <1>1, <2>1, <4>1, QueuedAgain
    <3> QED
      BY <1>6, <3>1, <3>2
  <2>3. CASE ex.conn = "open"
    <3>1. ex' = [ex EXCEPT !.conn = "asked", !.asked = seqIn]
      BY <2>1, <2>3
    <3>2. ex'.conn = "asked" /\ ex'.asked = seqIn /\ ex'.day = ex.day /\ ex'.seq = ex.seq
      BY <1>1, <3>1
    <3> QED
      BY <1>1, <2>1, <2>2, <3>2, StandingKeepsNone
  <2>4. CASE ex.conn # "open"
    BY <1>1, <2>1, <2>2, <2>4, StandingKeepsNone
  <2> QED
    BY <2>3, <2>4
<1>7. ASSUME NEW t \in Threads, StartSessionManager(t)
      PROVE  NonePassed'
  <2>1. UNCHANGED <<file, wire, ex, msg, handled, excused>> /\ seqIn' = seqIn /\ Queue(seqIn)
    BY <1>2, <1>7 DEF StartSessionManager
  <2>2. Known' \subseteq Known
    BY <1>1, <2>1, QueuedAgain
  <2> QED
    BY <1>1, <2>1, <2>2, StandingKeepsNone
<1>8. CASE Terminate \/ Logout
  <2>1. /\ UNCHANGED <<seqIn, file, wire, msg, handled, excused>>
        /\ Queue(seqIn) \/ saves' = saves
        /\ ex' = ex \/ ex' = [ex EXCEPT !.conn = "out"]
    BY <1>8 DEF Terminate, Logout
  <2>2. Known' \subseteq Known
    <3>1. CASE Queue(seqIn)
      BY <1>1, <2>1, <3>1, QueuedAgain
    <3>2. CASE saves' = saves
      BY <2>1, <3>2 DEF Known
    <3> QED
      BY <2>1, <3>1, <3>2
  <2>3. (ex' = ex \/ ex'.conn = "out") /\ ex'.day = ex.day /\ ex'.seq = ex.seq
    BY <1>1, <2>1
  <2> QED
    BY <1>1, <2>1, <2>2, <2>3, StandingKeepsNone
<1>9. CASE Save
  <2>1. /\ UNCHANGED <<seqIn, wire, ex, msg, handled, excused>>
        /\ saves # <<>> /\ file' = Head(saves) /\ saves' = Tail(saves)
    BY <1>9 DEF Save
  <2>2. Known' \subseteq Known
    <3>1. /\ Head(saves) = saves[1] /\ 1 \in DOMAIN saves
          /\ \A i \in DOMAIN Tail(saves) :
                i + 1 \in DOMAIN saves /\ Tail(saves)[i] = saves[i + 1]
      BY <1>1, <2>1, TailShifts
    <3> QED
      BY <2>1, <3>1 DEF Known
  <2> QED
    BY <1>1, <2>1, <2>2, StandingKeepsNone
<1> QED
  BY <1>3, <1>4, <1>5, <1>6, <1>7, <1>8, <1>9

\* Every step passes over no message, or leaves a reset that is due.
LEMMA NextNonePassed ==
    ASSUME IInv, SkipInv, [Next]_vars
    PROVE  NonePassed'
<1>1. TypeOK /\ Numbering /\ LoginLeads /\ NonePassed
  BY DEF IInv, SkipInv, Numbering
<1>2. CASE needsReset'
  BY <1>2 DEF NonePassed
<1>3. CASE CrashAndStart
  BY <1>1, <1>3, CrashKeepsNone
<1>4. ASSUME NEW t \in Threads, StartTcpConnection(t)
      PROVE  NonePassed'
  BY <1>1, <1>4, ConnectingKeepsNone
<1>5. CASE NewDay
  BY <1>1, <1>5, NewDayKeepsNone
<1>6. CASE /\ ~needsReset' /\ ~CrashAndStart /\ ~NewDay
           /\ ~\E t \in Threads : StartTcpConnection(t)
  <2>1. Poll \/ Dispatch \/ (\E t \in Threads : StopHandler(t) \/ StartSessionManager(t))
        \/ TcpReconnect \/ Terminate \/ Logout \/ Save \/ Exchange \/ UNCHANGED vars
    BY <1>6 DEF Next, Restart
  <2>2. CASE Poll
    <3>1. ~LoginMismatch /\ ~LoginAhead
      BY <1>6 DEF LoginMismatch, LoginAhead
    <3>2. ~needsReset
      BY <1>6, <2>2, <3>1
         DEF Poll, flags, LoginAccepted, LoggedOut, OnReplayComplete, Sequenced,
             ProcessApplicationMessage, Closed, Reconnect
    <3> QED
      BY <1>1, <2>2, <3>1, <3>2, AcceptedKeepsNone, PassingKeepsNone, HandlingKeepsNone,
         RestKeepsNone DEF Poll
  <2>3. CASE Dispatch
    <3>1. ~BeginReset /\ ~ResetFails
      BY <1>6 DEF BeginReset, ResetFails, flags
    <3>2. ~needsReset
      BY <2>3, <3>1
         DEF Dispatch, SeesNoSocket, LoginAgain, LoginFirst, SeesSocket, Dispatching
    <3> QED
      BY <1>1, <2>3, <3>1, <3>2, RestKeepsNone DEF Dispatch
  <2>4. ASSUME NEW t \in Threads, StopHandler(t) \/ StartSessionManager(t)
        PROVE  NonePassed'
    <3>1. ~needsReset
      BY <1>6, <2>4 DEF StopHandler, StartSessionManager
    <3> QED
      BY <1>1, <2>4, <3>1, BreakingKeepsNone, RestKeepsNone
  <2>5. CASE TcpReconnect \/ Terminate \/ Logout \/ Save \/ UNCHANGED vars
    <3>1. ~needsReset
      BY <1>6, <2>5 DEF TcpReconnect, Terminate, Logout, Save, vars, flags
    <3> QED
      BY <1>1, <2>5, <3>1, RestKeepsNone
  <2>6. CASE Exchange
    <3>1. ~needsReset
      BY <1>6, <2>6
         DEF Exchange, flags, Publish, AcceptLogin, RejectAhead, RefuseLogin, Cut, HangUp
    <3> QED
      BY <1>1, <1>6, <2>6, <3>1, PublishKeepsNone, AnswerKeepsNone, NoticeKeepsNone,
         BreakingKeepsNone DEF Exchange
  <2> QED
    BY <2>1, <2>2, <2>3, <2>4, <2>5, <2>6
<1> QED
  BY <1>2, <1>3, <1>4, <1>5, <1>6

\* The first state satisfies the invariant,
LEMMA InitSkip ==
    ASSUME Init
    PROVE  SkipInv
<1>1. /\ file = [n |-> 0, day |-> 1] /\ seqIn = file /\ saves = <<file>> /\ wire = <<>>
      /\ ex = [seq |-> 0, day |-> 1, conn |-> "open", asked |-> file]
      /\ step["poll"] = "idle" /\ DOMAIN wire = {}
  BY DEF Init, Threads
<1>2. Known = {file}
  BY <1>1 DEF Known
<1>3. Synced /\ NoneAhead /\ ResetIsDue
  BY <1>1, <1>2 DEF Synced, NoneAhead, ResetIsDue
<1>4. Logins(wire) = {} /\ Datas(wire, ex.day) = {}
  BY <1>1, EmptyWire
<1>5. LoginLeads
  BY <1>1, <1>4 DEF LoginLeads
<1>6. Covered
  <2>1. 1 .. 0 = {}
    OBVIOUS
  <2> QED
    BY <1>1, <1>2, <2>1 DEF Covered, Covers
<1>7. NonePassed
  BY <1>1, <1>4, <1>6 DEF NonePassed, AskedIsSeqIn, LoginBrings, AllSent, OfThisDay
<1> QED
  BY <1>3, <1>5, <1>7 DEF SkipInv

\* and every step keeps it.
LEMMA NextSkip ==
    ASSUME IInv, SkipInv, [Next]_vars
    PROVE  SkipInv'
<1>1. Numbering /\ LoginLeads
  BY DEF SkipInv, Numbering
<1> QED
  BY <1>1, NextNumbering, NextLead, NextNonePassed DEF SkipInv, Numbering

\* When the session is up, with all that was sent taken, it passed no message over.
LEMMA SkipImplies ==
    ASSUME IInv, SkipInv
    PROVE  NothingSkipped
<1> SUFFICES ASSUME ex.conn = "in", wire = <<>>, msg = None, ~needsReset, NEW n \in 1 .. ex.seq
             PROVE  Done(n)
  BY DEF NothingSkipped, Done
<1>1. Logins(wire) = {} /\ Datas(wire, ex.day) = {}
  BY EmptyWire
<1>2. Fits /\ AllSent
  BY <1>1 DEF SkipInv, NonePassed, Fits
<1> QED
  BY <1>1, <1>2 DEF AllSent, InHand

\* CfeSession passes over no message that it does not give up on by design
\* (the numbers of SessionStateManager and SessSvc, the replay of a login).
THEOREM SpecNothingSkipped == Spec => []NothingSkipped
<1>1. Init => SkipInv
  BY InitSkip
<1>2. IInv /\ SkipInv /\ [Next]_vars => SkipInv'
  BY NextSkip
<1>3. IInv /\ SkipInv => NothingSkipped
  BY SkipImplies
<1> QED
  BY <1>1, <1>2, <1>3, SpecIInv, PTL DEF Spec

=============================================================================
