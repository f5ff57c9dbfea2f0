------------------------- MODULE ClientOrdersProofs -------------------------
(***************************************************************************)
(* The order table never counts more than the exchange traded, no          *)
(* modification leaves more in the market than was asked for, each fill is *)
(* told to the client once, what is told in the end is what is open, and   *)
(* no quantity grows beyond what the requests asked for:                   *)
(* for every set of orders, every quantity, and any number of requests,    *)
(* refusals, retransmissions and races between the threads.                *)
(***************************************************************************)
EXTENDS ClientOrders, SequenceTheorems, TLAPS

Names == Orders \cup {None}

Statuses == Sent \cup {"none", "NEW", "MODIFIED", "CANCELED", "REJECTED", "FILLED",
                      "PARTIALLY_FILLED", "CXL_REJECT", "CXL_REPL_REJECT"}

States == {"none", "WORKING", "COMPLETE"}

Recs == [status : Statuses, state : States, fill : Nat, leaves : Int, last : Nat,
         fillType : {"UNKNOWN", "OUTRIGHT_FILL"}, num : Names]

Commands == [o : Orders, kind : {"new", "mod", "cxl"}, leaves : Int, fill : Nat]

Pods == [kind : Answers \cup {"ack", "rej", "fill", "elim", "status"}, o : Orders,
         last : Nat, cum : Nat, leaves : Int, num : Names,
         again : {"no", "retransmit", "status"}]

ExBooks == [st : {"none", "live", "dead"}, qty : Int, cum : Nat]

Requesting == [pc : {"snapshot", "send"}, o : Orders, kind : {"mod", "cxl"}, asked : Int,
               ord : Recs]

Reporting == [pc : {"report", "forget"}, o : Orders, pod : Pods]

Rejecting == [pc : {"cxlrej", "replrej"}, o : Orders, pod : Pods, old : Recs]

Reports == [o : Orders, ord : Recs, rejected : BOOLEAN]

Types ==
    /\ stored \in [Orders -> Recs]
    /\ prev \in [Orders -> Recs]
    /\ zmq \in {Idle} \cup Requesting
    /\ cmds \in Seq(Commands)
    /\ ex \in [Orders -> ExBooks]
    /\ podNum \in Names
    /\ responses \in Seq(Pods)
    /\ raptor \in {Idle} \cup Reporting \cup Rejecting
    /\ reports \in Seq(Reports)
    /\ told \in [Orders -> [state : States, num : Names, leaves : Int, fills : Nat]]

\* An order has a record before anything else knows of it, so that a new order
\* finds nothing of its number under way.
Known(o) == stored[o].status # "none"

KnownFirst ==
    /\ \A o \in Orders : ~Known(o) => ex[o].st = "none" /\ ex[o].cum = 0
    /\ \A o \in Orders : told[o].state = "WORKING" => Known(o)
    /\ \A o \in Orders : prev[o] # NoEntry => prev[o].status # "none"
    /\ zmq # Idle => Known(zmq.o) /\ zmq.ord.status # "none"
    /\ raptor # Idle => Known(raptor.o)
    /\ raptor \in Rejecting => (raptor.old = NoEntry /\ raptor.pc = "cxlrej")
                                   \/ raptor.old.status # "none"
    /\ \A i \in DOMAIN cmds : Known(cmds[i].o)
    /\ \A i \in DOMAIN responses : Known(responses[i].o)
    /\ \A i \in DOMAIN reports : Known(reports[i].o)

\* A new order is sent once, to an exchange that does not know it.
NewOnce ==
    /\ \A i \in DOMAIN cmds :
        cmds[i].kind = "new" => ex[cmds[i].o].st = "none" /\ ex[cmds[i].o].cum = 0
    /\ \A i, j \in DOMAIN cmds :
        cmds[i].kind = "new" /\ cmds[j].kind = "new" /\ cmds[i].o = cmds[j].o => i = j

\* A message adds its last quantity to what was counted before it: by the record,
\* by the ZMQ thread's copy of it, and by every message in front.
RecordCounts == \A o \in Orders : stored[o].fill <= ex[o].cum

CopyCounts == zmq # Idle => zmq.ord.fill <= ex[zmq.o].cum

CommandCounts == \A i \in DOMAIN cmds : cmds[i].fill <= ex[cmds[i].o].cum

MessageCounts ==
    \A i \in DOMAIN responses :
        LET pod == responses[i]
        IN  /\ pod.cum <= ex[pod.o].cum
            /\ stored[pod.o].fill + pod.last <= pod.cum
            /\ zmq # Idle /\ zmq.o = pod.o => zmq.ord.fill + pod.last <= pod.cum

MessagesFollow ==
    \A i, j \in DOMAIN responses :
        i < j /\ responses[i].o = responses[j].o =>
            responses[i].cum + responses[j].last <= responses[j].cum

CountsUp == RecordCounts /\ CopyCounts /\ CommandCounts /\ MessageCounts /\ MessagesFollow

\* The inductive invariant.
IInv == Types /\ KnownFirst /\ NewOnce /\ CountsUp

-----------------------------------------------------------------------------
(* Queues.                                                                 *)

LEMMA TailShifts ==
    ASSUME NEW S, NEW s \in Seq(S), s # <<>>
    PROVE  /\ Tail(s) \in Seq(S) /\ Head(s) \in S /\ Head(s) = s[1] /\ 1 \in DOMAIN s
           /\ \A i \in DOMAIN Tail(s) :
                i \in Nat /\ i + 1 \in DOMAIN s /\ Tail(s)[i] = s[i + 1]
<1>1. Len(s) \in Nat \ {0} /\ DOMAIN s = 1 .. Len(s)
  BY EmptySeq, LenProperties
<1>2. DOMAIN Tail(s) = 1 .. Len(s) - 1 /\ Tail(s) \in Seq(S)
  BY HeadTailProperties, LenProperties
<1> QED
  BY <1>1, <1>2, HeadTailProperties

LEMMA AppendAdds ==
    ASSUME NEW S, NEW s \in Seq(S), NEW x \in S
    PROVE  /\ Append(s, x) \in Seq(S)
           /\ Len(s) \in Nat /\ DOMAIN s = 1 .. Len(s)
           /\ \A i \in DOMAIN Append(s, x) :
                \/ i \in DOMAIN s /\ Append(s, x)[i] = s[i]
                \/ i = Len(s) + 1 /\ Append(s, x)[i] = x
BY AppendProperties, LenProperties

-----------------------------------------------------------------------------
(* What the callbacks make of a message.                                   *)

LEMMA UpdatedCounts ==
    ASSUME Types, NEW pod \in Pods, stored[pod.o].fill + pod.last <= pod.cum,
           pod.kind \in {"ack", "mod", "cxl", "elim", "fill", "status"}
    PROVE  /\ Updated(pod) \in Recs
           /\ Updated(pod).status # "none"
           /\ Updated(pod).fill <= pod.cum
<1>1. StatusOf(pod) \in Statuses /\ StatusOf(pod) # "none" /\ StateOf(pod) \in States
  BY DEF StatusOf, StateOf, Statuses, States
<1>2. Base(pod) \in Recs /\ Base(pod).fill + (IF IsAgain(pod) THEN 0 ELSE pod.last) <= pod.cum
  BY <1>1 DEF Base, AsLoaded, Types, Pods, Recs, Names
<1> DEFINE b == Base(pod)
           n == IF IsAgain(pod) THEN 0 ELSE pod.last
<1>3. b \in Recs /\ b.fill + n <= pod.cum /\ n \in Nat
  BY <1>2 DEF Pods
<1>4. pod.leaves \in Int /\ pod.cum \in Nat /\ pod.num \in Names /\ b.num \in Names /\ b.fill \in Nat
  BY <1>3 DEF Pods, Recs
<1> HIDE DEF b, n
<1>5. CASE pod.kind \in {"fill", "status"}
  <2> DEFINE type == IF pod.kind = "fill" THEN "OUTRIGHT_FILL" ELSE "UNKNOWN"
  <2>1. Updated(pod) = [b EXCEPT !.last = n, !.fill = b.fill + n, !.leaves = pod.leaves,
                          !.status = StatusOf(pod), !.state = StateOf(pod),
                          !.fillType = type]
    BY <1>5 DEF Updated, MinOrderExecution, b, n
  <2>2. b.fill + n \in Nat /\ type \in {"UNKNOWN", "OUTRIGHT_FILL"}
    BY <1>3, <1>4
  <2> HIDE DEF type
  <2>3. Updated(pod) \in Recs /\ Updated(pod).status = StatusOf(pod)
          /\ Updated(pod).fill = b.fill + n
    BY <1>1, <1>3, <1>4, <2>1, <2>2 DEF Recs
  <2> QED
    BY <1>1, <1>3, <1>4, <2>3
<1>6. CASE pod.kind \notin {"fill", "status"}
  <2> DEFINE num == IF pod.num # None /\ ~IsAgain(pod) THEN pod.num ELSE b.num
  <2>1. Updated(pod) = [b EXCEPT !.status = StatusOf(pod), !.state = StateOf(pod),
                          !.leaves = pod.leaves, !.fillType = "UNKNOWN", !.num = num]
    BY <1>6 DEF Updated, MinOrderUpdate, b
  <2>2. num \in Names
    BY <1>4
  <2> HIDE DEF num
  <2>3. Updated(pod) \in Recs /\ Updated(pod).status = StatusOf(pod)
          /\ Updated(pod).fill = b.fill
    BY <1>1, <1>3, <1>4, <2>1, <2>2 DEF Recs
  <2> QED
    BY <1>1, <1>3, <1>4, <2>3
<1> QED
  BY <1>5, <1>6

LEMMA StatusKnown ==
    ASSUME NEW pod \in Pods
    PROVE  StatusOf(pod) \in Statuses /\ StatusOf(pod) # "none" /\ StateOf(pod) \in States
BY DEF StatusOf, StateOf, Statuses, States, Pods, Answers, Sent

-----------------------------------------------------------------------------
(* The table.                                                              *)

LEMMA Stores ==
    ASSUME Types, NEW o \in Orders, NEW r \in Recs, r.status # "none",
           stored' = [stored EXCEPT ![o] = r]
    PROVE  /\ stored' \in [Orders -> Recs]
           /\ stored'[o] = r
           /\ \A x \in Orders : x # o => stored'[x] = stored[x]
           /\ \A x \in Orders : Known(x) => Known(x)'
           /\ Known(o)'
BY DEF Types, Known

LEMMA NoPodIsRecord == NoPod \in Recs /\ NoEntry \in Recs
BY DEF NoPod, NoEntry, Recs, Statuses, States, Names

-----------------------------------------------------------------------------
(* The exchange answers.                                                   *)

LEMMA EmitKeeps ==
    ASSUME IInv, NEW o \in Orders, Known(o),
           NEW kind \in {"ack", "mod", "cxl", "rej", "cxlrej", "replrej", "fill", "elim",
                         "status"},
           NEW last \in Nat, NEW book \in ExBooks, book.cum = ex[o].cum + last,
           NEW again \in {"no", "retransmit", "status"},
           Emit(kind, o, last, book, again),
           cmds' = cmds \/ (cmds # <<>> /\ cmds' = Tail(cmds)),
           book = ex[o] \/ \A i \in DOMAIN cmds' : cmds'[i].kind = "new" => cmds'[i].o # o,
           UNCHANGED <<stored, prev, zmq, raptor, reports, told>>
    PROVE  IInv'
<1> DEFINE leaves == IF book.st = "live" THEN book.qty - book.cum ELSE 0
           num == IF kind = "mod" THEN podNum ELSE None
           pod == [kind |-> kind, o |-> o, last |-> last, cum |-> book.cum, leaves |-> leaves,
                   num |-> num, again |-> again]
<1>1. pod \in Pods /\ pod.o = o /\ pod.last = last /\ pod.cum = book.cum
  <2>1. leaves \in Int /\ num \in Names /\ book.cum \in Nat
    BY DEF ExBooks, Names, IInv, Types
  <2> HIDE DEF leaves, num
  <2> QED
    BY <2>1 DEF Pods, Answers
<1>2. /\ responses' = Append(responses, pod)
      /\ ex' = [ex EXCEPT ![o] = book]
      /\ podNum' \in Names
  <2>1. podNum' \in Names /\ ex' = [ex EXCEPT ![o] = book]
    BY DEF Emit, IInv, Types, Names
  <2>2. CASE kind = "mod"
    <3>1. responses' = Append(responses, [Pod(kind, o, last, book, again) EXCEPT !.num = podNum])
      BY <2>2 DEF Emit, Push
    <3>2. [Pod(kind, o, last, book, again) EXCEPT !.num = podNum] = pod
      BY <2>2 DEF Pod
    <3> QED
      BY <2>1, <3>1, <3>2
  <2>3. CASE kind # "mod"
    <3>1. responses' = Append(responses, Pod(kind, o, last, book, again))
      BY <2>3 DEF Emit, Push
    <3>2. Pod(kind, o, last, book, again) = pod
      BY <2>3 DEF Pod
    <3> QED
      BY <2>1, <3>1, <3>2
  <2> QED
    BY <2>1, <2>2, <2>3
<1> HIDE DEF leaves, num, pod
<1>3. responses \in Seq(Pods) /\ ex \in [Orders -> ExBooks] /\ cmds \in Seq(Commands)
  BY DEF IInv, Types
<1>4. /\ ex' \in [Orders -> ExBooks] /\ ex'[o] = book
      /\ \A x \in Orders : x # o => ex'[x] = ex[x]
      /\ \A x \in Orders : ex[x].cum \in Nat /\ ex'[x].cum \in Nat /\ ex[x].cum <= ex'[x].cum
  BY <1>2, <1>3 DEF ExBooks
<1>5. /\ responses' \in Seq(Pods) /\ DOMAIN responses = 1 .. Len(responses)
      /\ Len(responses) \in Nat
      /\ \A i \in DOMAIN responses' :
            \/ i \in DOMAIN responses /\ responses'[i] = responses[i]
            \/ i = Len(responses) + 1 /\ responses'[i] = pod
  BY <1>1, <1>2, <1>3, AppendAdds
<1>6. /\ cmds' \in Seq(Commands)
      /\ \/ cmds' = cmds
         \/ \A i \in DOMAIN cmds' : i \in Nat /\ i + 1 \in DOMAIN cmds /\ cmds'[i] = cmds[i + 1]
  <2>1. CASE cmds' = cmds
    BY <1>3, <2>1
  <2>2. CASE cmds # <<>> /\ cmds' = Tail(cmds)
    BY <1>3, <2>2, TailShifts
  <2> QED
    BY <2>1, <2>2
<1>7. Types'
  BY <1>2, <1>4, <1>5, <1>6 DEF IInv, Types
<1>8. \A i \in DOMAIN cmds' : \E j \in DOMAIN cmds : cmds'[i] = cmds[j]
  BY <1>6
<1>9. KnownFirst'
  <2>2. \A x \in Orders : ~Known(x) => ex'[x].st = "none" /\ ex'[x].cum = 0
    BY <1>4 DEF IInv, KnownFirst
  <2>3. \A i \in DOMAIN cmds' : Known(cmds'[i].o)
    BY <1>8 DEF IInv, KnownFirst
  <2>4. \A i \in DOMAIN responses' : Known(responses'[i].o)
    BY <1>1, <1>5 DEF IInv, KnownFirst
  <2> QED
    BY <2>2, <2>3, <2>4 DEF IInv, KnownFirst, Known
<1>14. \A j \in DOMAIN cmds : cmds[j] \in Commands
  BY <1>3, LenProperties
<1>10. NewOnce'
  <2>1. \A i \in DOMAIN cmds' :
            cmds'[i].kind = "new" => ex'[cmds'[i].o].st = "none" /\ ex'[cmds'[i].o].cum = 0
    <3> SUFFICES ASSUME NEW i \in DOMAIN cmds', cmds'[i].kind = "new"
                 PROVE  ex'[cmds'[i].o].st = "none" /\ ex'[cmds'[i].o].cum = 0
      OBVIOUS
    <3>1. PICK j \in DOMAIN cmds : cmds'[i] = cmds[j]
      BY <1>8
    <3>2. cmds[j].o \in Orders
      BY <1>14 DEF Commands
    <3>3. ex[cmds[j].o].st = "none" /\ ex[cmds[j].o].cum = 0
      BY <3>1 DEF IInv, NewOnce
    <3>4. book = ex[o] \/ cmds[j].o # o
      BY <3>1
    <3> QED
      BY <1>4, <3>1, <3>2, <3>3, <3>4
  <2>2. \A i, j \in DOMAIN cmds' :
            cmds'[i].kind = "new" /\ cmds'[j].kind = "new" /\ cmds'[i].o = cmds'[j].o => i = j
    <3>1. CASE cmds' = cmds
      BY <3>1 DEF IInv, NewOnce
    <3>2. CASE cmds' # cmds
      <4> SUFFICES ASSUME NEW i \in DOMAIN cmds', NEW j \in DOMAIN cmds',
                          cmds'[i].kind = "new", cmds'[j].kind = "new", cmds'[i].o = cmds'[j].o
                   PROVE  i = j
        OBVIOUS
      <4>1. /\ i \in Nat /\ i + 1 \in DOMAIN cmds /\ cmds'[i] = cmds[i + 1]
            /\ j \in Nat /\ j + 1 \in DOMAIN cmds /\ cmds'[j] = cmds[j + 1]
        BY <1>6, <3>2
      <4>2. i + 1 = j + 1
        BY <4>1 DEF IInv, NewOnce
      <4> QED
        BY <4>1, <4>2
    <3> QED
      BY <3>1, <3>2
  <2> QED
    BY <2>1, <2>2 DEF NewOnce
<1>11. RecordCounts' /\ CopyCounts' /\ CommandCounts'
  <2>1. RecordCounts'
    <3>1. \A x \in Orders : stored[x].fill \in Nat /\ stored[x].fill <= ex[x].cum
      BY DEF IInv, Types, Recs, CountsUp, RecordCounts
    <3> QED
      BY <1>4, <3>1 DEF RecordCounts
  <2>2. CopyCounts'
    <3>1. zmq # Idle =>
            zmq.o \in Orders /\ zmq.ord.fill \in Nat /\ zmq.ord.fill <= ex[zmq.o].cum
      BY DEF IInv, Types, Requesting, Recs, CountsUp, CopyCounts
    <3> QED
      BY <1>4, <3>1 DEF CopyCounts
  <2>3. CommandCounts'
    <3> SUFFICES ASSUME NEW i \in DOMAIN cmds' PROVE cmds'[i].fill <= ex'[cmds'[i].o].cum
      BY DEF CommandCounts
    <3>1. PICK j \in DOMAIN cmds : cmds'[i] = cmds[j]
      BY <1>8
    <3>2. cmds[j].o \in Orders /\ cmds[j].fill \in Nat
      BY <1>14 DEF Commands
    <3>3. cmds[j].fill <= ex[cmds[j].o].cum
      BY DEF IInv, CountsUp, CommandCounts
    <3> QED
      BY <1>4, <3>1, <3>2, <3>3
  <2> QED
    BY <2>1, <2>2, <2>3
<1>12. MessageCounts'
  <2> SUFFICES ASSUME NEW i \in DOMAIN responses'
               PROVE  /\ responses'[i].cum <= ex'[responses'[i].o].cum
                      /\ stored[responses'[i].o].fill + responses'[i].last <= responses'[i].cum
                      /\ zmq # Idle /\ zmq.o = responses'[i].o =>
                            zmq.ord.fill + responses'[i].last <= responses'[i].cum
    BY DEF MessageCounts
  <2>1. CASE i \in DOMAIN responses /\ responses'[i] = responses[i]
    <3>1. responses[i] \in Pods
      BY <1>3, <2>1, LenProperties
    <3>2. /\ responses[i].cum <= ex[responses[i].o].cum
          /\ stored[responses[i].o].fill + responses[i].last <= responses[i].cum
          /\ zmq # Idle /\ zmq.o = responses[i].o =>
                zmq.ord.fill + responses[i].last <= responses[i].cum
      BY <2>1 DEF IInv, CountsUp, MessageCounts
    <3> QED
      BY <1>4, <2>1, <3>1, <3>2 DEF Pods
  <2>2. CASE responses'[i] = pod
    <3>1. stored[o].fill \in Nat /\ stored[o].fill <= ex[o].cum
      BY DEF IInv, Types, Recs, CountsUp, RecordCounts
    <3>2. zmq # Idle /\ zmq.o = o => zmq.ord.fill \in Nat /\ zmq.ord.fill <= ex[o].cum
      BY DEF IInv, Types, Requesting, Recs, CountsUp, CopyCounts
    <3>3. /\ responses'[i].o = o /\ responses'[i].last = last
          /\ responses'[i].cum = ex[o].cum + last /\ ex'[o].cum = ex[o].cum + last
      BY <1>1, <1>4, <2>2
    <3> QED
      BY <1>4, <3>1, <3>2, <3>3
  <2> QED
    BY <1>5, <2>1, <2>2
<1>13. MessagesFollow'
  <2> SUFFICES ASSUME NEW i \in DOMAIN responses', NEW j \in DOMAIN responses', i < j,
                      responses'[i].o = responses'[j].o
               PROVE  responses'[i].cum + responses'[j].last <= responses'[j].cum
    BY DEF MessagesFollow
  <2>1. i \in DOMAIN responses /\ responses'[i] = responses[i] /\ responses[i] \in Pods
    BY <1>2, <1>3, <1>1, <1>5, AppendProperties, LenProperties
  <2>2. CASE j \in DOMAIN responses /\ responses'[j] = responses[j]
    BY <2>1, <2>2 DEF IInv, CountsUp, MessagesFollow
  <2>3. CASE responses'[j] = pod
    <3>1. responses[i].cum <= ex[o].cum /\ responses[i].cum \in Nat
      BY <1>1, <2>1, <2>3 DEF IInv, CountsUp, MessageCounts, Pods
    <3> QED
      BY <1>1, <1>4, <2>1, <2>3, <3>1
  <2> QED
    BY <1>5, <2>2, <2>3
<1> QED
  BY <1>7, <1>9, <1>10, <1>11, <1>12, <1>13 DEF IInv, CountsUp

LEMMA BookFacts ==
    ASSUME IInv, NEW o \in Orders
    PROVE  ex[o] \in ExBooks /\ ex[o].cum \in Nat /\ ex[o].qty \in Int
BY DEF IInv, Types, ExBooks

LEMMA CommandTaken ==
    ASSUME IInv, cmds # <<>>
    PROVE  /\ Head(cmds) \in Commands /\ Known(Head(cmds).o)
           /\ Head(cmds).fill <= ex[Head(cmds).o].cum
           /\ Head(cmds).kind = "new" =>
                /\ ex[Head(cmds).o].st = "none" /\ ex[Head(cmds).o].cum = 0
                /\ \A i \in DOMAIN Tail(cmds) :
                     Tail(cmds)[i].kind = "new" => Tail(cmds)[i].o # Head(cmds).o
           /\ ex[Head(cmds).o].st # "none" =>
                \A i \in DOMAIN Tail(cmds) :
                  Tail(cmds)[i].kind = "new" => Tail(cmds)[i].o # Head(cmds).o
           /\ \A i \in DOMAIN Tail(cmds) :
                i \in Nat /\ i + 1 \in DOMAIN cmds /\ Tail(cmds)[i] = cmds[i + 1]
           /\ Tail(cmds) \in Seq(Commands)
<1>1. cmds \in Seq(Commands)
  BY DEF IInv, Types
<1>2. /\ Head(cmds) \in Commands /\ Head(cmds) = cmds[1] /\ 1 \in DOMAIN cmds
      /\ Tail(cmds) \in Seq(Commands)
      /\ \A i \in DOMAIN Tail(cmds) :
            i \in Nat /\ i + 1 \in DOMAIN cmds /\ Tail(cmds)[i] = cmds[i + 1]
  BY <1>1, TailShifts
<1>3. Known(Head(cmds).o) /\ Head(cmds).fill <= ex[Head(cmds).o].cum
  BY <1>2 DEF IInv, KnownFirst, CountsUp, CommandCounts
<1>4. ASSUME Head(cmds).kind = "new"
      PROVE  /\ ex[Head(cmds).o].st = "none" /\ ex[Head(cmds).o].cum = 0
             /\ \A i \in DOMAIN Tail(cmds) :
                  Tail(cmds)[i].kind = "new" => Tail(cmds)[i].o # Head(cmds).o
  <2>1. ex[Head(cmds).o].st = "none" /\ ex[Head(cmds).o].cum = 0
    BY <1>2, <1>4 DEF IInv, NewOnce
  <2>2. ASSUME NEW i \in DOMAIN Tail(cmds), Tail(cmds)[i].kind = "new",
               Tail(cmds)[i].o = Head(cmds).o
        PROVE  FALSE
    <3>1. i + 1 = 1
      BY <1>2, <1>4, <2>2 DEF IInv, NewOnce
    <3>2. i \in DOMAIN Tail(cmds) => i # 0
      BY <1>2, LenProperties
    <3> QED
      BY <1>2, <3>1, <3>2
  <2> QED
    BY <2>1, <2>2
<1>5. ASSUME ex[Head(cmds).o].st # "none", NEW i \in DOMAIN Tail(cmds),
             Tail(cmds)[i].kind = "new"
      PROVE  Tail(cmds)[i].o # Head(cmds).o
  BY <1>2, <1>5 DEF IInv, NewOnce
<1> QED
  BY <1>2, <1>3, <1>4, <1>5

LEMMA SendKeeps == IInv /\ Send => IInv'
<1> SUFFICES ASSUME IInv, Send PROVE IInv'
  OBVIOUS
<1> DEFINE cmd == Head(cmds)
           o == cmd.o
<1>1. /\ cmds # <<>> /\ cmds' = Tail(cmds)
      /\ UNCHANGED <<stored, prev, zmq, raptor, reports, told>>
      /\ Accept(cmd) \/ Reject(cmd)
  BY DEF Send
<1>2. /\ cmd \in Commands /\ o \in Orders /\ Known(o) /\ cmd.leaves \in Int /\ cmd.fill \in Nat
      /\ cmd.fill <= ex[o].cum
      /\ cmd.kind = "new" => ex[o].st = "none" /\ ex[o].cum = 0
      /\ cmd.kind = "new" \/ ex[o].st # "none" =>
            \A i \in DOMAIN cmds' : cmds'[i].kind = "new" => cmds'[i].o # o
  BY <1>1, CommandTaken DEF Commands
<1>3. ex[o] \in ExBooks /\ ex[o].cum \in Nat
  BY <1>2, BookFacts
<1> HIDE DEF cmd, o
<1>4. ASSUME NEW kind \in {"ack", "mod", "cxl", "rej", "cxlrej", "replrej"},
             NEW book \in ExBooks, book.cum = ex[o].cum,
             \E again \in Flags : Emit(kind, o, 0, book, again),
             book = ex[o] \/ cmd.kind = "new" \/ ex[o].st # "none"
      PROVE  IInv'
  <2>1. PICK again \in {"no", "retransmit", "status"} : Emit(kind, o, 0, book, again)
    BY <1>4 DEF Flags
  <2>2. book.cum = ex[o].cum + 0 /\ 0 \in Nat
    BY <1>3, <1>4
  <2> QED
    BY <1>1, <1>2, <1>4, <2>1, <2>2, EmitKeeps
<1>5. CASE cmd.kind = "new" /\ AcceptNew(cmd)
  <2> DEFINE book == [st |-> "live", qty |-> cmd.leaves, cum |-> 0]
  <2>1. book \in ExBooks /\ book.cum = ex[o].cum
    BY <1>2, <1>5 DEF ExBooks
  <2>2. \E again \in Flags : Emit("ack", o, 0, book, again)
    BY <1>5 DEF AcceptNew, Reply, o
  <2> HIDE DEF book
  <2> QED
    BY <1>4, <1>5, <2>1, <2>2
<1>6. CASE cmd.kind = "mod" /\ ex[o].st = "live" /\ AcceptModify(cmd)
  <2> DEFINE more == [ex[o] EXCEPT !.qty = OrderQty(cmd)]
             dead == [ex[o] EXCEPT !.st = "dead"]
  <2>1. /\ more \in ExBooks /\ more.cum = ex[o].cum
        /\ dead \in ExBooks /\ dead.cum = ex[o].cum
    BY <1>2, <1>3 DEF ExBooks, OrderQty
  <2>2. \/ \E again \in Flags : Emit("mod", o, 0, more, again)
        \/ \E again \in Flags : Emit("cxl", o, 0, dead, again)
    BY <1>6 DEF AcceptModify, Reply, o
  <2> HIDE DEF more, dead
  <2> QED
    BY <1>4, <1>6, <2>1, <2>2
<1>7. CASE ex[o].st = "live" /\ Reply(cmd, "cxl", [ex[o] EXCEPT !.st = "dead"])
  <2> DEFINE dead == [ex[o] EXCEPT !.st = "dead"]
  <2>1. dead \in ExBooks /\ dead.cum = ex[o].cum
    BY <1>3 DEF ExBooks
  <2>2. \E again \in Flags : Emit("cxl", o, 0, dead, again)
    BY <1>7 DEF Reply, o
  <2> HIDE DEF dead
  <2> QED
    BY <1>4, <1>7, <2>1, <2>2
<1>8. CASE cmd.kind = "new" /\ Reply(cmd, "rej", [ex[o] EXCEPT !.st = "dead"])
  <2> DEFINE dead == [ex[o] EXCEPT !.st = "dead"]
  <2>1. dead \in ExBooks /\ dead.cum = ex[o].cum
    BY <1>3 DEF ExBooks
  <2>2. \E again \in Flags : Emit("rej", o, 0, dead, again)
    BY <1>8 DEF Reply, o
  <2> HIDE DEF dead
  <2> QED
    BY <1>4, <1>8, <2>1, <2>2
<1>9. CASE Reply(cmd, "replrej", ex[o]) \/ Reply(cmd, "cxlrej", ex[o])
  <2>1. \/ \E again \in Flags : Emit("replrej", o, 0, ex[o], again)
        \/ \E again \in Flags : Emit("cxlrej", o, 0, ex[o], again)
    BY <1>9 DEF Reply, o
  <2> QED
    BY <1>3, <1>4, <2>1
<1> QED
  BY <1>1, <1>5, <1>6, <1>7, <1>8, <1>9 DEF Accept, Reject, o

LEMMA ExchangeKeeps == IInv /\ (\E o \in Orders : Exchange(o)) => IInv'
<1> SUFFICES ASSUME IInv, NEW o \in Orders, Exchange(o) PROVE IInv'
  OBVIOUS
<1>1. ex[o] \in ExBooks /\ ex[o].cum \in Nat /\ ex[o].qty \in Int
  BY BookFacts
<1>2. ex[o].st = "live" => Known(o)
  BY DEF IInv, KnownFirst
<1>3. ex[o].st = "live" => \A i \in DOMAIN cmds : cmds[i].kind = "new" => cmds[i].o # o
  BY DEF IInv, NewOnce
<1>4. ASSUME NEW n \in 1 .. MaxQty, Trade(o, n) PROVE IInv'
  <2> DEFINE st == IF ex[o].cum + n = ex[o].qty THEN "dead" ELSE "live"
             book == [ex[o] EXCEPT !.cum = @ + n, !.st = st]
  <2>1. ex[o].st = "live" /\ n \in Nat
    BY <1>1, <1>4, OrderConstants DEF Trade, Open
  <2>2. book \in ExBooks /\ book.cum = ex[o].cum + n
    <3>1. st \in {"none", "live", "dead"} /\ ex[o].cum + n \in Nat
      BY <1>1, <2>1
    <3> HIDE DEF st
    <3> QED
      BY <1>1, <3>1 DEF ExBooks
  <2>3. PICK again \in {"no", "retransmit", "status"} : Emit("fill", o, n, book, again)
    BY <1>4 DEF Trade, Flags
  <2>4. cmds' = cmds /\ UNCHANGED <<stored, prev, zmq, raptor, reports, told>>
    BY <1>4 DEF Trade
  <2> HIDE DEF book
  <2> QED
    BY <1>2, <1>3, <2>1, <2>2, <2>3, <2>4, EmitKeeps
<1>5. CASE Eliminate(o)
  <2> DEFINE book == [ex[o] EXCEPT !.st = "dead"]
  <2>1. ex[o].st = "live"
    BY <1>5 DEF Eliminate
  <2>2. book \in ExBooks /\ book.cum = ex[o].cum + 0
    BY <1>1 DEF ExBooks
  <2>3. PICK again \in {"no", "retransmit", "status"} : Emit("elim", o, 0, book, again)
    BY <1>5 DEF Eliminate, Flags
  <2>4. cmds' = cmds /\ UNCHANGED <<stored, prev, zmq, raptor, reports, told>>
    BY <1>5 DEF Eliminate
  <2> HIDE DEF book
  <2> QED
    BY <1>2, <1>3, <2>1, <2>2, <2>3, <2>4, EmitKeeps
<1>6. CASE StatusReport(o)
  <2> DEFINE book == ex[o]
  <2>1. ex[o].st = "live" /\ book = ex[o] /\ book \in ExBooks /\ book.cum = ex[o].cum + 0
    BY <1>1, <1>6 DEF StatusReport
  <2>2. Emit("ack", o, 0, book, "status") \/ Emit("status", o, 0, book, "status")
    BY <1>6 DEF StatusReport
  <2>3. cmds' = cmds /\ UNCHANGED <<stored, prev, zmq, raptor, reports, told>>
    BY <1>6 DEF StatusReport
  <2> HIDE DEF book
  <2> QED
    BY <1>2, <1>3, <2>1, <2>2, <2>3, EmitKeeps
<1> QED
  BY <1>4, <1>5, <1>6 DEF Exchange
-----------------------------------------------------------------------------
(* The ZMQ thread.                                                         *)

LEMMA CommandAdded ==
    ASSUME IInv, NEW c \in Commands, Push(cmds, c)
    PROVE  /\ cmds' \in Seq(Commands)
           /\ Len(cmds) \in Nat /\ DOMAIN cmds = 1 .. Len(cmds)
           /\ \A i \in DOMAIN cmds' :
                \/ i \in DOMAIN cmds /\ cmds'[i] = cmds[i]
                \/ i = Len(cmds) + 1 /\ cmds'[i] = c
           /\ \A i \in DOMAIN cmds : cmds[i] \in Commands
BY AppendAdds, LenProperties DEF IInv, Types, Push

LEMMA MessageFacts ==
    ASSUME IInv, NEW i \in DOMAIN responses
    PROVE  LET pod == responses[i]
           IN  /\ pod \in Pods /\ Known(pod.o)
               /\ pod.cum <= ex[pod.o].cum
               /\ stored[pod.o].fill + pod.last <= pod.cum
               /\ zmq # Idle /\ zmq.o = pod.o => zmq.ord.fill + pod.last <= pod.cum
<1>1. responses[i] \in Pods
  BY LenProperties DEF IInv, Types
<1> QED
  BY <1>1 DEF IInv, KnownFirst, CountsUp, MessageCounts

LEMMA KnownKept ==
    ASSUME IInv,
           \A x \in Orders : Known(x) => stored'[x].status # "none",
           UNCHANGED ex,
           told' = told \/ \A x \in Orders : told'[x].state = "WORKING" => Known(x),
           prev' = prev \/ \A x \in Orders : prev'[x] # NoEntry => prev'[x].status # "none",
           zmq' = zmq \/ zmq' = Idle,
           raptor' = raptor \/ raptor' = Idle \/ (raptor' \in Reporting /\ Known(raptor'.o)),
           \A i \in DOMAIN cmds' : cmds'[i].o \in Orders /\ Known(cmds'[i].o),
           \A i \in DOMAIN responses' : responses'[i].o \in Orders /\ Known(responses'[i].o),
           \A i \in DOMAIN reports' : reports'[i].o \in Orders /\ Known(reports'[i].o)
    PROVE  KnownFirst'
<1>1. \A x \in Orders : stored'[x].status = "none" => ~Known(x)
  OBVIOUS
<1>2. raptor # Idle => raptor.o \in Orders
  BY DEF IInv, Types, Reporting, Rejecting
<1>3. zmq # Idle => zmq.o \in Orders
  BY DEF IInv, Types, Requesting
<1>4. raptor' \notin Rejecting \/ raptor' = raptor
  BY DEF Reporting, Rejecting, Idle
<1>5. \A x \in Orders : told'[x].state = "WORKING" => Known(x)
  BY DEF IInv, KnownFirst
<1>6. \A x \in Orders : prev'[x] # NoEntry => prev'[x].status # "none"
  BY DEF IInv, KnownFirst
<1>7. \A x \in Orders : stored'[x].status = "none" => ex'[x].st = "none" /\ ex'[x].cum = 0
  BY <1>1 DEF IInv, KnownFirst
<1>8. zmq' # Idle => stored'[zmq'.o].status # "none" /\ zmq'.ord.status # "none"
  BY <1>3 DEF IInv, KnownFirst
<1>9. raptor' # Idle => stored'[raptor'.o].status # "none"
  <2>1. raptor' \in Reporting => raptor'.o \in Orders
    BY DEF Reporting
  <2> QED
    BY <1>2, <2>1 DEF IInv, KnownFirst
<1>10. raptor' \in Rejecting => (raptor'.old = NoEntry /\ raptor'.pc = "cxlrej")
                                    \/ raptor'.old.status # "none"
  BY <1>4 DEF IInv, KnownFirst
<1> QED
  BY <1>5, <1>6, <1>7, <1>8, <1>9, <1>10 DEF KnownFirst, Known

LEMMA QueuesKnown ==
    ASSUME IInv
    PROVE  /\ \A i \in DOMAIN cmds :
                cmds[i] \in Commands /\ cmds[i].o \in Orders /\ Known(cmds[i].o)
           /\ \A i \in DOMAIN responses : responses[i].o \in Orders /\ Known(responses[i].o)
           /\ \A i \in DOMAIN reports :
                reports[i] \in Reports /\ reports[i].o \in Orders /\ Known(reports[i].o)
<1>1. \A i \in DOMAIN cmds : cmds[i] \in Commands
  BY LenProperties DEF IInv, Types
<1>2. \A i \in DOMAIN reports : reports[i] \in Reports
  BY LenProperties DEF IInv, Types
<1> QED
  BY <1>1, <1>2, MessageFacts DEF IInv, KnownFirst, Commands, Pods, Reports

LEMMA HandleNewOrderKeeps ==
    ASSUME IInv, NEW o \in Orders, NEW q \in 1 .. MaxQty, HandleNewOrder(o, q)
    PROVE  IInv'
<1> DEFINE ord == [NoPod EXCEPT !.status = "sent_new", !.leaves = q, !.num = o]
           c == [o |-> o, kind |-> "new", leaves |-> q, fill |-> 0]
<1>1. q \in Int
  BY OrderConstants
<1>2. ord \in Recs /\ ord.status # "none" /\ ord.fill = 0
  BY <1>1 DEF NoPod, Recs, Statuses, States, Names, Sent
<1>3. c \in Commands /\ c.o = o /\ c.fill = 0 /\ c.kind = "new"
  BY <1>1 DEF Commands
<1>4. ~Known(o) /\ zmq = Idle /\ stored' = [stored EXCEPT ![o] = ord] /\ Push(cmds, c)
  BY DEF HandleNewOrder, Known
<1> HIDE DEF ord, c
<1>5. /\ stored' \in [Orders -> Recs] /\ stored'[o] = ord
      /\ \A x \in Orders : x # o => stored'[x] = stored[x]
      /\ \A x \in Orders : Known(x) => stored'[x].status # "none"
      /\ stored'[o].status # "none"
  BY <1>2, <1>4, Stores DEF IInv, Known
<1>6. /\ cmds' \in Seq(Commands)
      /\ Len(cmds) \in Nat /\ DOMAIN cmds = 1 .. Len(cmds)
      /\ \A i \in DOMAIN cmds' :
            \/ i \in DOMAIN cmds /\ cmds'[i] = cmds[i]
            \/ i = Len(cmds) + 1 /\ cmds'[i] = c
      /\ \A i \in DOMAIN cmds : cmds[i] \in Commands
  BY <1>3, <1>4, CommandAdded
<1>7. ex[o].st = "none" /\ ex[o].cum = 0
  BY <1>4 DEF IInv, KnownFirst
<1>8. UNCHANGED <<prev, zmq, ex, podNum, responses, raptor, reports, told>>
  BY DEF HandleNewOrder
<1>9. Types'
  BY <1>5, <1>6, <1>8 DEF IInv, Types
<1>10. \A i \in DOMAIN cmds : Known(cmds[i].o) /\ cmds[i].o \in Orders /\ cmds[i].o # o
  BY <1>4, <1>6 DEF IInv, KnownFirst, Commands
<1>11. \A i \in DOMAIN responses : Known(responses[i].o) /\ responses[i].o # o
                                    /\ responses[i].o \in Orders
  BY <1>4, MessageFacts DEF Pods
<1>12. KnownFirst'
  <2>1. \A x \in Orders : stored'[x].status = "none" => ~Known(x)
    BY <1>5
  <2>2. \A i \in DOMAIN cmds' : stored'[cmds'[i].o].status # "none"
    BY <1>3, <1>5, <1>6, <1>10
  <2>3. \A i \in DOMAIN reports : reports[i] \in Reports /\ reports[i].o \in Orders
    <3>1. \A i \in DOMAIN reports : reports[i] \in Reports
      BY LenProperties DEF IInv, Types
    <3> QED
      BY <3>1 DEF Reports
  <2>4. raptor # Idle => raptor.o \in Orders
    BY DEF IInv, Types, Reporting, Rejecting
  <2> QED
    BY <1>4, <1>5, <1>8, <1>11, <2>1, <2>2, <2>3, <2>4 DEF IInv, KnownFirst, Known
<1>13. NewOnce'
  <2>1. \A i \in DOMAIN cmds' : cmds'[i].kind = "new" =>
            ex[cmds'[i].o].st = "none" /\ ex[cmds'[i].o].cum = 0
    BY <1>3, <1>6, <1>7 DEF IInv, NewOnce
  <2>2. \A i, j \in DOMAIN cmds' :
            cmds'[i].kind = "new" /\ cmds'[j].kind = "new" /\ cmds'[i].o = cmds'[j].o => i = j
    BY <1>3, <1>6, <1>10 DEF IInv, NewOnce
  <2> QED
    BY <1>8, <2>1, <2>2 DEF NewOnce
<1>14. CountsUp'
  <2>1. RecordCounts'
    BY <1>2, <1>5, <1>7, <1>8 DEF IInv, CountsUp, RecordCounts
  <2>2. CopyCounts'
    BY <1>4, <1>8 DEF CopyCounts
  <2>3. CommandCounts'
    BY <1>3, <1>6, <1>7, <1>8 DEF IInv, CountsUp, CommandCounts
  <2>4. MessageCounts'
    BY <1>4, <1>5, <1>8, <1>11 DEF IInv, CountsUp, MessageCounts
  <2>5. MessagesFollow'
    BY <1>8 DEF IInv, CountsUp, MessagesFollow
  <2> QED
    BY <2>1, <2>2, <2>3, <2>4, <2>5 DEF CountsUp
<1> QED
  BY <1>9, <1>12, <1>13, <1>14 DEF IInv

LEMMA BeginKeeps ==
    ASSUME IInv, NEW o \in Orders, NEW kind \in {"mod", "cxl"}, NEW q \in Int,
           Begin(o, kind, q)
    PROVE  IInv'
<1> DEFINE z == [pc |-> "snapshot", o |-> o, kind |-> kind, asked |-> q, ord |-> stored[o]]
<1>1. stored[o] \in Recs
  BY DEF IInv, Types
<1>2. z \in Requesting /\ z.o = o /\ z.ord = stored[o]
  BY <1>1 DEF Requesting
<1>3. zmq' = z /\ UNCHANGED <<stored, prev, cmds, ex, podNum, responses, raptor, reports, told>>
  BY DEF Begin
<1>4. Known(o)
  BY DEF Begin, MayRequest, IInv, KnownFirst
<1> HIDE DEF z
<1>5. Types'
  BY <1>2, <1>3 DEF IInv, Types
<1>6. KnownFirst'
  BY <1>2, <1>3, <1>4 DEF IInv, KnownFirst, Known
<1>7. NewOnce'
  BY <1>3 DEF IInv, NewOnce
<1>8. CountsUp'
  <2>1. RecordCounts' /\ CommandCounts' /\ MessagesFollow'
    BY <1>3 DEF IInv, CountsUp, RecordCounts, CommandCounts, MessagesFollow
  <2>2. CopyCounts'
    BY <1>2, <1>3 DEF IInv, CountsUp, RecordCounts, CopyCounts
  <2>3. MessageCounts'
    BY <1>2, <1>3 DEF IInv, CountsUp, MessageCounts
  <2> QED
    BY <2>1, <2>2, <2>3 DEF CountsUp
<1> QED
  BY <1>5, <1>6, <1>7, <1>8 DEF IInv

LEMMA SnapshotKeeps == ASSUME IInv, Snapshot PROVE IInv'
<1>1. zmq \in Requesting /\ zmq # Idle
  BY DEF Snapshot, IInv, Types, Idle
<1>2. zmq.ord \in Recs /\ zmq.o \in Orders /\ zmq.ord.status # "none"
  BY <1>1 DEF Requesting, IInv, KnownFirst
<1>3. prev' \in [Orders -> Recs] /\ \A x \in Orders : prev'[x] = prev[x] \/ prev'[x] = zmq.ord
  BY <1>2 DEF Snapshot, IInv, Types
<1>4. /\ zmq' \in Requesting /\ zmq' # Idle /\ zmq'.o = zmq.o /\ zmq'.ord = zmq.ord
  BY <1>1 DEF Snapshot, Requesting, Idle
<1>5. UNCHANGED <<stored, cmds, ex, podNum, responses, raptor, reports, told>>
  BY DEF Snapshot
<1>6. Types'
  BY <1>3, <1>4, <1>5 DEF IInv, Types
<1>7. KnownFirst'
  BY <1>1, <1>2, <1>3, <1>4, <1>5 DEF IInv, KnownFirst, Known
<1>8. NewOnce'
  BY <1>5 DEF IInv, NewOnce
<1>9. CountsUp'
  BY <1>1, <1>4, <1>5
     DEF IInv, CountsUp, RecordCounts, CopyCounts, CommandCounts, MessageCounts, MessagesFollow
<1> QED
  BY <1>6, <1>7, <1>8, <1>9 DEF IInv
LEMMA SendOrderKeeps == ASSUME IInv, SendOrder PROVE IInv'
<1> DEFINE o == zmq.o
           ord == Request
           c == [o |-> zmq.o, kind |-> zmq.kind, leaves |-> Request.leaves,
                 fill |-> Request.fill]
<1>1. zmq \in Requesting /\ zmq # Idle
  BY DEF SendOrder, IInv, Types, Idle
<1>2. /\ zmq.ord \in Recs /\ o \in Orders /\ zmq.kind \in {"mod", "cxl"} /\ zmq.asked \in Int
      /\ Known(o)
  BY <1>1 DEF Requesting, IInv, KnownFirst
<1>3. ord \in Recs /\ ord.status # "none" /\ ord.fill = zmq.ord.fill
  <2> DEFINE named == [zmq.ord EXCEPT !.num = zmq.o]
  <2>1. named \in Recs /\ named.fill = zmq.ord.fill
    BY <1>2 DEF Recs, Names
  <2>2. CASE zmq.kind = "mod"
    <3>1. ord = [named EXCEPT !.status = "sent_mod", !.leaves = zmq.asked]
      BY <2>2 DEF Request
    <3> HIDE DEF named, ord
    <3> QED
      BY <1>2, <2>1, <3>1 DEF Recs, Statuses, Sent
  <2>3. CASE zmq.kind # "mod"
    <3>1. ord = [named EXCEPT !.status = "sent_cxl"]
      BY <2>3 DEF Request
    <3> HIDE DEF named, ord
    <3> QED
      BY <2>1, <3>1 DEF Recs, Statuses, Sent
  <2> QED
    BY <2>2, <2>3
<1>4. /\ c \in Commands /\ c.o = o /\ c.fill = zmq.ord.fill /\ c.kind # "new"
  BY <1>2, <1>3 DEF Commands, Recs
<1>5. /\ stored' = [stored EXCEPT ![o] = ord] /\ Push(cmds, c) /\ zmq' = Idle
      /\ UNCHANGED <<prev, ex, podNum, responses, raptor, reports, told>>
  BY DEF SendOrder
<1>6. zmq.ord.fill <= ex[o].cum
  BY <1>1 DEF IInv, CountsUp, CopyCounts
<1>7. \A i \in DOMAIN responses : responses[i].o = o =>
            zmq.ord.fill + responses[i].last <= responses[i].cum
  BY <1>1, MessageFacts
<1> HIDE DEF ord, c, o
<1>8. /\ stored' \in [Orders -> Recs] /\ stored'[o] = ord
      /\ \A x \in Orders : x # o => stored'[x] = stored[x]
      /\ \A x \in Orders : Known(x) => stored'[x].status # "none"
  BY <1>2, <1>3, <1>5, Stores DEF IInv, Known
<1>9. /\ cmds' \in Seq(Commands)
      /\ Len(cmds) \in Nat /\ DOMAIN cmds = 1 .. Len(cmds)
      /\ \A i \in DOMAIN cmds' :
            \/ i \in DOMAIN cmds /\ cmds'[i] = cmds[i]
            \/ i = Len(cmds) + 1 /\ cmds'[i] = c
      /\ \A i \in DOMAIN cmds : cmds[i] \in Commands
  BY <1>4, <1>5, CommandAdded
<1>10. Types'
  BY <1>5, <1>8, <1>9 DEF IInv, Types
<1>11. KnownFirst'
  <2>1. \A i \in DOMAIN cmds' : cmds'[i].o \in Orders /\ Known(cmds'[i].o)
    BY <1>2, <1>4, <1>9, QueuesKnown
  <2> QED
    BY <1>5, <1>8, <2>1, QueuesKnown, KnownKept
<1>12. NewOnce'
  <2>1. \A i \in DOMAIN cmds' : cmds'[i].kind = "new" =>
            i \in DOMAIN cmds /\ cmds'[i] = cmds[i]
    BY <1>4, <1>9
  <2> QED
    BY <1>5, <2>1 DEF IInv, NewOnce
<1>13. CountsUp'
  <2>1. RecordCounts'
    BY <1>3, <1>5, <1>6, <1>8 DEF IInv, CountsUp, RecordCounts
  <2>2. CopyCounts'
    BY <1>5 DEF CopyCounts
  <2>3. CommandCounts'
    BY <1>4, <1>5, <1>6, <1>9 DEF IInv, CountsUp, CommandCounts
  <2>4. MessageCounts'
    <3>1. \A i \in DOMAIN responses : responses[i].o \in Orders
      BY MessageFacts DEF Pods
    <3> QED
      BY <1>3, <1>5, <1>7, <1>8, <3>1 DEF IInv, CountsUp, MessageCounts
  <2>5. MessagesFollow'
    BY <1>5 DEF IInv, CountsUp, MessagesFollow
  <2> QED
    BY <2>1, <2>2, <2>3, <2>4, <2>5 DEF CountsUp
<1> QED
  BY <1>10, <1>11, <1>12, <1>13 DEF IInv
LEMMA SendRefusedKeeps == ASSUME IInv, SendRefused PROVE IInv'
<1>1. /\ cmds' = Tail(cmds) /\ cmds # <<>>
      /\ UNCHANGED <<stored, prev, zmq, ex, podNum, responses, raptor, reports, told>>
  BY DEF SendRefused
<1>2. /\ cmds' \in Seq(Commands)
      /\ \A i \in DOMAIN cmds' : i \in Nat /\ i + 1 \in DOMAIN cmds /\ cmds'[i] = cmds[i + 1]
  BY <1>1, CommandTaken
<1>3. Types'
  BY <1>1, <1>2 DEF IInv, Types
<1>4. KnownFirst'
  <2>1. \A i \in DOMAIN cmds' : cmds'[i].o \in Orders /\ Known(cmds'[i].o)
    BY <1>2, QueuesKnown
  <2> QED
    BY <1>1, <2>1, QueuesKnown, KnownKept DEF Known
<1>5. NewOnce'
  <2>1. \A i \in DOMAIN cmds' :
            cmds'[i].kind = "new" => ex[cmds'[i].o].st = "none" /\ ex[cmds'[i].o].cum = 0
    BY <1>2 DEF IInv, NewOnce
  <2>2. ASSUME NEW i \in DOMAIN cmds', NEW j \in DOMAIN cmds',
               cmds'[i].kind = "new", cmds'[j].kind = "new", cmds'[i].o = cmds'[j].o
        PROVE  i = j
    <3>1. i + 1 = j + 1
      BY <1>2, <2>2 DEF IInv, NewOnce
    <3> QED
      BY <1>2, <3>1
  <2> QED
    BY <1>1, <2>1, <2>2 DEF NewOnce
<1>6. CountsUp'
  <2>1. CommandCounts'
    BY <1>1, <1>2 DEF IInv, CountsUp, CommandCounts
  <2> QED
    BY <1>1, <2>1 DEF IInv, CountsUp, RecordCounts, CopyCounts, MessageCounts, MessagesFollow
<1> QED
  BY <1>3, <1>4, <1>5, <1>6 DEF IInv

-----------------------------------------------------------------------------
(* The Raptor thread and the reporter.                                     *)

LEMMA MessageTaken ==
    ASSUME IInv, Pop
    PROVE  LET pod == Head(responses)
           IN  /\ pod \in Pods /\ pod.o \in Orders /\ Known(pod.o)
               /\ pod.cum <= ex[pod.o].cum
               /\ stored[pod.o].fill + pod.last <= pod.cum
               /\ responses' \in Seq(Pods)
               /\ \A i \in DOMAIN responses' :
                    /\ i \in Nat /\ i + 1 \in DOMAIN responses
                    /\ responses'[i] = responses[i + 1] /\ responses'[i] \in Pods
                    /\ responses'[i].o = pod.o =>
                         pod.cum + responses'[i].last <= responses'[i].cum
<1>1. responses # <<>> /\ responses' = Tail(responses) /\ responses \in Seq(Pods)
  BY DEF Pop, IInv, Types
<1>2. /\ Head(responses) = responses[1] /\ 1 \in DOMAIN responses /\ responses' \in Seq(Pods)
      /\ \A i \in DOMAIN responses' :
            i \in Nat /\ i + 1 \in DOMAIN responses /\ responses'[i] = responses[i + 1]
  BY <1>1, TailShifts
<1>3. \A i \in DOMAIN responses' : i >= 1 /\ responses'[i] \in Pods
  BY <1>2, LenProperties
<1>4. \A i \in DOMAIN responses' : responses'[i].o = Head(responses).o =>
            Head(responses).cum + responses'[i].last <= responses'[i].cum
  <2> SUFFICES ASSUME NEW i \in DOMAIN responses', responses'[i].o = Head(responses).o
               PROVE  Head(responses).cum + responses'[i].last <= responses'[i].cum
    OBVIOUS
  <2>1. 1 < i + 1 /\ i + 1 \in DOMAIN responses /\ responses[1].o = responses[i + 1].o
    BY <1>2, <1>3
  <2> QED
    BY <1>2, <2>1 DEF IInv, CountsUp, MessagesFollow
<1>5. Head(responses) \in Pods /\ Head(responses).o \in Orders /\ Known(Head(responses).o)
      /\ Head(responses).cum <= ex[Head(responses).o].cum
      /\ stored[Head(responses).o].fill + Head(responses).last <= Head(responses).cum
  BY <1>2, MessageFacts DEF Pods
<1> QED
  BY <1>2, <1>3, <1>4, <1>5

LEMMA ReportAdded ==
    ASSUME IInv, NEW o \in Orders, NEW ord \in Recs, NEW rejected \in BOOLEAN, Known(o),
           reports' = Append(reports, [o |-> o, ord |-> ord, rejected |-> rejected])
    PROVE  /\ reports' \in Seq(Reports)
           /\ \A i \in DOMAIN reports' : reports'[i].o \in Orders /\ Known(reports'[i].o)
<1> DEFINE r == [o |-> o, ord |-> ord, rejected |-> rejected]
<1>1. r \in Reports /\ r.o = o /\ reports' = Append(reports, r)
  BY DEF Reports
<1> HIDE DEF r
<1>2. reports \in Seq(Reports)
  BY DEF IInv, Types
<1> QED
  BY <1>1, <1>2, AppendAdds, QueuesKnown

\* A step that leaves the table, the exchange and the requests alone, and at most
\* takes a message from the queue, keeps the counts.
LEMMA CountsKept ==
    ASSUME IInv, UNCHANGED <<stored, zmq, cmds, ex>>, Pop \/ UNCHANGED responses
    PROVE  NewOnce' /\ CountsUp'
<1>1. NewOnce'
  BY DEF IInv, NewOnce
<1>2. CASE UNCHANGED responses
  BY <1>1, <1>2
     DEF IInv, CountsUp, RecordCounts, CopyCounts, CommandCounts, MessageCounts, MessagesFollow
<1>3. CASE Pop
  <2>1. RecordCounts' /\ CopyCounts' /\ CommandCounts'
    BY DEF IInv, CountsUp, RecordCounts, CopyCounts, CommandCounts
  <2>2. MessageCounts' /\ MessagesFollow'
    <3>1. \A i \in DOMAIN responses' : i \in Nat /\ i + 1 \in DOMAIN responses
                                         /\ responses'[i] = responses[i + 1]
      BY <1>3, MessageTaken
    <3>2. MessageCounts'
      BY <3>1 DEF IInv, CountsUp, MessageCounts
    <3>3. ASSUME NEW i \in DOMAIN responses', NEW j \in DOMAIN responses', i < j,
                 responses'[i].o = responses'[j].o
          PROVE  responses'[i].cum + responses'[j].last <= responses'[j].cum
      <4>1. i + 1 < j + 1 /\ responses[i + 1].o = responses[j + 1].o
        BY <3>1, <3>3
      <4> QED
        BY <3>1, <4>1 DEF IInv, CountsUp, MessagesFollow
    <3> QED
      BY <3>2, <3>3 DEF MessagesFollow
  <2> QED
    BY <1>1, <2>1, <2>2 DEF CountsUp
<1> QED
  BY <1>2, <1>3

LEMMA ApplyKeeps == ASSUME IInv, Apply PROVE IInv'
<1> DEFINE pod == Head(responses)
           ord == Updated(pod)
           r == [pc |-> "report", o |-> pod.o, pod |-> pod]
<1>1. /\ Pop /\ pod.kind \in {"ack", "mod", "cxl", "elim", "fill", "status"}
      /\ stored' = [stored EXCEPT ![pod.o] = ord] /\ raptor' = r
      /\ UNCHANGED <<prev, zmq, cmds, ex, podNum, reports, told>>
  BY DEF Apply
<1>2. /\ pod \in Pods /\ pod.o \in Orders /\ Known(pod.o)
      /\ pod.cum <= ex[pod.o].cum
      /\ stored[pod.o].fill + pod.last <= pod.cum
      /\ responses' \in Seq(Pods)
      /\ \A i \in DOMAIN responses' :
            /\ i \in Nat /\ i + 1 \in DOMAIN responses
            /\ responses'[i] = responses[i + 1] /\ responses'[i] \in Pods
            /\ responses'[i].o = pod.o => pod.cum + responses'[i].last <= responses'[i].cum
  BY <1>1, MessageTaken
<1>3. ord \in Recs /\ ord.status # "none" /\ ord.fill <= pod.cum
  BY <1>1, <1>2, UpdatedCounts DEF IInv
<1>4. r \in Reporting /\ r.o = pod.o
  BY <1>2 DEF Reporting
<1> HIDE DEF pod, ord, r
<1>5. /\ stored' \in [Orders -> Recs] /\ stored'[pod.o] = ord
      /\ \A x \in Orders : x # pod.o => stored'[x] = stored[x]
      /\ \A x \in Orders : Known(x) => stored'[x].status # "none"
  BY <1>1, <1>2, <1>3, Stores DEF IInv, Known
<1>6. Types'
  BY <1>1, <1>2, <1>4, <1>5 DEF IInv, Types
<1>7. KnownFirst'
  <2>1. \A i \in DOMAIN responses' : responses'[i].o \in Orders /\ Known(responses'[i].o)
    BY <1>2, QueuesKnown
  <2>2. raptor' \in Reporting /\ Known(raptor'.o)
    BY <1>1, <1>2, <1>4
  <2> QED
    BY <1>1, <1>5, <2>1, <2>2, QueuesKnown, KnownKept
<1>8. NewOnce'
  BY <1>1 DEF IInv, NewOnce
<1>9. CountsUp'
  <2>1. pod.cum \in Nat /\ ord.fill \in Nat /\ ex[pod.o].cum \in Nat
    BY <1>2, <1>3, BookFacts DEF Pods, Recs
  <2>2. RecordCounts'
    BY <1>1, <1>2, <1>3, <1>5, <2>1 DEF IInv, CountsUp, RecordCounts
  <2>3. CopyCounts' /\ CommandCounts'
    BY <1>1 DEF IInv, CountsUp, CopyCounts, CommandCounts
  <2>4. MessageCounts'
    <3> SUFFICES ASSUME NEW i \in DOMAIN responses'
                 PROVE  /\ responses'[i].cum <= ex[responses'[i].o].cum
                        /\ stored'[responses'[i].o].fill + responses'[i].last
                              <= responses'[i].cum
                        /\ zmq # Idle /\ zmq.o = responses'[i].o =>
                              zmq.ord.fill + responses'[i].last <= responses'[i].cum
      BY <1>1 DEF MessageCounts
    <3>1. /\ responses'[i].cum <= ex[responses'[i].o].cum
          /\ stored[responses'[i].o].fill + responses'[i].last <= responses'[i].cum
          /\ zmq # Idle /\ zmq.o = responses'[i].o =>
                zmq.ord.fill + responses'[i].last <= responses'[i].cum
      BY <1>2, MessageFacts
    <3>2. responses'[i].o \in Orders /\ responses'[i].last \in Nat /\ responses'[i].cum \in Nat
      BY <1>2 DEF Pods
    <3>3. CASE responses'[i].o = pod.o
      BY <1>2, <1>3, <1>5, <2>1, <3>1, <3>2, <3>3
    <3>4. CASE responses'[i].o # pod.o
      BY <1>5, <3>1, <3>2, <3>4
    <3> QED
      BY <3>3, <3>4
  <2>5. MessagesFollow'
    <3>1. ASSUME NEW i \in DOMAIN responses', NEW j \in DOMAIN responses', i < j,
                 responses'[i].o = responses'[j].o
          PROVE  responses'[i].cum + responses'[j].last <= responses'[j].cum
      <4>1. i + 1 < j + 1 /\ responses[i + 1].o = responses[j + 1].o
        BY <1>2, <3>1
      <4> QED
        BY <1>2, <4>1 DEF IInv, CountsUp, MessagesFollow
    <3> QED
      BY <3>1 DEF MessagesFollow
  <2> QED
    BY <2>2, <2>3, <2>4, <2>5 DEF CountsUp
<1> QED
  BY <1>6, <1>7, <1>8, <1>9 DEF IInv
LEMMA DropKeeps == ASSUME IInv, Drop PROVE IInv'
<1>1. Pop /\ UNCHANGED <<stored, prev, zmq, cmds, ex, podNum, raptor, reports, told>>
  BY DEF Drop
<1>2. Types'
  BY <1>1, MessageTaken DEF IInv, Types
<1>3. KnownFirst'
  <2>1. \A i \in DOMAIN responses' : responses'[i].o \in Orders /\ Known(responses'[i].o)
    BY <1>1, MessageTaken, QueuesKnown
  <2> QED
    BY <1>1, <2>1, QueuesKnown, KnownKept DEF Known
<1> QED
  BY <1>1, <1>2, <1>3, CountsKept DEF IInv

LEMMA MinOrderRejectKeeps == ASSUME IInv, MinOrderReject PROVE IInv'
<1> DEFINE pod == Head(responses)
           ord == [NoPod EXCEPT !.status = "REJECTED", !.state = "COMPLETE"]
<1>1. /\ Pop /\ reports' = Append(reports, [o |-> pod.o, ord |-> ord, rejected |-> FALSE])
      /\ UNCHANGED <<stored, prev, zmq, cmds, ex, podNum, raptor, told>>
  BY DEF MinOrderReject, Report, Push
<1>2. ord \in Recs
  BY NoPodIsRecord DEF Recs, Statuses, States
<1> HIDE DEF ord
<1>3. /\ reports' \in Seq(Reports)
      /\ \A i \in DOMAIN reports' : reports'[i].o \in Orders /\ Known(reports'[i].o)
  <2>1. pod.o \in Orders /\ Known(pod.o)
    BY <1>1, MessageTaken
  <2> QED
    BY <1>1, <1>2, <2>1, ReportAdded
<1>4. Types'
  BY <1>1, <1>3, MessageTaken DEF IInv, Types
<1>5. KnownFirst'
  <2>1. \A i \in DOMAIN responses' : responses'[i].o \in Orders /\ Known(responses'[i].o)
    BY <1>1, MessageTaken, QueuesKnown
  <2> QED
    BY <1>1, <1>3, <2>1, QueuesKnown, KnownKept DEF Known
<1> QED
  BY <1>1, <1>4, <1>5, CountsKept DEF IInv

LEMMA ProcessOrderKeeps == ASSUME IInv, ProcessOrder PROVE IInv'
<1>1. raptor \in Reporting /\ raptor # Idle
  BY DEF ProcessOrder, IInv, Types, Idle, Rejecting
<1>2. /\ UNCHANGED <<stored, prev, zmq, cmds, ex, podNum, responses, told>>
      /\ raptor' = Idle \/ raptor' = [raptor EXCEPT !.pc = "forget"]
  BY DEF ProcessOrder
<1> DEFINE o == raptor.o
           ord == stored[o]
<1>3. /\ o \in Orders /\ ord \in Recs /\ Known(o)
      /\ reports' = Append(reports, [o |-> o, ord |-> ord, rejected |-> FALSE])
  BY <1>1 DEF ProcessOrder, Report, Push, Reporting, IInv, Types, KnownFirst
<1>4. raptor' = Idle \/ (raptor' \in Reporting /\ Known(raptor'.o))
  BY <1>1, <1>2, <1>3 DEF Reporting
<1> HIDE DEF o, ord
<1>5. /\ reports' \in Seq(Reports)
      /\ \A i \in DOMAIN reports' : reports'[i].o \in Orders /\ Known(reports'[i].o)
  BY <1>3, ReportAdded
<1>6. Types'
  BY <1>2, <1>4, <1>5 DEF IInv, Types
<1>7. KnownFirst'
  BY <1>2, <1>4, <1>5, QueuesKnown, KnownKept DEF Known
<1> QED
  BY <1>2, <1>6, <1>7, CountsKept DEF IInv

LEMMA ForgetKeeps == ASSUME IInv, Forget PROVE IInv'
<1>1. /\ prev' = [prev EXCEPT ![raptor.o] = NoEntry] /\ raptor' = Idle
      /\ UNCHANGED <<stored, zmq, cmds, ex, podNum, responses, reports, told>>
  BY DEF Forget
<1>2. /\ prev' \in [Orders -> Recs]
      /\ \A x \in Orders : prev'[x] # NoEntry => prev'[x].status # "none"
  BY <1>1, NoPodIsRecord DEF IInv, Types, KnownFirst
<1>3. Types'
  BY <1>1, <1>2 DEF IInv, Types
<1>4. KnownFirst'
  BY <1>1, <1>2, QueuesKnown, KnownKept DEF Known
<1> QED
  BY <1>1, <1>3, <1>4, CountsKept DEF IInv

LEMMA TakeSnapshotKeeps == ASSUME IInv, TakeSnapshot PROVE IInv'
<1> DEFINE pod == Head(responses)
           o == pod.o
           old == prev[o]
           r == [pc |-> pod.kind, o |-> o, pod |-> pod, old |-> old]
<1>1. /\ Pop /\ pod.kind \in {"cxlrej", "replrej"}
      /\ prev' = [prev EXCEPT ![o] = NoEntry]
      /\ raptor' = IF pod.kind = "replrej" /\ old = NoEntry THEN Idle ELSE r
      /\ UNCHANGED <<stored, zmq, cmds, ex, podNum, reports, told>>
  BY DEF TakeSnapshot
<1>2. pod \in Pods /\ o \in Orders /\ Known(o)
  BY <1>1, MessageTaken
<1>3. old \in Recs /\ (old # NoEntry => old.status # "none")
  BY <1>2 DEF IInv, Types, KnownFirst
<1>4. r \in Rejecting /\ r.o = o /\ r.old = old /\ r.pc = pod.kind
  BY <1>1, <1>2, <1>3 DEF Rejecting
<1> HIDE DEF pod, o, old, r
<1>5. /\ prev' \in [Orders -> Recs]
      /\ \A x \in Orders : prev'[x] # NoEntry => prev'[x].status # "none"
  BY <1>1, <1>2, NoPodIsRecord DEF IInv, Types, KnownFirst
<1>6. raptor' = Idle \/ raptor' = r
  BY <1>1
<1>7. Types'
  BY <1>1, <1>4, <1>5, <1>6, MessageTaken DEF IInv, Types
<1>8. KnownFirst'
  <2>1. /\ raptor' # Idle => stored'[raptor'.o].status # "none"
        /\ raptor' \in Rejecting => (raptor'.old = NoEntry /\ raptor'.pc = "cxlrej")
                                        \/ raptor'.old.status # "none"
    <3>1. CASE raptor' = Idle
      BY <3>1 DEF Rejecting, Idle
    <3>2. CASE raptor' = r /\ raptor' # Idle
      BY <1>1, <1>2, <1>3, <1>4, <3>2 DEF Known
    <3> QED
      BY <1>6, <3>1, <3>2
  <2>2. \A i \in DOMAIN responses' : Known(responses'[i].o)
    BY <1>1, MessageTaken, QueuesKnown
  <2> QED
    BY <1>1, <1>5, <2>1, <2>2 DEF IInv, KnownFirst, Known
<1> QED
  BY <1>1, <1>7, <1>8, CountsKept DEF IInv

\* A rejection leaves the quantity filled in the record.
LEMMA RejectionKeeps ==
    ASSUME IInv, NEW ord \in Recs, NEW told1 \in Recs, NEW rejected \in BOOLEAN,
           raptor \in Rejecting, ord.status # "none", ord.fill = stored[raptor.o].fill,
           stored' = [stored EXCEPT ![raptor.o] = ord], raptor' = Idle,
           reports' = Append(reports, [o |-> raptor.o, ord |-> told1, rejected |-> rejected]),
           UNCHANGED <<prev, zmq, cmds, ex, podNum, responses, told>>
    PROVE  IInv'
<1> DEFINE o == raptor.o
<1>1. /\ o \in Orders /\ Known(o)
      /\ reports' = Append(reports, [o |-> o, ord |-> told1, rejected |-> rejected])
  BY DEF Rejecting, IInv, KnownFirst, Idle
<1>2. stored' = [stored EXCEPT ![o] = ord] /\ ord.fill = stored[o].fill
  OBVIOUS
<1> HIDE DEF o
<1>3. /\ stored' \in [Orders -> Recs]
      /\ \A x \in Orders : stored'[x].fill = stored[x].fill
      /\ \A x \in Orders : Known(x) => stored'[x].status # "none"
  BY <1>1, <1>2, Stores DEF IInv, Known
<1>4. /\ reports' \in Seq(Reports)
      /\ \A i \in DOMAIN reports' : reports'[i].o \in Orders /\ Known(reports'[i].o)
  BY <1>1, ReportAdded
<1>5. Types'
  BY <1>3, <1>4 DEF IInv, Types
<1>6. KnownFirst'
  BY <1>3, <1>4, QueuesKnown, KnownKept
<1>7. NewOnce'
  BY DEF IInv, NewOnce
<1>8. CountsUp'
  <2>1. RecordCounts'
    BY <1>3 DEF IInv, CountsUp, RecordCounts
  <2>2. CopyCounts' /\ CommandCounts' /\ MessagesFollow'
    BY DEF IInv, CountsUp, CopyCounts, CommandCounts, MessagesFollow
  <2>3. MessageCounts'
    <3>1. \A i \in DOMAIN responses : responses[i].o \in Orders
      BY QueuesKnown
    <3> QED
      BY <1>3, <3>1 DEF IInv, CountsUp, MessageCounts
  <2> QED
    BY <2>1, <2>2, <2>3 DEF CountsUp
<1> QED
  BY <1>5, <1>6, <1>7, <1>8 DEF IInv

LEMMA CancelRejectKeeps == ASSUME IInv, MinOrderCancelReject PROVE IInv'
<1> DEFINE o == raptor.o
           status == IF raptor.old = NoEntry THEN StatusOf(raptor.pod) ELSE raptor.old.status
           ord == [stored[o] EXCEPT !.status = status]
<1>1. raptor \in Rejecting /\ raptor # Idle
  BY DEF MinOrderCancelReject, IInv, Types, Idle, Reporting
<1>2. o \in Orders /\ raptor.pod \in Pods /\ raptor.old \in Recs /\ stored[o] \in Recs
  BY <1>1 DEF Rejecting, IInv, Types
<1>3. status \in Statuses /\ status # "none"
  <2>1. raptor.old # NoEntry => raptor.old.status # "none"
    BY <1>1 DEF IInv, KnownFirst
  <2>2. raptor.old.status \in Statuses
    BY <1>2 DEF Recs
  <2> QED
    BY <1>2, <2>1, <2>2, StatusKnown
<1> HIDE DEF status
<1>4. ord \in Recs /\ ord.status # "none" /\ ord.fill = stored[o].fill
  BY <1>2, <1>3 DEF Recs
<1>5. /\ stored' = [stored EXCEPT ![o] = ord] /\ raptor' = Idle
      /\ reports' = Append(reports, [o |-> o, ord |-> ord, rejected |-> TRUE])
      /\ UNCHANGED <<prev, zmq, cmds, ex, podNum, responses, told>>
  BY DEF MinOrderCancelReject, Report, Push, status
<1> HIDE DEF ord
<1> QED
  BY <1>1, <1>4, <1>5, RejectionKeeps

LEMMA CancelReplaceRejectKeeps == ASSUME IInv, MinOrderCancelReplaceReject PROVE IInv'
<1> DEFINE o == raptor.o
           old == raptor.old
           ord == [stored[o] EXCEPT !.leaves = old.leaves, !.status = old.status,
                                    !.state = old.state]
           report == [old EXCEPT !.fillType = "UNKNOWN", !.num = o]
<1>1. raptor \in Rejecting /\ raptor # Idle /\ raptor.pc = "replrej"
  BY DEF MinOrderCancelReplaceReject, IInv, Types, Idle, Reporting
<1>2. o \in Orders /\ old \in Recs /\ stored[o] \in Recs /\ old.status # "none"
  BY <1>1 DEF Rejecting, IInv, Types, KnownFirst
<1>3. ord \in Recs /\ ord.status # "none" /\ ord.fill = stored[o].fill
  BY <1>2 DEF Recs
<1>4. report \in Recs
  BY <1>2 DEF Recs, Names
<1>5. stored' = [stored EXCEPT ![o] = ord]
  <2>1. stored' = [stored EXCEPT ![o].leaves = old.leaves, ![o].status = old.status,
                                 ![o].state = old.state]
    BY DEF MinOrderCancelReplaceReject
  <2> QED
    BY <1>2, <2>1 DEF IInv, Types
<1>6. /\ raptor' = Idle
      /\ reports' = Append(reports, [o |-> o, ord |-> report, rejected |-> FALSE])
      /\ UNCHANGED <<prev, zmq, cmds, ex, podNum, responses, told>>
  BY DEF MinOrderCancelReplaceReject, Report, Push
<1> HIDE DEF ord, report
<1> QED
  BY <1>1, <1>3, <1>4, <1>5, <1>6, RejectionKeeps

LEMMA RunKeeps == ASSUME IInv, Run PROVE IInv'
<1> DEFINE r == Head(reports)
           o == r.o
           leaves == IF r.rejected THEN stored[o].leaves ELSE r.ord.leaves
           fills == told[o].fills + (IF r.ord.fillType = "OUTRIGHT_FILL" /\ ~r.rejected
                                     THEN r.ord.last ELSE 0)
           t == [state |-> r.ord.state, num |-> r.ord.num, leaves |-> leaves,
                 fills |-> fills]
<1>1. /\ reports # <<>> /\ reports' = Tail(reports)
      /\ told' = [told EXCEPT ![o] = t]
      /\ UNCHANGED <<stored, prev, zmq, cmds, ex, podNum, responses, raptor>>
  BY DEF Run
<1>2. /\ r \in Reports /\ r = reports[1] /\ 1 \in DOMAIN reports /\ reports' \in Seq(Reports)
      /\ \A i \in DOMAIN reports' :
            i \in Nat /\ i + 1 \in DOMAIN reports /\ reports'[i] = reports[i + 1]
  BY <1>1, TailShifts DEF IInv, Types
<1>3. o \in Orders /\ Known(o) /\ r.ord \in Recs /\ told[o].fills \in Nat /\ stored[o] \in Recs
  BY <1>2, QueuesKnown DEF Reports, IInv, Types
<1>4. leaves \in Int /\ fills \in Nat
  BY <1>3 DEF Recs
<1> HIDE DEF leaves, fills
<1>5. t \in [state : States, num : Names, leaves : Int, fills : Nat]
  BY <1>3, <1>4 DEF Recs
<1> HIDE DEF r, o, t
<1>6. told' \in [Orders -> [state : States, num : Names, leaves : Int, fills : Nat]]
  BY <1>1, <1>3, <1>5 DEF IInv, Types
<1>7. Types'
  BY <1>1, <1>2, <1>6 DEF IInv, Types
<1>8. \A x \in Orders : told'[x].state = "WORKING" => Known(x)
  <2>1. \A x \in Orders : x # o => told'[x] = told[x]
    BY <1>1, <1>3 DEF IInv, Types
  <2> QED
    BY <1>3, <2>1 DEF IInv, KnownFirst
<1>9. KnownFirst'
  <2>1. \A i \in DOMAIN reports' : reports'[i].o \in Orders /\ Known(reports'[i].o)
    BY <1>2, QueuesKnown
  <2> QED
    BY <1>1, <1>8, <2>1, QueuesKnown, KnownKept DEF Known
<1> QED
  BY <1>1, <1>7, <1>9, CountsKept DEF IInv

-----------------------------------------------------------------------------
(* The theorems.                                                           *)

LEMMA Initially == Init => IInv
<1> SUFFICES ASSUME Init PROVE IInv
  OBVIOUS
<1> DEFINE none == [st |-> "none", qty |-> 0, cum |-> 0]
<1>1. /\ loaded \subseteq Orders /\ ex \in [Orders -> Books \cup {none}]
      /\ \A o \in Orders : ex[o].st = "live" <=> o \in loaded
      /\ prev = [o \in Orders |-> NoEntry]
      /\ zmq = Idle /\ raptor = Idle /\ podNum = None
      /\ cmds = <<>> /\ responses = <<>> /\ reports = <<>>
  BY DEF Init
<1>2. Books \cup {none} \subseteq ExBooks
  BY OrderConstants DEF Books, ExBooks
<1>3. ex \in [Orders -> ExBooks] /\ \A o \in Orders : ex[o].cum \in Nat /\ ex[o].qty \in Int
  BY <1>1, <1>2 DEF ExBooks
<1>4. \A o \in Orders : o \notin loaded => ex[o] = none
  BY <1>1 DEF Books
<1>5. \A o \in Orders : o \in loaded =>
        /\ stored[o] = LoadedRecord(o, ex[o]) /\ LoadedRecord(o, ex[o]) \in Recs
        /\ stored[o].status # "none" /\ stored[o].fill = ex[o].cum
  BY <1>3 DEF Init, LoadedRecord, Recs, Statuses, States, Names
<1>6. \A o \in Orders : o \notin loaded =>
        stored[o] = NoPod /\ stored[o].status = "none" /\ stored[o].fill = 0
  BY DEF Init, NoPod
<1>7. stored \in [Orders -> Recs]
  <2>1. stored = [o \in Orders |-> stored[o]]
    BY DEF Init
  <2>2. \A o \in Orders : stored[o] \in Recs
    BY <1>5, <1>6, NoPodIsRecord
  <2> QED
    BY <2>1, <2>2
<1>8. told \in [Orders -> [state : States, num : Names, leaves : Int, fills : Nat]]
  <2>1. \A o \in Orders : Open(o) \in Int
    BY <1>3 DEF Open
  <2> QED
    BY <1>3, <2>1 DEF Init, States, Names
<1>9. \A o \in Orders : told[o].state = "WORKING" => o \in loaded
  BY DEF Init
<1>10. Types
  BY <1>1, <1>3, <1>7, <1>8, NoPodIsRecord DEF Types, Names
<1>11. KnownFirst
  BY <1>1, <1>4, <1>5, <1>6, <1>9 DEF KnownFirst, Known, Idle, Rejecting
<1>12. NewOnce /\ CountsUp
  <2>1. RecordCounts
    BY <1>3, <1>4, <1>5, <1>6 DEF RecordCounts
  <2> QED
    BY <1>1, <2>1
       DEF NewOnce, CountsUp, CopyCounts, CommandCounts, MessageCounts, MessagesFollow
<1> QED
  BY <1>10, <1>11, <1>12 DEF IInv

LEMMA StepKeeps == IInv /\ [Next]_vars => IInv'
<1> SUFFICES ASSUME IInv, [Next]_vars PROVE IInv'
  OBVIOUS
<1>1. CASE \E o \in Orders : Client(o)
  <2>1. PICK o \in Orders : Client(o)
    BY <1>1
  <2>2. ASSUME NEW q \in 1 .. MaxQty, HandleNewOrder(o, q) PROVE IInv'
    BY <2>2, HandleNewOrderKeeps
  <2>3. ASSUME NEW q \in 1 .. MaxQty, HandleModifyOrder(o, q) PROVE IInv'
    BY <2>3, BeginKeeps, OrderConstants DEF HandleModifyOrder
  <2>4. CASE HandleCancelOrder(o)
    BY <2>4, BeginKeeps DEF HandleCancelOrder
  <2> QED
    BY <2>1, <2>2, <2>3, <2>4 DEF Client
<1>2. CASE \E o \in Orders : Exchange(o)
  BY <1>2, ExchangeKeeps
<1>3. CASE ZmqThread
  BY <1>3, SnapshotKeeps, SendOrderKeeps DEF ZmqThread
<1>4. CASE Send \/ SendRefused
  BY <1>4, SendKeeps, SendRefusedKeeps
<1>5. CASE Raptor
  BY <1>5, DropKeeps, ApplyKeeps, ProcessOrderKeeps, ForgetKeeps, MinOrderRejectKeeps,
     TakeSnapshotKeeps, CancelRejectKeeps, CancelReplaceRejectKeeps DEF Raptor
<1>6. CASE Run
  BY <1>6, RunKeeps
<1>7. CASE UNCHANGED vars
  <2>1. UNCHANGED <<stored, prev, zmq, cmds, ex, podNum, responses, raptor, reports, told>>
    BY <1>7 DEF vars
  <2>2. NewOnce' /\ CountsUp'
    BY <2>1, CountsKept
  <2> QED
    BY <2>1, <2>2 DEF IInv, Types, KnownFirst, Known
<1> QED
  BY <1>1, <1>2, <1>3, <1>4, <1>5, <1>6, <1>7 DEF Next

LEMMA AlwaysIInv == Spec => []IInv
BY Initially, StepKeeps, PTL DEF Spec

\* The record of an order never counts more than the exchange traded, through any
\* number of requests, fills, retransmissions, status reports, rejections and races
\* of the two threads on the record (minOrderExecution, AddOrderFromStatusRequest,
\* SendOrder).
THEOREM SpecNeverOverstated == Spec => []NeverOverstated
<1>1. IInv => NeverOverstated
  BY DEF IInv, CountsUp, RecordCounts, NeverOverstated
<1> QED
  BY <1>1, AlwaysIInv, PTL

LEMMA StepNeverMoreThanAsked ==
    ASSUME IInv, [Next]_vars, NEW o \in Orders, ex[o].st = "live", ex'[o].qty # ex[o].qty
    PROVE  ex'[o].qty - ex'[o].cum <= Head(cmds).leaves
<1>1. ex \in [Orders -> ExBooks] /\ \A x \in Orders : ex[x].qty \in Int /\ ex[x].cum \in Nat
  BY DEF IInv, Types, ExBooks
<1>2. CASE \E x \in Orders : Client(x)
  BY <1>2 DEF Client, HandleNewOrder, HandleModifyOrder, HandleCancelOrder, Begin
<1>3. CASE \E x \in Orders : Exchange(x)
  <2>1. PICK x \in Orders : Exchange(x)
    BY <1>3
  <2>2. \E book \in ExBooks : ex' = [ex EXCEPT ![x] = book] /\ book.qty = ex[x].qty
    <3>1. ASSUME NEW n \in 1 .. MaxQty, Trade(x, n)
          PROVE  \E book \in ExBooks : ex' = [ex EXCEPT ![x] = book] /\ book.qty = ex[x].qty
      <4> DEFINE st == IF ex[x].cum + n = ex[x].qty THEN "dead" ELSE "live"
                 book == [ex[x] EXCEPT !.cum = @ + n, !.st = st]
      <4>1. ex' = [ex EXCEPT ![x] = book]
        BY <3>1 DEF Trade, Emit
      <4>2. n \in Nat /\ ex[x].cum + n \in Nat /\ st \in {"none", "live", "dead"}
        BY <1>1, OrderConstants
      <4> HIDE DEF st
      <4>3. book \in ExBooks /\ book.qty = ex[x].qty
        BY <1>1, <4>2 DEF ExBooks
      <4> QED
        BY <4>1, <4>3
    <3>2. CASE Eliminate(x)
      <4> DEFINE book == [ex[x] EXCEPT !.st = "dead"]
      <4>1. ex' = [ex EXCEPT ![x] = book]
        BY <3>2 DEF Eliminate, Emit
      <4>2. book \in ExBooks /\ book.qty = ex[x].qty
        BY <1>1 DEF ExBooks
      <4> QED
        BY <4>1, <4>2
    <3>3. CASE StatusReport(x)
      BY <1>1, <3>3 DEF StatusReport, Emit
    <3> QED
      BY <2>1, <3>1, <3>2, <3>3 DEF Exchange
  <2> QED
    BY <1>1, <2>2
<1>4. CASE Send
  <2> DEFINE cmd == Head(cmds)
  <2>1. /\ cmd.o \in Orders /\ cmd.leaves \in Int /\ cmd.fill \in Nat
        /\ cmd.fill <= ex[cmd.o].cum /\ (cmd.kind = "new" => ex[cmd.o].st = "none")
    BY <1>4, CommandTaken DEF Send, Commands
  <2>2. Accept(cmd) \/ Reject(cmd)
    BY <1>4 DEF Send
  <2> HIDE DEF cmd
  <2>3. CASE cmd.kind = "new" /\ AcceptNew(cmd)
    BY <1>1, <2>1, <2>3 DEF AcceptNew, Reply, Emit
  <2>4. CASE AcceptModify(cmd)
    <3> DEFINE more == [ex[cmd.o] EXCEPT !.qty = OrderQty(cmd)]
               dead == [ex[cmd.o] EXCEPT !.st = "dead"]
    <3>1. ex' = [ex EXCEPT ![cmd.o] = more] \/ ex' = [ex EXCEPT ![cmd.o] = dead]
      BY <2>4 DEF AcceptModify, Reply, Emit
    <3>2. more.qty = OrderQty(cmd) /\ more.cum = ex[cmd.o].cum /\ dead.qty = ex[cmd.o].qty
      BY <1>1, <2>1 DEF ExBooks
    <3> HIDE DEF more, dead
    <3>3. o = cmd.o /\ ex'[o].qty = OrderQty(cmd) /\ ex'[o].cum = ex[o].cum
      BY <1>1, <2>1, <3>1, <3>2
    <3> QED
      BY <1>1, <2>1, <3>3 DEF OrderQty, cmd
  <2>5. CASE Reject(cmd) \/ Reply(cmd, "cxl", [ex[cmd.o] EXCEPT !.st = "dead"])
    BY <1>1, <2>1, <2>5 DEF Reject, Reply, Emit, ExBooks
  <2> QED
    BY <2>2, <2>3, <2>4, <2>5 DEF Accept
<1>5. CASE UNCHANGED ex
  BY <1>5
<1>6. CASE ZmqThread \/ SendRefused \/ Raptor \/ Run \/ UNCHANGED vars
  BY <1>5, <1>6 DEF ZmqThread, Snapshot, SendOrder, SendRefused, Raptor, Drop, Apply,
     ProcessOrder, Forget, MinOrderReject, TakeSnapshot, MinOrderCancelReject,
     MinOrderCancelReplaceReject, Run, vars
<1> QED
  BY <1>2, <1>3, <1>4, <1>6 DEF Next

\* A modification never leaves more of an order in the market than the request
\* asked for, whatever fills it crossed: the quantity sent is what was asked for
\* and what the record counts as filled, and the record never overstates that
\* (ModifyOrderEncodeMan).
THEOREM SpecNeverMoreThanAsked == Spec => NeverMoreThanAsked
<1>1. IInv /\ [Next]_vars =>
        [\A o \in Orders : ex[o].st = "live" /\ ex'[o].qty # ex[o].qty =>
            ex'[o].qty - ex'[o].cum <= Head(cmds).leaves]_vars
  BY StepNeverMoreThanAsked
<1> QED
  BY <1>1, AlwaysIInv, PTL DEF Spec, NeverMoreThanAsked

-----------------------------------------------------------------------------
(* Each fill is told once: what is under way adds up.                      *)

\* Lots n[i] that bring a count from a, over the counts c[i], to b.
AddsUp(I, n, c, a, b) ==
    /\ I = {} => a = b
    /\ \A i \in I : (\A j \in I : i <= j) => a + n[i] = c[i]
    /\ \A i \in I : (\A j \in I : j <= i) => c[i] = b
    /\ \A i, j \in I : i < j /\ (\A k \in I : k <= i \/ j <= k) => c[i] + n[j] = c[j]

\* No fill of the order came with a retransmission, and no record was overwritten.
Sound(o) == spoiled[o] \cap {"race", "retransmit"} = {}

Messages(o) == {i \in DOMAIN responses : responses[i].o = o}
MessageLots == [i \in DOMAIN responses |-> responses[i].last]
MessageCums == [i \in DOMAIN responses |-> responses[i].cum]

IsFill(r) == r.ord.fillType = "OUTRIGHT_FILL" /\ ~r.rejected

FillReports(o) == {i \in DOMAIN reports : reports[i].o = o /\ IsFill(reports[i])}
ReportLots == [i \in DOMAIN reports |-> reports[i].ord.last]
ReportCums == [i \in DOMAIN reports |-> reports[i].ord.fill]

\* What the record counts, and its report is still to be made of.
Unreported(o) ==
    IF raptor.pc = "report" /\ raptor.o = o /\ stored[o].fillType = "OUTRIGHT_FILL"
    THEN stored[o].last ELSE 0

\* The messages under way bring the record to what was traded,
MessagesAddUp(o) ==
    AddsUp(Messages(o), MessageLots, MessageCums, stored[o].fill, ex[o].cum)

\* and the reports under way bring the client to what the record counts.
ReportsAddUp(o) ==
    AddsUp(FillReports(o), ReportLots, ReportCums, told[o].fills, stored[o].fill - Unreported(o))

FillsAddUp == \A o \in Orders : Sound(o) => MessagesAddUp(o) /\ ReportsAddUp(o)

\* The copy of the ZMQ thread is as the record is.
CopyIsExact == zmq # Idle /\ Sound(zmq.o) => zmq.ord.fill = stored[zmq.o].fill

\* Only a trade has a last quantity, and a status report tells of one state only.
OnlyFillsTrade ==
    \A i \in DOMAIN responses :
        /\ responses[i].kind # "fill" => responses[i].last = 0
        /\ responses[i].again = "status" => responses[i].kind \in {"ack", "status"}
        /\ responses[i].kind = "status" => responses[i].again = "status"

SpoiledType == spoiled \in [Orders -> SUBSET Mishaps]

FillsInv == SpoiledType /\ FillsAddUp /\ CopyIsExact /\ OnlyFillsTrade

-----------------------------------------------------------------------------
(* Lots that add up.                                                       *)

\* What is counted of other lots does not matter.
LEMMA SameLots ==
    ASSUME NEW I, NEW n, NEW c, NEW m, NEW d, NEW a, NEW b, AddsUp(I, n, c, a, b),
           \A i \in I : m[i] = n[i] /\ d[i] = c[i]
    PROVE  AddsUp(I, m, d, a, b)
BY DEF AddsUp

\* The lots n with the counts c at the places I, and one behind them, are m and d.
OneMore(I, i, n, c, m, d) ==
    /\ I \in SUBSET Nat /\ i \in Nat /\ \A j \in I : j < i
    /\ \A j \in I : m[j] = n[j] /\ d[j] = c[j]

\* One lot more is counted last.
LEMMA LotAdded ==
    ASSUME NEW I, NEW i, NEW n, NEW c, NEW m, NEW d, OneMore(I, i, n, c, m, d),
           NEW a, NEW b, AddsUp(I, n, c, a, b), b + m[i] = d[i]
    PROVE  AddsUp(I \cup {i}, m, d, a, d[i])
<1>0. /\ I \in SUBSET Nat /\ i \in Nat /\ \A j \in I : j < i
      /\ \A j \in I : m[j] = n[j] /\ d[j] = c[j]
  BY DEF OneMore
<1> USE <1>0
<1> DEFINE e == d[i]
<1>1. ASSUME NEW j \in I \cup {i}, \A k \in I \cup {i} : j <= k PROVE a + m[j] = d[j]
  <2>1. CASE j \in I
    BY <1>1, <2>1 DEF AddsUp
  <2>2. CASE j = i
    <3>1. \A k \in I : i <= k /\ k < i
      BY <1>1, <2>2
    <3>2. I = {}
      BY <3>1
    <3>3. a = b
      BY <3>2 DEF AddsUp
    <3> QED
      BY <2>2, <3>3
  <2> QED
    BY <2>1, <2>2
<1>2. ASSUME NEW j \in I \cup {i}, \A k \in I \cup {i} : k <= j PROVE d[j] = e
  <2>1. ~(j \in I)
    BY <1>2
  <2> QED
    BY <2>1
<1>3. ASSUME NEW j \in I \cup {i}, NEW k \in I \cup {i}, j < k,
             \A l \in I \cup {i} : l <= j \/ k <= l
      PROVE  d[j] + m[k] = d[k]
  <2>1. j \in I
    BY <1>3
  <2>2. CASE k \in I
    BY <1>3, <2>1, <2>2 DEF AddsUp
  <2>3. CASE k = i
    <3>1. \A l \in I : l <= j
      <4> SUFFICES ASSUME NEW l \in I PROVE l <= j
        OBVIOUS
      <4>1. l <= j \/ i <= l
        BY <1>3, <2>3
      <4> QED
        BY <4>1
    <3>2. c[j] = b
      BY <2>1, <3>1 DEF AddsUp
    <3> QED
      BY <2>1, <2>3, <3>2
  <2> QED
    BY <2>2, <2>3
<1>4. I \cup {i} # {}
  OBVIOUS
<1> QED
  BY <1>1, <1>2, <1>3, <1>4 DEF AddsUp

\* What is first is taken: the lots m and d at J are those of n and c behind it.
OneLess(I, J, n, c, m, d) ==
    /\ I \in SUBSET (Nat \ {0}) /\ J = {j \in Nat \ {0} : j + 1 \in I}
    /\ \A j \in J : m[j] = n[j + 1] /\ d[j] = c[j + 1]

\* When something else is first, the lots move up.
LEMMA LotsMoved ==
    ASSUME NEW I, NEW J, NEW n, NEW c, NEW m, NEW d, OneLess(I, J, n, c, m, d), 1 \notin I,
           NEW a, NEW b, AddsUp(I, n, c, a, b)
    PROVE  AddsUp(J, m, d, a, b)
<1>u. /\ I \in SUBSET (Nat \ {0}) /\ J = {j \in Nat \ {0} : j + 1 \in I}
      /\ \A j \in J : m[j] = n[j + 1] /\ d[j] = c[j + 1]
  BY DEF OneLess
<1> USE <1>u
<1>0. \A i \in I : i \in Nat /\ i - 1 \in J /\ (i - 1) + 1 = i
  BY SMT
<1>1. J = {} => a = b
  BY <1>0 DEF AddsUp
<1>2. ASSUME NEW j \in J, \A k \in J : j <= k PROVE a + m[j] = d[j]
  <2>1. \A i \in I : j + 1 <= i
    <3> SUFFICES ASSUME NEW i \in I PROVE j + 1 <= i
      OBVIOUS
    <3>1. i - 1 \in J /\ j <= i - 1
      BY <1>0, <1>2
    <3> QED
      BY <1>0, <3>1
  <2> QED
    BY <2>1 DEF AddsUp
<1>3. ASSUME NEW j \in J, \A k \in J : k <= j PROVE d[j] = b
  <2>1. \A i \in I : i <= j + 1
    BY <1>0, <1>3
  <2> QED
    BY <2>1 DEF AddsUp
<1>4. ASSUME NEW j \in J, NEW k \in J, j < k, \A l \in J : l <= j \/ k <= l
      PROVE  d[j] + m[k] = d[k]
  <2>1. \A i \in I : i <= j + 1 \/ k + 1 <= i
    <3> SUFFICES ASSUME NEW i \in I PROVE i <= j + 1 \/ k + 1 <= i
      OBVIOUS
    <3>1. i - 1 <= j \/ k <= i - 1
      BY <1>0, <1>4
    <3> QED
      BY <1>0, <3>1
  <2>2. j + 1 < k + 1 /\ j + 1 \in I /\ k + 1 \in I
    BY <1>4
  <2>3. c[j + 1] + n[k + 1] = c[k + 1]
    BY <2>1, <2>2 DEF AddsUp
  <2> QED
    BY <2>3
<1> QED
  BY <1>1, <1>2, <1>3, <1>4 DEF AddsUp

\* The first lot is what the next ones are counted from.
LEMMA LotTaken ==
    ASSUME NEW I, NEW J, NEW n, NEW c, NEW m, NEW d, OneLess(I, J, n, c, m, d), 1 \in I,
           NEW a, NEW b, AddsUp(I, n, c, a, b)
    PROVE  AddsUp(J, m, d, c[1], b) /\ a + n[1] = c[1]
<1>u. /\ I \in SUBSET (Nat \ {0}) /\ J = {j \in Nat \ {0} : j + 1 \in I}
      /\ \A j \in J : m[j] = n[j + 1] /\ d[j] = c[j + 1]
  BY DEF OneLess
<1> USE <1>u
<1>0. \A i \in I : i \in Nat /\ i >= 1 /\ (i # 1 => i - 1 \in J /\ (i - 1) + 1 = i)
  BY SMT
<1>f. a + n[1] = c[1]
  <2>1. \A i \in I : 1 <= i
    BY <1>0
  <2> QED
    BY <2>1 DEF AddsUp
<1>1. ASSUME J = {} PROVE c[1] = b
  <2>1. \A i \in I : i <= 1
    BY <1>0, <1>1
  <2> QED
    BY <2>1 DEF AddsUp
<1>2. ASSUME NEW j \in J, \A k \in J : j <= k PROVE c[1] + m[j] = d[j]
  <2>1. \A i \in I : i <= 1 \/ j + 1 <= i
    <3> SUFFICES ASSUME NEW i \in I, i # 1 PROVE j + 1 <= i
      BY <1>0
    <3>1. i - 1 \in J /\ j <= i - 1
      BY <1>0, <1>2
    <3> QED
      BY <1>0, <3>1
  <2>2. 1 < j + 1 /\ j + 1 \in I
    OBVIOUS
  <2>3. c[1] + n[j + 1] = c[j + 1]
    BY <2>1, <2>2 DEF AddsUp
  <2> QED
    BY <2>3
<1>3. ASSUME NEW j \in J, \A k \in J : k <= j PROVE d[j] = b
  <2>1. \A i \in I : i <= j + 1
    BY <1>0, <1>3
  <2> QED
    BY <2>1 DEF AddsUp
<1>4. ASSUME NEW j \in J, NEW k \in J, j < k, \A l \in J : l <= j \/ k <= l
      PROVE  d[j] + m[k] = d[k]
  <2>1. \A i \in I : i <= j + 1 \/ k + 1 <= i
    <3> SUFFICES ASSUME NEW i \in I, i # 1 PROVE i <= j + 1 \/ k + 1 <= i
      BY <1>0
    <3>1. i - 1 <= j \/ k <= i - 1
      BY <1>0, <1>4
    <3> QED
      BY <1>0, <3>1
  <2>2. j + 1 < k + 1 /\ j + 1 \in I /\ k + 1 \in I
    BY <1>4
  <2>3. c[j + 1] + n[k + 1] = c[k + 1]
    BY <2>1, <2>2 DEF AddsUp
  <2> QED
    BY <2>3
<1> QED
  BY <1>f, <1>1, <1>2, <1>3, <1>4 DEF AddsUp

\* The places of messages and reports are numbers.
LEMMA Places ==
    ASSUME NEW o, Types
    PROVE  /\ Messages(o) \in SUBSET (Nat \ {0}) /\ FillReports(o) \in SUBSET (Nat \ {0})
           /\ DOMAIN responses = 1 .. Len(responses) /\ Len(responses) \in Nat
           /\ DOMAIN reports = 1 .. Len(reports) /\ Len(reports) \in Nat
<1>1. responses \in Seq(Pods) /\ reports \in Seq(Reports)
  BY DEF Types
<1>2. /\ DOMAIN responses = 1 .. Len(responses) /\ Len(responses) \in Nat
      /\ DOMAIN reports = 1 .. Len(reports) /\ Len(reports) \in Nat
  BY <1>1, LenProperties
<1> QED
  BY <1>2 DEF Messages, FillReports

\* A step that neither sends nor takes a message leaves what they add up to.
LEMMA MessagesStay ==
    ASSUME NEW o, MessagesAddUp(o), UNCHANGED responses, stored'[o].fill = stored[o].fill,
           ex'[o].cum = ex[o].cum
    PROVE  MessagesAddUp(o)'
BY DEF MessagesAddUp, Messages, MessageLots, MessageCums

\* A message adds what was traded with it.
LEMMA MessageSent ==
    ASSUME NEW o, Types, MessagesAddUp(o), NEW pod \in Pods, responses' = Append(responses, pod),
           stored'[o].fill = stored[o].fill,
           IF pod.o = o THEN ex'[o].cum = pod.cum /\ ex[o].cum + pod.last = pod.cum
                        ELSE ex'[o].cum = ex[o].cum
    PROVE  MessagesAddUp(o)'
<1> DEFINE i == Len(responses) + 1
<1>1. responses \in Seq(Pods)
  BY DEF Types
<1>2. /\ Len(responses) \in Nat /\ DOMAIN responses = 1 .. Len(responses)
      /\ Len(responses') = Len(responses) + 1 /\ DOMAIN responses' = 1 .. Len(responses) + 1
      /\ responses'[i] = pod
      /\ \A j \in DOMAIN responses : responses'[j] = responses[j]
  BY <1>1, AppendProperties, LenProperties
<1>3. \A j \in DOMAIN responses :
        MessageLots'[j] = MessageLots[j] /\ MessageCums'[j] = MessageCums[j]
  BY <1>2 DEF MessageLots, MessageCums
<1>4. Messages(o) \subseteq DOMAIN responses
  BY DEF Messages
<1>5. CASE pod.o # o
  <2>1. Messages(o)' = Messages(o)
    BY <1>2, <1>5 DEF Messages
  <2>2. AddsUp(Messages(o), MessageLots', MessageCums', stored[o].fill, ex[o].cum)
    BY <1>3, <1>4, SameLots DEF MessagesAddUp
  <2> QED
    BY <1>5, <2>1, <2>2 DEF MessagesAddUp
<1>6. CASE pod.o = o
  <2>1. Messages(o)' = Messages(o) \cup {i}
    BY <1>2, <1>6 DEF Messages
  <2>2. MessageLots'[i] = pod.last /\ MessageCums'[i] = pod.cum
    BY <1>2 DEF MessageLots, MessageCums
  <2>3. i \in Nat /\ Messages(o) \in SUBSET Nat /\ \A j \in Messages(o) : j < i
    BY <1>2, <1>4
  <2>4. ex[o].cum + MessageLots'[i] = MessageCums'[i]
    BY <1>6, <2>2
  <2> HIDE DEF i
  <2>5. AddsUp(Messages(o) \cup {i}, MessageLots', MessageCums', stored[o].fill, MessageCums'[i])
    <3>1. AddsUp(Messages(o), MessageLots, MessageCums, stored[o].fill, ex[o].cum)
      BY DEF MessagesAddUp
    <3>2. OneMore(Messages(o), i, MessageLots, MessageCums, MessageLots', MessageCums')
      BY <1>3, <1>4, <2>3 DEF OneMore
    <3> QED
      BY <2>4, <3>1, <3>2, LotAdded
  <2> QED
    BY <1>6, <2>1, <2>2, <2>5 DEF MessagesAddUp
<1> QED
  BY <1>5, <1>6

\* A message taken brings the record to what it was sent with.
LEMMA MessageLot ==
    ASSUME Types, responses # <<>>, responses' = Tail(responses), NEW o, MessagesAddUp(o)
    PROVE  /\ Head(responses) \in Pods /\ Head(responses) = responses[1] /\ 1 \in DOMAIN responses
           /\ Head(responses).o = o => stored[o].fill + Head(responses).last = Head(responses).cum
           /\ AddsUp(Messages(o)', MessageLots', MessageCums',
                     IF Head(responses).o = o THEN Head(responses).cum ELSE stored[o].fill,
                     ex[o].cum)
<1>1. responses \in Seq(Pods)
  BY DEF Types
<1>2. /\ Head(responses) \in Pods /\ Head(responses) = responses[1] /\ 1 \in DOMAIN responses
      /\ \A i \in DOMAIN responses' :
           i \in Nat /\ i + 1 \in DOMAIN responses /\ responses'[i] = responses[i + 1]
  BY <1>1, TailShifts
<1>3. /\ DOMAIN responses = 1 .. Len(responses) /\ Len(responses) \in Nat \ {0}
      /\ DOMAIN responses' = 1 .. Len(responses) - 1
  BY <1>1, LenProperties, HeadTailProperties, EmptySeq
<1> DEFINE J == {j \in Nat \ {0} : j + 1 \in Messages(o)}
<1>4. Messages(o)' = J
  BY <1>2, <1>3 DEF Messages
<1>5. \A j \in J : MessageLots'[j] = MessageLots[j + 1] /\ MessageCums'[j] = MessageCums[j + 1]
  BY <1>2, <1>4 DEF MessageLots, MessageCums, Messages
<1>6. Messages(o) \in SUBSET (Nat \ {0})
  BY Places
<1>7. MessageLots[1] = Head(responses).last /\ MessageCums[1] = Head(responses).cum
  BY <1>2 DEF MessageLots, MessageCums
<1>8. 1 \in Messages(o) <=> Head(responses).o = o
  BY <1>2 DEF Messages
<1> HIDE DEF J
<1>9. OneLess(Messages(o), J, MessageLots, MessageCums, MessageLots', MessageCums')
  BY <1>5, <1>6 DEF J, OneLess
<1>10. CASE Head(responses).o = o
  <2>1. /\ AddsUp(J, MessageLots', MessageCums', MessageCums[1], ex[o].cum)
        /\ stored[o].fill + MessageLots[1] = MessageCums[1]
    <3>1. AddsUp(Messages(o), MessageLots, MessageCums, stored[o].fill, ex[o].cum)
      BY DEF MessagesAddUp
    <3>2. 1 \in Messages(o)
      BY <1>8, <1>10
    <3> QED
      BY <1>9, <3>1, <3>2, LotTaken
  <2> QED
    BY <1>2, <1>4, <1>7, <1>10, <2>1
<1>11. CASE Head(responses).o # o
  <2>1. AddsUp(J, MessageLots', MessageCums', stored[o].fill, ex[o].cum)
    BY <1>8, <1>9, <1>11, LotsMoved DEF MessagesAddUp
  <2> QED
    BY <1>2, <1>4, <1>11, <2>1
<1> QED
  BY <1>10, <1>11

\* A step that neither makes nor gives a report leaves what they add up to.
LEMMA ReportsStay ==
    ASSUME NEW o, ReportsAddUp(o), UNCHANGED <<reports, told>>,
           stored'[o].fill - Unreported(o)' = stored[o].fill - Unreported(o)
    PROVE  ReportsAddUp(o)'
BY DEF ReportsAddUp, FillReports, ReportLots, ReportCums

\* A report of a fill adds what is not reported yet.
LEMMA ReportMade ==
    ASSUME NEW o, Types, ReportsAddUp(o), UNCHANGED told,
           NEW r \in Reports, reports' = Append(reports, r),
           IF r.o = o /\ IsFill(r)
           THEN /\ stored[o].fill - Unreported(o) + r.ord.last = r.ord.fill
                /\ stored'[o].fill - Unreported(o)' = r.ord.fill
           ELSE stored'[o].fill - Unreported(o)' = stored[o].fill - Unreported(o)
    PROVE  ReportsAddUp(o)'
<1> DEFINE i == Len(reports) + 1
<1>1. reports \in Seq(Reports)
  BY DEF Types
<1>2. /\ Len(reports) \in Nat /\ DOMAIN reports = 1 .. Len(reports)
      /\ Len(reports') = Len(reports) + 1 /\ DOMAIN reports' = 1 .. Len(reports) + 1
      /\ reports'[i] = r
      /\ \A j \in DOMAIN reports : reports'[j] = reports[j]
  BY <1>1, AppendProperties, LenProperties
<1>3. \A j \in DOMAIN reports :
        ReportLots'[j] = ReportLots[j] /\ ReportCums'[j] = ReportCums[j]
  BY <1>2 DEF ReportLots, ReportCums
<1>4. FillReports(o) \subseteq DOMAIN reports
  BY DEF FillReports
<1>5. CASE ~(r.o = o /\ IsFill(r))
  <2>1. FillReports(o)' = FillReports(o)
    BY <1>2, <1>5 DEF FillReports
  <2>2. AddsUp(FillReports(o), ReportLots', ReportCums', told[o].fills,
               stored[o].fill - Unreported(o))
    BY <1>3, <1>4, SameLots DEF ReportsAddUp
  <2> QED
    BY <1>5, <2>1, <2>2 DEF ReportsAddUp
<1>6. CASE r.o = o /\ IsFill(r)
  <2>1. FillReports(o)' = FillReports(o) \cup {i}
    BY <1>2, <1>6 DEF FillReports
  <2>2. ReportLots'[i] = r.ord.last /\ ReportCums'[i] = r.ord.fill
    BY <1>2 DEF ReportLots, ReportCums
  <2>3. i \in Nat /\ FillReports(o) \in SUBSET Nat /\ \A j \in FillReports(o) : j < i
    BY <1>2, <1>4
  <2>4. stored[o].fill - Unreported(o) + ReportLots'[i] = ReportCums'[i]
    BY <1>6, <2>2
  <2> HIDE DEF i
  <2>5. AddsUp(FillReports(o) \cup {i}, ReportLots', ReportCums', told[o].fills, ReportCums'[i])
    <3>1. AddsUp(FillReports(o), ReportLots, ReportCums, told[o].fills, stored[o].fill - Unreported(o))
      BY DEF ReportsAddUp
    <3>2. OneMore(FillReports(o), i, ReportLots, ReportCums, ReportLots', ReportCums')
      BY <1>3, <1>4, <2>3 DEF OneMore
    <3> QED
      BY <2>4, <3>1, <3>2, LotAdded
  <2> QED
    BY <1>6, <2>1, <2>2, <2>5 DEF ReportsAddUp
<1> QED
  BY <1>5, <1>6

\* A report given tells the client of its fill.
LEMMA ReportGiven ==
    ASSUME NEW o, Types, ReportsAddUp(o), reports # <<>>, reports' = Tail(reports),
           told'[o].fills = told[o].fills + (IF Head(reports).o = o /\ IsFill(Head(reports))
                                             THEN Head(reports).ord.last ELSE 0),
           told[o].fills \in Nat, UNCHANGED <<stored, raptor>>
    PROVE  ReportsAddUp(o)'
<1>1. reports \in Seq(Reports)
  BY DEF Types
<1>2. /\ Head(reports) \in Reports /\ Head(reports) = reports[1] /\ 1 \in DOMAIN reports
      /\ \A i \in DOMAIN reports' :
           i \in Nat /\ i + 1 \in DOMAIN reports /\ reports'[i] = reports[i + 1]
  BY <1>1, TailShifts
<1>3. /\ DOMAIN reports = 1 .. Len(reports) /\ Len(reports) \in Nat \ {0}
      /\ DOMAIN reports' = 1 .. Len(reports) - 1
  BY <1>1, LenProperties, HeadTailProperties, EmptySeq
<1> DEFINE J == {j \in Nat \ {0} : j + 1 \in FillReports(o)}
<1>4. FillReports(o)' = J
  BY <1>2, <1>3 DEF FillReports
<1>5. \A j \in J : ReportLots'[j] = ReportLots[j + 1] /\ ReportCums'[j] = ReportCums[j + 1]
  BY <1>2, <1>4 DEF ReportLots, ReportCums, FillReports
<1>6. FillReports(o) \in SUBSET (Nat \ {0})
  BY Places
<1>7. ReportLots[1] = Head(reports).ord.last
  BY <1>2 DEF ReportLots
<1>8. 1 \in FillReports(o) <=> Head(reports).o = o /\ IsFill(Head(reports))
  BY <1>2 DEF FillReports
<1> DEFINE b == stored[o].fill - Unreported(o)
<1>b. b = stored'[o].fill - Unreported(o)'
  BY DEF Unreported
<1> HIDE DEF J
<1>9. OneLess(FillReports(o), J, ReportLots, ReportCums, ReportLots', ReportCums')
  BY <1>5, <1>6 DEF J, OneLess
<1>10. CASE 1 \in FillReports(o)
  <2>1. /\ AddsUp(J, ReportLots', ReportCums', ReportCums[1], b)
        /\ told[o].fills + ReportLots[1] = ReportCums[1]
    <3>1. AddsUp(FillReports(o), ReportLots, ReportCums, told[o].fills, b)
      BY DEF ReportsAddUp
    <3> HIDE DEF b
    <3> QED
      BY <1>9, <1>10, <3>1, LotTaken
  <2>2. told'[o].fills = ReportCums[1]
    BY <1>7, <1>8, <1>10, <2>1
  <2> QED
    BY <1>4, <1>b, <2>1, <2>2 DEF ReportsAddUp
<1>11. CASE 1 \notin FillReports(o)
  <2>1. AddsUp(J, ReportLots', ReportCums', told[o].fills, b)
    BY <1>9, <1>11, LotsMoved DEF ReportsAddUp
  <2>2. told'[o].fills = told[o].fills
    BY <1>8, <1>11
  <2> QED
    BY <1>4, <1>b, <2>1, <2>2 DEF ReportsAddUp
<1> QED
  BY <1>10, <1>11

-----------------------------------------------------------------------------
(* The steps that take and give no message.                                *)

\* What an order met is not forgotten.
Spoils == SpoiledType' /\ \A o \in Orders : spoiled[o] \subseteq spoiled'[o]

LEMMA SpoilSpoils ==
    ASSUME SpoiledType, NEW o \in Orders, NEW what \in SUBSET Mishaps, Spoil(o, what)
    PROVE  Spoils /\ spoiled'[o] = spoiled[o] \cup what
BY DEF SpoiledType, Spoil, Spoils

LEMMA SoundBefore ==
    ASSUME Spoils \/ UNCHANGED spoiled, NEW o \in Orders, Sound(o)'
    PROVE  Sound(o)
<1>1. spoiled[o] \subseteq spoiled'[o]
  BY DEF Spoils
<1> QED
  BY <1>1 DEF Sound

LEMMA FillsStay ==
    ASSUME FillsInv, Spoils \/ UNCHANGED spoiled,
           UNCHANGED <<responses, reports, told>>,
           \A o \in Orders : Sound(o)' =>
                /\ stored'[o].fill = stored[o].fill /\ Unreported(o)' = Unreported(o)
                /\ ex'[o].cum = ex[o].cum,
           CopyIsExact'
    PROVE  FillsInv'
<1>1. SpoiledType'
  BY DEF FillsInv, Spoils, SpoiledType
<1>2. FillsAddUp'
  <2> SUFFICES ASSUME NEW o \in Orders, Sound(o)' PROVE MessagesAddUp(o)' /\ ReportsAddUp(o)'
    BY DEF FillsAddUp
  <2>1. MessagesAddUp(o) /\ ReportsAddUp(o)
    BY SoundBefore DEF FillsInv, FillsAddUp
  <2> QED
    BY <2>1, MessagesStay, ReportsStay
<1>3. OnlyFillsTrade'
  BY DEF FillsInv, OnlyFillsTrade
<1> QED
  BY <1>1, <1>2, <1>3 DEF FillsInv

\* The copy stays exact where neither it nor the record changes.
LEMMA CopyStays ==
    ASSUME FillsInv, IInv, Spoils \/ UNCHANGED spoiled, UNCHANGED zmq,
           zmq # Idle /\ Sound(zmq.o)' => stored'[zmq.o].fill = stored[zmq.o].fill
    PROVE  CopyIsExact'
<1> SUFFICES ASSUME zmq # Idle, Sound(zmq.o)' PROVE zmq.ord.fill = stored'[zmq.o].fill
  BY DEF CopyIsExact, Sound
<1>1. zmq.o \in Orders
  BY DEF IInv, Types, Requesting
<1>2. Sound(zmq.o)
  <2>1. spoiled[zmq.o] \subseteq spoiled'[zmq.o]
    BY <1>1 DEF Spoils
  <2> QED
    BY <2>1 DEF Sound
<1> QED
  BY <1>2 DEF FillsInv, CopyIsExact

LEMMA HandleNewOrderFills ==
    ASSUME IInv, FillsInv, NEW o \in Orders, NEW q \in 1 .. MaxQty, HandleNewOrder(o, q)
    PROVE  FillsInv'
<1>1. /\ zmq = Idle /\ ~Known(o)
      /\ UNCHANGED <<zmq, ex, responses, raptor, reports, told, spoiled>>
  BY DEF HandleNewOrder, Known
<1>2. stored'[o].fill = 0 /\ \A x \in Orders : x # o => stored'[x] = stored[x]
  BY DEF HandleNewOrder, IInv, Types, NoPod
<1>3. stored[o].fill = 0
  <2>1. ex[o].cum = 0
    BY <1>1 DEF IInv, KnownFirst
  <2>2. stored[o].fill <= ex[o].cum /\ stored[o].fill \in Nat
    BY DEF IInv, CountsUp, RecordCounts, Types, Recs
  <2> QED
    BY <2>1, <2>2
<1>4. raptor.o # o \/ raptor.pc # "report"
  BY <1>1 DEF IInv, KnownFirst, Idle
<1>5. \A x \in Orders : Unreported(x)' = Unreported(x)
  BY <1>1, <1>2, <1>4 DEF Unreported
<1>6. CopyIsExact'
  BY <1>1 DEF CopyIsExact
<1> QED
  BY <1>1, <1>2, <1>3, <1>5, <1>6, FillsStay

LEMMA BeginFills ==
    ASSUME IInv, FillsInv, NEW o \in Orders, NEW kind, NEW q, Begin(o, kind, q)
    PROVE  FillsInv'
<1>1. /\ zmq' = [pc |-> "snapshot", o |-> o, kind |-> kind, asked |-> q, ord |-> stored[o]]
      /\ UNCHANGED <<stored, ex, responses, raptor, reports, told>>
  BY DEF Begin
<1>2. Spoils
  <2>1. Spoil(o, IF Outstanding(o) THEN {"pipeline"} ELSE {})
    BY DEF Begin
  <2>2. (IF Outstanding(o) THEN {"pipeline"} ELSE {}) \in SUBSET Mishaps
    BY DEF Mishaps
  <2> QED
    BY <2>1, <2>2, SpoilSpoils DEF FillsInv
<1>3. CopyIsExact'
  BY <1>1 DEF CopyIsExact
<1>4. \A x \in Orders : Unreported(x)' = Unreported(x)
  BY <1>1 DEF Unreported
<1> QED
  BY <1>1, <1>2, <1>3, <1>4, FillsStay

LEMMA SnapshotFills == ASSUME IInv, FillsInv, Snapshot PROVE FillsInv'
<1>1. /\ zmq' = [zmq EXCEPT !.pc = "send"] /\ zmq \in Requesting /\ zmq # Idle
      /\ UNCHANGED <<stored, ex, responses, raptor, reports, told>>
  BY DEF Snapshot, IInv, Types, Idle
<1>2. zmq'.o = zmq.o /\ zmq'.ord = zmq.ord /\ zmq.o \in Orders
  BY <1>1 DEF Requesting
<1>3. Spoils
  <2>1. Spoil(zmq.o, IF InFlight(zmq.o) THEN {"race"} ELSE {})
    BY DEF Snapshot
  <2>2. (IF InFlight(zmq.o) THEN {"race"} ELSE {}) \in SUBSET Mishaps
    BY DEF Mishaps
  <2> QED
    BY <1>2, <2>1, <2>2, SpoilSpoils DEF FillsInv
<1>4. CopyIsExact'
  <2> SUFFICES ASSUME spoiled'[zmq.o] \cap {"race", "retransmit"} = {}
               PROVE  zmq.ord.fill = stored[zmq.o].fill
    BY <1>1, <1>2 DEF CopyIsExact, Sound
  <2>1. spoiled[zmq.o] \subseteq spoiled'[zmq.o]
    BY <1>2, <1>3 DEF Spoils
  <2>2. Sound(zmq.o)
    BY <2>1 DEF Sound
  <2> QED
    BY <1>1, <2>2 DEF FillsInv, CopyIsExact
<1>5. \A x \in Orders : Unreported(x)' = Unreported(x)
  BY <1>1 DEF Unreported
<1> QED
  BY <1>1, <1>3, <1>4, <1>5, FillsStay

LEMMA SendOrderFills == ASSUME IInv, FillsInv, SendOrder PROVE FillsInv'
<1> DEFINE o == zmq.o
<1>1. /\ zmq \in Requesting /\ zmq # Idle /\ zmq' = Idle
      /\ stored' = [stored EXCEPT ![o] = Request]
      /\ UNCHANGED <<ex, responses, raptor, reports, told>>
  BY DEF SendOrder, IInv, Types, Idle
<1>2. o \in Orders /\ zmq.ord \in Recs
  BY <1>1 DEF Requesting
<1>3. Request.fill = zmq.ord.fill
  BY <1>2 DEF Request, Recs
<1>4. stored'[o].fill = zmq.ord.fill /\ \A x \in Orders : x # o => stored'[x] = stored[x]
  BY <1>1, <1>2, <1>3 DEF IInv, Types
<1>5. Spoil(o, IF InFlight(o) THEN {"race"} ELSE {})
  BY DEF SendOrder
<1>6. Spoils /\ spoiled'[o] = spoiled[o] \cup (IF InFlight(o) THEN {"race"} ELSE {})
  <2>1. (IF InFlight(o) THEN {"race"} ELSE {}) \in SUBSET Mishaps
    BY DEF Mishaps
  <2> QED
    BY <1>2, <1>5, <2>1, SpoilSpoils DEF FillsInv
<1>7. CopyIsExact'
  BY <1>1 DEF CopyIsExact
<1>8. ASSUME NEW x \in Orders, Sound(x)'
      PROVE  stored'[x].fill = stored[x].fill /\ Unreported(x)' = Unreported(x)
  <2>1. CASE x # o
    BY <1>1, <1>4, <2>1 DEF Unreported
  <2>2. CASE x = o
    <3>1. Sound(o)
      BY <1>6, <1>8, <2>2, SoundBefore
    <3>2. stored'[o].fill = stored[o].fill
      BY <1>1, <1>4, <3>1 DEF FillsInv, CopyIsExact
    <3>3. ~InFlight(o)
      BY <1>6, <1>8, <2>2 DEF Sound
    <3> QED
      BY <1>1, <2>2, <3>2, <3>3 DEF Unreported, InFlight
  <2> QED
    BY <2>1, <2>2
<1> QED
  BY <1>1, <1>6, <1>7, <1>8, FillsStay

LEMMA SendRefusedFills == ASSUME IInv, FillsInv, SendRefused PROVE FillsInv'
<1>1. UNCHANGED <<stored, zmq, ex, responses, raptor, reports, told>>
  BY DEF SendRefused
<1>2. Spoils
  <2>1. Spoil(Head(cmds).o, {"refused"}) /\ cmds # <<>>
    BY DEF SendRefused
  <2>2. Head(cmds).o \in Orders
    <3>1. Head(cmds) \in Commands
      BY <2>1, TailShifts DEF IInv, Types
    <3> QED
      BY <3>1 DEF Commands
  <2>3. {"refused"} \in SUBSET Mishaps
    BY DEF Mishaps
  <2> QED
    BY <2>1, <2>2, <2>3, SpoilSpoils DEF FillsInv
<1>3. CopyIsExact'
  BY <1>1, <1>2, CopyStays
<1>4. \A x \in Orders : Unreported(x)' = Unreported(x)
  BY <1>1 DEF Unreported
<1> QED
  BY <1>1, <1>2, <1>3, <1>4, FillsStay

LEMMA ForgetFills == ASSUME IInv, FillsInv, Forget PROVE FillsInv'
<1>1. UNCHANGED <<stored, zmq, ex, responses, reports, told, spoiled>>
  BY DEF Forget
<1>2. CopyIsExact'
  BY <1>1, CopyStays
<1>3. \A x \in Orders : Unreported(x)' = Unreported(x)
  BY <1>1 DEF Unreported, Forget, Idle
<1> QED
  BY <1>1, <1>2, <1>3, FillsStay

-----------------------------------------------------------------------------
(* The exchange's messages.                                                *)

LEMMA EmitFills ==
    ASSUME IInv, FillsInv, NEW o \in Orders,
           NEW kind \in {"ack", "mod", "cxl", "rej", "cxlrej", "replrej", "fill", "elim",
                         "status"},
           NEW last \in Nat, NEW book \in ExBooks, book.cum = ex[o].cum + last,
           NEW again \in {"no", "retransmit", "status"},
           Emit(kind, o, last, book, again),
           kind # "fill" => last = 0,
           again = "status" => kind \in {"ack", "status"},
           kind = "status" => again = "status",
           UNCHANGED <<stored, zmq, raptor, reports, told, spoiled>>
    PROVE  FillsInv'
<1> DEFINE leaves == IF book.st = "live" THEN book.qty - book.cum ELSE 0
           num == IF kind = "mod" THEN podNum ELSE None
           pod == [kind |-> kind, o |-> o, last |-> last, cum |-> book.cum, leaves |-> leaves,
                   num |-> num, again |-> again]
<1>1. /\ pod \in Pods /\ pod.o = o /\ pod.last = last /\ pod.cum = book.cum
      /\ pod.kind = kind /\ pod.again = again
  <2>1. leaves \in Int /\ num \in Names /\ book.cum \in Nat
    BY DEF ExBooks, Names, IInv, Types
  <2> HIDE DEF leaves, num
  <2> QED
    BY <2>1 DEF Pods, Answers
<1>2. responses' = Append(responses, pod)
  <2>1. CASE kind = "mod"
    <3>1. responses' = Append(responses, [Pod(kind, o, last, book, again) EXCEPT !.num = podNum])
      BY <2>1 DEF Emit, Push
    <3>2. [Pod(kind, o, last, book, again) EXCEPT !.num = podNum] = pod
      BY <2>1 DEF Pod
    <3> QED
      BY <3>1, <3>2
  <2>2. CASE kind # "mod"
    <3>1. responses' = Append(responses, Pod(kind, o, last, book, again))
      BY <2>2 DEF Emit, Push
    <3>2. Pod(kind, o, last, book, again) = pod
      BY <2>2 DEF Pod
    <3> QED
      BY <3>1, <3>2
  <2> QED
    BY <2>1, <2>2
<1> HIDE DEF leaves, num, pod
<1>3. ex'[o] = book /\ \A x \in Orders : x # o => ex'[x] = ex[x]
  BY DEF Emit, IInv, Types
<1>4. FillsAddUp'
  <2> SUFFICES ASSUME NEW x \in Orders, Sound(x)' PROVE MessagesAddUp(x)' /\ ReportsAddUp(x)'
    BY DEF FillsAddUp
  <2>1. MessagesAddUp(x) /\ ReportsAddUp(x)
    BY SoundBefore DEF FillsInv, FillsAddUp
  <2>2. MessagesAddUp(x)'
    <3>1. IF pod.o = x THEN ex'[x].cum = pod.cum /\ ex[x].cum + pod.last = pod.cum
                       ELSE ex'[x].cum = ex[x].cum
      BY <1>1, <1>3
    <3>2. stored'[x].fill = stored[x].fill /\ Types
      BY DEF IInv
    <3> QED
      BY <1>1, <1>2, <2>1, <3>1, <3>2, MessageSent
  <2>3. ReportsAddUp(x)'
    <3>1. Unreported(x)' = Unreported(x)
      BY DEF Unreported
    <3> QED
      BY <2>1, <3>1, ReportsStay
  <2> QED
    BY <2>2, <2>3
<1>5. CopyIsExact'
  BY CopyStays
<1>6. OnlyFillsTrade'
  <2>1. \A i \in DOMAIN responses' :
            \/ i \in DOMAIN responses /\ responses'[i] = responses[i]
            \/ i = Len(responses) + 1 /\ responses'[i] = pod
    BY <1>1, <1>2, AppendAdds DEF IInv, Types
  <2> SUFFICES ASSUME NEW i \in DOMAIN responses'
               PROVE  /\ responses'[i].kind # "fill" => responses'[i].last = 0
                      /\ responses'[i].again = "status" =>
                            responses'[i].kind \in {"ack", "status"}
                      /\ responses'[i].kind = "status" => responses'[i].again = "status"
    BY DEF OnlyFillsTrade
  <2>2. CASE i \in DOMAIN responses /\ responses'[i] = responses[i]
    BY <2>2 DEF FillsInv, OnlyFillsTrade
  <2>3. CASE responses'[i] = pod
    BY <1>1, <2>3
  <2> QED
    BY <2>1, <2>2, <2>3
<1>7. SpoiledType'
  BY DEF FillsInv, SpoiledType
<1> QED
  BY <1>4, <1>5, <1>6, <1>7 DEF FillsInv

\* What the handler sends is answered with no trade.
LEMMA SendEmits ==
    ASSUME IInv, Send
    PROVE  \E o \in Orders, kind \in {"ack", "mod", "cxl", "rej", "cxlrej", "replrej"},
              book \in ExBooks, again \in Flags :
                book.cum = ex[o].cum /\ Emit(kind, o, 0, book, again)
<1> DEFINE cmd == Head(cmds)
           o == cmd.o
<1>1. cmds # <<>> /\ cmds' = Tail(cmds) /\ (Accept(cmd) \/ Reject(cmd))
  BY DEF Send
<1>2. /\ o \in Orders /\ cmd.leaves \in Int /\ cmd.fill \in Nat
      /\ cmd.kind = "new" => ex[o].cum = 0
  BY <1>1, CommandTaken DEF Commands
<1>3. ex[o] \in ExBooks /\ ex[o].cum \in Nat
  BY <1>2, BookFacts
<1> HIDE DEF cmd, o
<1> DEFINE dead == [ex[o] EXCEPT !.st = "dead"]
           more == [ex[o] EXCEPT !.qty = OrderQty(cmd)]
           fresh == [st |-> "live", qty |-> cmd.leaves, cum |-> 0]
<1>5. dead \in ExBooks /\ dead.cum = ex[o].cum /\ more \in ExBooks /\ more.cum = ex[o].cum
  BY <1>2, <1>3 DEF ExBooks, OrderQty
<1>6. cmd.kind = "new" => fresh \in ExBooks /\ fresh.cum = ex[o].cum
  BY <1>2 DEF ExBooks
<1>7. \/ cmd.kind = "new" /\ Reply(cmd, "ack", fresh)
      \/ Reply(cmd, "mod", more) \/ Reply(cmd, "cxl", dead) \/ Reply(cmd, "rej", dead)
      \/ Reply(cmd, "replrej", ex[o]) \/ Reply(cmd, "cxlrej", ex[o])
  <2>1. CASE Accept(cmd)
    BY <2>1 DEF Accept, AcceptNew, AcceptModify, o
  <2>2. CASE Reject(cmd)
    BY <2>2 DEF Reject, o
  <2> QED
    BY <1>1, <2>1, <2>2
<1> HIDE DEF dead, more, fresh
<1> DEFINE Answered == \E kind \in {"ack", "mod", "cxl", "rej", "cxlrej", "replrej"},
                          book \in ExBooks, again \in Flags :
                            book.cum = ex[o].cum /\ Emit(kind, o, 0, book, again)
<1>8. CASE cmd.kind = "new" /\ Reply(cmd, "ack", fresh)
  <2>1. \E again \in Flags : Emit("ack", o, 0, fresh, again)
    BY <1>8 DEF Reply, o
  <2> QED
    BY <1>2, <1>6, <1>8, <2>1
<1>9. CASE Reply(cmd, "mod", more)
  <2>1. \E again \in Flags : Emit("mod", o, 0, more, again)
    BY <1>9 DEF Reply, o
  <2> QED
    BY <1>2, <1>5, <2>1
<1>10. ASSUME NEW kind \in {"cxl", "rej"}, Reply(cmd, kind, dead) PROVE Answered
  <2>1. \E again \in Flags : Emit(kind, o, 0, dead, again)
    BY <1>10 DEF Reply, o
  <2> QED
    BY <1>5, <2>1
<1>11. ASSUME NEW kind \in {"replrej", "cxlrej"}, Reply(cmd, kind, ex[o]) PROVE Answered
  <2>1. \E again \in Flags : Emit(kind, o, 0, ex[o], again)
    BY <1>11 DEF Reply, o
  <2> QED
    BY <1>3, <2>1
<1> QED
  BY <1>2, <1>7, <1>8, <1>9, <1>10, <1>11

LEMMA SendFills == ASSUME IInv, FillsInv, Send PROVE FillsInv'
<1>1. PICK o \in Orders, kind \in {"ack", "mod", "cxl", "rej", "cxlrej", "replrej"},
           book \in ExBooks, again \in Flags :
                book.cum = ex[o].cum /\ Emit(kind, o, 0, book, again)
  BY SendEmits
<1>2. book.cum = ex[o].cum + 0 /\ 0 \in Nat
  BY <1>1, BookFacts
<1>3. UNCHANGED <<stored, zmq, raptor, reports, told, spoiled>>
  BY DEF Send
<1>4. again \in {"no", "retransmit", "status"} /\ again # "status"
  BY DEF Flags
<1> QED
  BY <1>1, <1>2, <1>3, <1>4, EmitFills

LEMMA ExchangeFills == ASSUME IInv, FillsInv, NEW o \in Orders, Exchange(o) PROVE FillsInv'
<1>1. ex[o] \in ExBooks /\ ex[o].cum \in Nat /\ ex[o].qty \in Int
  BY BookFacts
<1>2. UNCHANGED <<stored, zmq, raptor, reports, told, spoiled>>
  BY DEF Exchange, Trade, Eliminate, StatusReport
<1>3. ASSUME NEW n \in 1 .. MaxQty, Trade(o, n) PROVE FillsInv'
  <2> DEFINE st == IF ex[o].cum + n = ex[o].qty THEN "dead" ELSE "live"
             book == [ex[o] EXCEPT !.cum = @ + n, !.st = st]
  <2>1. n \in Nat
    BY OrderConstants
  <2>2. book \in ExBooks /\ book.cum = ex[o].cum + n
    <3>1. st \in {"none", "live", "dead"} /\ ex[o].cum + n \in Nat
      BY <1>1, <2>1
    <3> HIDE DEF st
    <3> QED
      BY <1>1, <3>1 DEF ExBooks
  <2>3. PICK again \in Flags : Emit("fill", o, n, book, again)
    BY <1>3 DEF Trade
  <2>4. again \in {"no", "retransmit", "status"} /\ again # "status"
    BY DEF Flags
  <2> HIDE DEF book
  <2> QED
    BY <1>2, <2>1, <2>2, <2>3, <2>4, EmitFills
<1>4. CASE Eliminate(o)
  <2> DEFINE book == [ex[o] EXCEPT !.st = "dead"]
  <2>1. book \in ExBooks /\ book.cum = ex[o].cum + 0
    BY <1>1 DEF ExBooks
  <2>2. PICK again \in Flags : Emit("elim", o, 0, book, again)
    BY <1>4 DEF Eliminate
  <2>3. again \in {"no", "retransmit", "status"} /\ again # "status"
    BY DEF Flags
  <2> HIDE DEF book
  <2> QED
    BY <1>2, <2>1, <2>2, <2>3, EmitFills
<1>5. CASE StatusReport(o)
  <2>1. ex[o].cum = ex[o].cum + 0
    BY <1>1
  <2>2. Emit("ack", o, 0, ex[o], "status") \/ Emit("status", o, 0, ex[o], "status")
    BY <1>5 DEF StatusReport
  <2> QED
    BY <1>1, <1>2, <2>1, <2>2, EmitFills
<1> QED
  BY <1>3, <1>4, <1>5 DEF Exchange

-----------------------------------------------------------------------------
(* The Raptor thread.                                                      *)

LEMMA HeadFacts ==
    ASSUME IInv, FillsInv, Pop
    PROVE  /\ Head(responses) \in Pods /\ Head(responses).o \in Orders
           /\ Head(responses).last \in Nat /\ Head(responses).cum \in Nat
           /\ responses # <<>> /\ responses' = Tail(responses)
           /\ Head(responses).kind # "fill" => Head(responses).last = 0
           /\ Head(responses).again = "status" => Head(responses).kind \in {"ack", "status"}
           /\ Head(responses).kind = "status" => Head(responses).again = "status"
           /\ Head(responses).again \in {"no", "retransmit", "status"}
           /\ {Head(responses).again} \cap Mishaps \in SUBSET Mishaps
           /\ OnlyFillsTrade'
<1>1. responses # <<>> /\ responses' = Tail(responses) /\ responses \in Seq(Pods)
  BY DEF Pop, IInv, Types
<1>2. /\ Head(responses) \in Pods /\ Head(responses) = responses[1] /\ 1 \in DOMAIN responses
      /\ \A i \in DOMAIN responses' : i + 1 \in DOMAIN responses /\ responses'[i] = responses[i + 1]
  BY <1>1, TailShifts
<1>3. /\ Head(responses).kind # "fill" => Head(responses).last = 0
      /\ Head(responses).again = "status" => Head(responses).kind \in {"ack", "status"}
      /\ Head(responses).kind = "status" => Head(responses).again = "status"
  BY <1>2 DEF FillsInv, OnlyFillsTrade
<1>4. OnlyFillsTrade'
  BY <1>2 DEF FillsInv, OnlyFillsTrade
<1> QED
  BY <1>1, <1>2, <1>3, <1>4 DEF Pods

\* What a message makes of the record is what the exchange had counted then.
LEMMA UpdatedFills ==
    ASSUME NEW pod \in Pods, pod.again # "retransmit", stored[pod.o] \in Recs,
           stored[pod.o].fill + pod.last = pod.cum,
           pod.kind \in {"ack", "mod", "cxl", "elim", "fill", "status"},
           pod.kind # "fill" => pod.last = 0,
           pod.again = "status" => pod.kind \in {"ack", "status"},
           pod.kind = "status" => pod.again = "status"
    PROVE  /\ Updated(pod).fill = pod.cum
           /\ pod.kind = "fill" =>
                Updated(pod).fillType = "OUTRIGHT_FILL" /\ Updated(pod).last = pod.last
           /\ pod.kind # "fill" => Updated(pod).fillType = "UNKNOWN"
<1>1. /\ stored[pod.o].fill \in Nat /\ pod.last \in Nat /\ pod.cum \in Nat
      /\ pod.again = "no" \/ pod.again = "status"
  BY DEF Recs, Pods
<1>2. CASE pod.again = "no"
  <2>1. Base(pod) = stored[pod.o] /\ ~IsAgain(pod)
    BY <1>2 DEF Base, IsAgain
  <2>2. CASE pod.kind = "fill"
    <3>1. /\ Updated(pod).fill = stored[pod.o].fill + pod.last
          /\ Updated(pod).fillType = "OUTRIGHT_FILL" /\ Updated(pod).last = pod.last
      BY <2>1, <2>2 DEF Updated, MinOrderExecution, Recs
    <3> QED
      BY <2>2, <3>1
  <2>3. CASE pod.kind # "fill"
    <3>1. Updated(pod).fill = stored[pod.o].fill /\ Updated(pod).fillType = "UNKNOWN"
      BY <1>2, <2>1, <2>3 DEF Updated, MinOrderUpdate, Recs
    <3>2. stored[pod.o].fill = pod.cum
      BY <1>1, <2>3
    <3> QED
      BY <2>3, <3>1, <3>2
  <2> QED
    BY <2>2, <2>3
<1>3. CASE pod.again = "status"
  <2>1. pod.kind \in {"ack", "status"} /\ IsAgain(pod)
    BY <1>3 DEF IsAgain
  <2>2. Base(pod) = AsLoaded(pod) /\ AsLoaded(pod).fill = pod.cum
    BY <2>1 DEF Base, AsLoaded
  <2>3. CASE pod.kind = "ack"
    BY <2>2, <2>3 DEF Updated, MinOrderUpdate, AsLoaded
  <2>4. CASE pod.kind = "status"
    <3>1. Updated(pod).fill = pod.cum + 0 /\ Updated(pod).fillType = "UNKNOWN"
      BY <2>1, <2>2, <2>4 DEF Updated, MinOrderExecution, AsLoaded
    <3> QED
      BY <1>1, <2>4, <3>1
  <2> QED
    BY <2>1, <2>3, <2>4
<1> QED
  BY <1>1, <1>2, <1>3

\* Taking a message: the record comes to what the message was sent with.
LEMMA TakenFills ==
    ASSUME IInv, FillsInv, Pop, NEW o \in Orders, Sound(o), UNCHANGED ex,
           stored'[o].fill = IF Head(responses).o = o THEN Head(responses).cum ELSE stored[o].fill
    PROVE  MessagesAddUp(o)'
<1>1. MessagesAddUp(o)
  BY DEF FillsInv, FillsAddUp
<1>2. AddsUp(Messages(o)', MessageLots', MessageCums',
             IF Head(responses).o = o THEN Head(responses).cum ELSE stored[o].fill, ex[o].cum)
  BY <1>1, HeadFacts, MessageLot DEF IInv
<1> QED
  BY <1>2 DEF MessagesAddUp

\* A message of no trade can be taken and dropped.
LEMMA DroppedFills ==
    ASSUME IInv, FillsInv, Pop, NEW o \in Orders, Sound(o), UNCHANGED <<ex, stored>>,
           Head(responses).o = o => Head(responses).last = 0
    PROVE  MessagesAddUp(o)'
<1>1. MessagesAddUp(o)
  BY DEF FillsInv, FillsAddUp
<1>2. Head(responses).o = o => stored[o].fill + Head(responses).last = Head(responses).cum
  BY <1>1, HeadFacts, MessageLot DEF IInv
<1>3. stored[o].fill \in Nat
  BY DEF IInv, Types, Recs
<1>4. Head(responses).o = o => stored[o].fill = Head(responses).cum
  BY <1>2, <1>3
<1> QED
  BY <1>4, TakenFills

LEMMA DropFills == ASSUME IInv, FillsInv, Drop PROVE FillsInv'
<1>p. PICK pod \in Pods : pod = Head(responses)
  BY HeadFacts DEF Drop
<1>1. /\ Pop /\ IsAgain(pod) /\ Spoil(pod.o, {pod.again} \cap Mishaps)
      /\ UNCHANGED <<stored, zmq, ex, raptor, reports, told>>
  BY <1>p DEF Drop
<1>2. /\ pod.o \in Orders /\ {pod.again} \cap Mishaps \in SUBSET Mishaps
      /\ pod.again \in {"no", "retransmit", "status"} /\ OnlyFillsTrade'
      /\ pod.kind # "fill" => pod.last = 0
      /\ pod.again = "status" => pod.kind \in {"ack", "status"}
  BY <1>p, <1>1, HeadFacts
<1>3. Spoils /\ spoiled'[pod.o] = spoiled[pod.o] \cup ({pod.again} \cap Mishaps)
  BY <1>1, <1>2, SpoilSpoils DEF FillsInv
<1>4. pod.again # "no"
  BY <1>1 DEF IsAgain
<1>5. FillsAddUp'
  <2> SUFFICES ASSUME NEW x \in Orders, Sound(x)' PROVE MessagesAddUp(x)' /\ ReportsAddUp(x)'
    BY DEF FillsAddUp
  <2>1. Sound(x) /\ ReportsAddUp(x)
    BY <1>3, SoundBefore DEF FillsInv, FillsAddUp
  <2>2. pod.o = x => pod.last = 0
    <3> SUFFICES ASSUME pod.o = x PROVE pod.last = 0
      OBVIOUS
    <3>1. pod.again # "retransmit"
      BY <1>3 DEF Sound, Mishaps
    <3> QED
      BY <1>2, <1>4, <3>1
  <2>3. MessagesAddUp(x)'
    BY <1>p, <1>1, <2>1, <2>2, DroppedFills
  <2>4. ReportsAddUp(x)'
    <3>1. Unreported(x)' = Unreported(x)
      BY <1>1 DEF Unreported
    <3> QED
      BY <1>1, <2>1, <3>1, ReportsStay
  <2> QED
    BY <2>3, <2>4
<1>6. CopyIsExact'
  BY <1>1, <1>3, CopyStays
<1> QED
  BY <1>2, <1>3, <1>5, <1>6 DEF FillsInv, Spoils

LEMMA ApplyFills == ASSUME IInv, FillsInv, Apply PROVE FillsInv'
<1>0. Pop
  BY DEF Apply
<1>1. PICK pod \in Pods : pod = Head(responses)
  BY <1>0, HeadFacts
<1> DEFINE ord == Updated(pod)
<1>2. /\ raptor = Idle /\ pod.kind \in {"ack", "mod", "cxl", "elim", "fill", "status"}
      /\ stored' = [stored EXCEPT ![pod.o] = ord]
      /\ raptor' = [pc |-> "report", o |-> pod.o, pod |-> pod]
      /\ Spoil(pod.o, Raced(pod.o) \cup ({pod.again} \cap Mishaps))
      /\ UNCHANGED <<zmq, ex, reports, told>>
  BY <1>1 DEF Apply
<1>3. /\ pod.o \in Orders /\ pod.last \in Nat /\ pod.cum \in Nat
      /\ {pod.again} \cap Mishaps \in SUBSET Mishaps /\ OnlyFillsTrade'
      /\ pod.again \in {"no", "retransmit", "status"}
      /\ pod.kind # "fill" => pod.last = 0
      /\ pod.again = "status" => pod.kind \in {"ack", "status"}
      /\ pod.kind = "status" => pod.again = "status"
  BY <1>0, <1>1, HeadFacts
<1>4. /\ Spoils
      /\ spoiled'[pod.o] = spoiled[pod.o] \cup (Raced(pod.o) \cup ({pod.again} \cap Mishaps))
  <2>1. Raced(pod.o) \cup ({pod.again} \cap Mishaps) \in SUBSET Mishaps
    BY <1>3 DEF Raced, Mishaps
  <2> QED
    BY <1>2, <1>3, <2>1, SpoilSpoils DEF FillsInv
<1>5. stored'[pod.o] = ord /\ \A x \in Orders : x # pod.o => stored'[x] = stored[x]
  BY <1>2, <1>3 DEF IInv, Types
<1>6. stored[pod.o] \in Recs
  BY <1>3 DEF IInv, Types
<1>7. ASSUME Sound(pod.o)'
      PROVE  /\ Sound(pod.o) /\ ord.fill = pod.cum /\ stored[pod.o].fill + pod.last = pod.cum
             /\ pod.kind = "fill" => ord.fillType = "OUTRIGHT_FILL" /\ ord.last = pod.last
             /\ pod.kind # "fill" => ord.fillType = "UNKNOWN"
  <2>1. pod.again # "retransmit"
    BY <1>4, <1>7 DEF Sound, Mishaps
  <2>2. Sound(pod.o)
    BY <1>3, <1>4, <1>7, SoundBefore
  <2>3. MessagesAddUp(pod.o) /\ Types
    BY <1>3, <2>2 DEF FillsInv, FillsAddUp, IInv
  <2>4. stored[pod.o].fill + pod.last = pod.cum
    BY <1>0, <1>1, <2>3, HeadFacts, MessageLot
  <2> QED
    BY <1>2, <1>3, <1>6, <2>1, <2>2, <2>4, UpdatedFills
<1> HIDE DEF ord
<1>8. FillsAddUp'
  <2> SUFFICES ASSUME NEW x \in Orders, Sound(x)' PROVE MessagesAddUp(x)' /\ ReportsAddUp(x)'
    BY DEF FillsAddUp
  <2>1. Sound(x) /\ ReportsAddUp(x) /\ stored[x].fill \in Nat
    BY <1>4, SoundBefore DEF FillsInv, FillsAddUp, IInv, Types, Recs
  <2>2. stored'[x].fill = IF pod.o = x THEN pod.cum ELSE stored[x].fill
    BY <1>5, <1>7
  <2>3. MessagesAddUp(x)'
    BY <1>0, <1>1, <1>2, <2>1, <2>2, TakenFills
  <2>4. stored'[x].fill - Unreported(x)' = stored[x].fill - Unreported(x)
    <3>1. Unreported(x) = 0
      BY <1>2 DEF Unreported, Idle
    <3>2. CASE pod.o # x
      <4>1. Unreported(x)' = 0
        BY <1>2, <3>2 DEF Unreported
      <4> QED
        BY <2>2, <3>1, <3>2, <4>1
    <3>3. CASE pod.o = x
      <4>1. /\ ord.fill = pod.cum /\ stored[x].fill + pod.last = pod.cum
            /\ pod.kind = "fill" => ord.fillType = "OUTRIGHT_FILL" /\ ord.last = pod.last
            /\ pod.kind # "fill" => ord.fillType = "UNKNOWN"
        BY <1>7, <3>3
      <4>2. stored'[x] = ord /\ raptor'.pc = "report" /\ raptor'.o = x
        BY <1>2, <1>5, <3>3
      <4>3. Unreported(x)' = pod.last
        <5>1. CASE pod.kind = "fill"
          BY <4>1, <4>2, <5>1 DEF Unreported
        <5>2. CASE pod.kind # "fill"
          BY <1>3, <4>1, <4>2, <5>2 DEF Unreported
        <5> QED
          BY <5>1, <5>2
      <4> QED
        BY <1>3, <2>1, <2>2, <3>1, <3>3, <4>1, <4>3
    <3> QED
      BY <3>2, <3>3
  <2>5. ReportsAddUp(x)'
    BY <1>2, <2>1, <2>4, ReportsStay
  <2> QED
    BY <2>3, <2>5
<1>9. CopyIsExact'
  <2>1. ASSUME zmq # Idle, Sound(zmq.o)' PROVE stored'[zmq.o].fill = stored[zmq.o].fill
    <3>1. zmq.o \in Orders
      BY <2>1 DEF IInv, Types, Requesting
    <3>2. spoiled'[zmq.o] \cap {"race", "retransmit"} = {}
      BY <1>2, <2>1 DEF Sound
    <3>3. zmq.o # pod.o
      BY <1>4, <3>2 DEF Raced
    <3> QED
      BY <1>5, <3>1, <3>3
  <2> QED
    BY <1>2, <1>4, <2>1, CopyStays
<1> QED
  BY <1>3, <1>4, <1>8, <1>9 DEF FillsInv, Spoils

\* A step that makes at most a report of no fill.
LEMMA ReportedFills ==
    ASSUME IInv, FillsInv, NEW x \in Orders, Sound(x), UNCHANGED told,
           NEW r \in Reports, ~IsFill(r), reports' = Append(reports, r),
           stored'[x].fill = stored[x].fill, Unreported(x)' = Unreported(x)
    PROVE  ReportsAddUp(x)'
<1>1. ReportsAddUp(x)
  BY DEF FillsInv, FillsAddUp
<1>2. IF r.o = x /\ IsFill(r)
      THEN /\ stored[x].fill - Unreported(x) + r.ord.last = r.ord.fill
           /\ stored'[x].fill - Unreported(x)' = r.ord.fill
      ELSE stored'[x].fill - Unreported(x)' = stored[x].fill - Unreported(x)
  OBVIOUS
<1>3. Types
  BY DEF IInv
<1> QED
  BY <1>1, <1>2, <1>3, ReportMade

LEMMA ProcessOrderFills == ASSUME IInv, FillsInv, ProcessOrder PROVE FillsInv'
<1>1. /\ raptor \in Reporting /\ raptor # Idle /\ raptor.pc = "report"
      /\ UNCHANGED <<stored, zmq, ex, responses, told, spoiled>>
      /\ reports' = Append(reports, [o |-> raptor.o, ord |-> stored[raptor.o], rejected |-> FALSE])
      /\ raptor' = Idle \/ raptor' = [raptor EXCEPT !.pc = "forget"]
  BY DEF ProcessOrder, Report, Push, IInv, Types, Idle, Rejecting
<1>2. PICK o \in Orders : o = raptor.o
  BY <1>1 DEF Reporting
<1>3. PICK ord \in Recs : ord = stored[o]
  BY DEF IInv, Types
<1> DEFINE r == [o |-> o, ord |-> ord, rejected |-> FALSE]
<1>4. r \in Reports /\ r.o = o /\ r.ord = ord /\ reports' = Append(reports, r)
      /\ (IsFill(r) <=> ord.fillType = "OUTRIGHT_FILL")
  BY <1>1, <1>2, <1>3 DEF Reports, IsFill
<1> HIDE DEF r
<1>5. raptor'.pc # "report"
  BY <1>1 DEF Reporting, Idle
<1>6. FillsAddUp'
  <2> SUFFICES ASSUME NEW x \in Orders, Sound(x)' PROVE MessagesAddUp(x)' /\ ReportsAddUp(x)'
    BY DEF FillsAddUp
  <2>1. Sound(x) /\ MessagesAddUp(x) /\ ReportsAddUp(x)
    BY <1>1, SoundBefore DEF FillsInv, FillsAddUp
  <2>2. MessagesAddUp(x)'
    BY <1>1, <2>1, MessagesStay
  <2>3. Unreported(x)' = 0
    BY <1>5 DEF Unreported
  <2>4. stored[x].fill \in Nat /\ ord.fill \in Nat /\ ord.last \in Nat
    BY DEF IInv, Types, Recs
  <2>5. IF r.o = x /\ IsFill(r)
        THEN /\ stored[x].fill - Unreported(x) + r.ord.last = r.ord.fill
             /\ stored'[x].fill - Unreported(x)' = r.ord.fill
        ELSE stored'[x].fill - Unreported(x)' = stored[x].fill - Unreported(x)
    <3>1. CASE r.o = x /\ IsFill(r)
      <4>1. Unreported(x) = ord.last
        BY <1>1, <1>2, <1>3, <1>4, <3>1 DEF Unreported
      <4>2. stored[x].fill = ord.fill /\ stored'[x].fill = ord.fill
        BY <1>1, <1>3, <1>4, <3>1
      <4> QED
        BY <1>4, <2>3, <2>4, <3>1, <4>1, <4>2
    <3>2. CASE ~(r.o = x /\ IsFill(r))
      <4>1. Unreported(x) = 0
        BY <1>1, <1>2, <1>3, <1>4, <3>2 DEF Unreported
      <4> QED
        BY <1>1, <2>3, <3>2, <4>1
    <3> QED
      BY <3>1, <3>2
  <2>6. ReportsAddUp(x)'
    BY <1>1, <1>4, <2>1, <2>5, ReportMade DEF IInv
  <2> QED
    BY <2>2, <2>6
<1>7. CopyIsExact'
  BY <1>1, CopyStays
<1>8. OnlyFillsTrade' /\ SpoiledType'
  BY <1>1 DEF FillsInv, OnlyFillsTrade, SpoiledType
<1> QED
  BY <1>6, <1>7, <1>8 DEF FillsInv

LEMMA MinOrderRejectFills == ASSUME IInv, FillsInv, MinOrderReject PROVE FillsInv'
<1>0. Pop
  BY DEF MinOrderReject
<1>1. PICK pod \in Pods : pod = Head(responses)
  BY <1>0, HeadFacts
<1> DEFINE ord == [NoPod EXCEPT !.status = "REJECTED", !.state = "COMPLETE"]
           r == [o |-> pod.o, ord |-> ord, rejected |-> FALSE]
<1>2. /\ reports' = Append(reports, r) /\ pod.kind = "rej"
      /\ UNCHANGED <<stored, zmq, ex, raptor, told, spoiled>>
  BY <1>1 DEF MinOrderReject, Report, Push
<1>3. ord \in Recs /\ ord.fillType = "UNKNOWN"
  BY NoPodIsRecord DEF Recs, Statuses, States, NoPod
<1> HIDE DEF ord
<1>4. r \in Reports /\ ~IsFill(r)
  BY <1>3 DEF Reports, Pods, IsFill
<1> HIDE DEF r
<1>5. pod.last = 0 /\ OnlyFillsTrade'
  BY <1>0, <1>1, <1>2, HeadFacts
<1>6. FillsAddUp'
  <2> SUFFICES ASSUME NEW x \in Orders, Sound(x)' PROVE MessagesAddUp(x)' /\ ReportsAddUp(x)'
    BY DEF FillsAddUp
  <2>1. Sound(x)
    BY <1>2, SoundBefore
  <2>2. MessagesAddUp(x)'
    BY <1>0, <1>1, <1>2, <1>5, <2>1, DroppedFills
  <2>3. Unreported(x)' = Unreported(x)
    BY <1>2 DEF Unreported
  <2> QED
    BY <1>2, <1>4, <2>1, <2>2, <2>3, ReportedFills
<1>7. CopyIsExact'
  BY <1>2, CopyStays
<1>8. SpoiledType'
  BY <1>2 DEF FillsInv, SpoiledType
<1> QED
  BY <1>5, <1>6, <1>7, <1>8 DEF FillsInv

LEMMA TakeSnapshotFills == ASSUME IInv, FillsInv, TakeSnapshot PROVE FillsInv'
<1>0. Pop
  BY DEF TakeSnapshot
<1>1. PICK pod \in Pods : pod = Head(responses)
  BY <1>0, HeadFacts
<1>2. /\ raptor = Idle /\ pod.kind \in {"cxlrej", "replrej"}
      /\ raptor' = Idle \/ raptor'.pc = pod.kind
      /\ Spoil(pod.o, Raced(pod.o))
      /\ UNCHANGED <<stored, zmq, ex, reports, told>>
  BY <1>1 DEF TakeSnapshot
<1>3. pod.last = 0 /\ pod.o \in Orders /\ OnlyFillsTrade'
  BY <1>0, <1>1, <1>2, HeadFacts
<1>4. Spoils
  <2>1. Raced(pod.o) \in SUBSET Mishaps
    BY DEF Raced, Mishaps
  <2> QED
    BY <1>2, <1>3, <2>1, SpoilSpoils DEF FillsInv
<1>5. FillsAddUp'
  <2> SUFFICES ASSUME NEW x \in Orders, Sound(x)' PROVE MessagesAddUp(x)' /\ ReportsAddUp(x)'
    BY DEF FillsAddUp
  <2>1. Sound(x) /\ ReportsAddUp(x)
    BY <1>4, SoundBefore DEF FillsInv, FillsAddUp
  <2>2. MessagesAddUp(x)'
    BY <1>0, <1>1, <1>2, <1>3, <2>1, DroppedFills
  <2>3. Unreported(x)' = Unreported(x)
    BY <1>2 DEF Unreported, Idle
  <2> QED
    BY <1>2, <2>1, <2>2, <2>3, ReportsStay
<1>6. CopyIsExact'
  BY <1>2, <1>4, CopyStays
<1> QED
  BY <1>3, <1>4, <1>5, <1>6 DEF FillsInv, Spoils

\* A rejection restores no quantity filled, and reports no fill.
LEMMA RejectionFills ==
    ASSUME IInv, FillsInv, raptor.pc \in {"cxlrej", "replrej"}, raptor' = Idle,
           \A x \in Orders : stored'[x].fill = stored[x].fill,
           NEW r \in Reports, ~IsFill(r), reports' = Append(reports, r), Spoils,
           UNCHANGED <<zmq, ex, responses, told>>
    PROVE  FillsInv'
<1>1. FillsAddUp'
  <2> SUFFICES ASSUME NEW x \in Orders, Sound(x)' PROVE MessagesAddUp(x)' /\ ReportsAddUp(x)'
    BY DEF FillsAddUp
  <2>1. Sound(x) /\ MessagesAddUp(x)
    BY SoundBefore DEF FillsInv, FillsAddUp
  <2>2. Unreported(x)' = Unreported(x)
    BY DEF Unreported, Idle
  <2> QED
    BY <2>1, <2>2, MessagesStay, ReportedFills
<1>2. CopyIsExact'
  <2>1. zmq # Idle => zmq.o \in Orders
    BY DEF IInv, Types, Requesting
  <2> QED
    BY <2>1, CopyStays
<1>3. OnlyFillsTrade'
  BY DEF FillsInv, OnlyFillsTrade
<1> QED
  BY <1>1, <1>2, <1>3 DEF FillsInv, Spoils

LEMMA CancelRejectFills == ASSUME IInv, FillsInv, MinOrderCancelReject PROVE FillsInv'
<1>1. raptor \in Rejecting
  BY DEF MinOrderCancelReject, IInv, Types, Idle, Reporting
<1>2. PICK o \in Orders : o = raptor.o
  BY <1>1 DEF Rejecting
<1> DEFINE status == IF raptor.old = NoEntry THEN StatusOf(raptor.pod) ELSE raptor.old.status
           ord == [stored[o] EXCEPT !.status = status]
           r == [o |-> o, ord |-> ord, rejected |-> TRUE]
<1>3. /\ stored' = [stored EXCEPT ![o] = ord] /\ reports' = Append(reports, r)
      /\ raptor.pc = "cxlrej" /\ raptor' = Idle /\ Spoil(o, Raced(o))
      /\ UNCHANGED <<zmq, ex, responses, told>>
  BY <1>2 DEF MinOrderCancelReject, Report, Push
<1>4. stored[o] \in Recs /\ status \in Statuses
  BY <1>1, StatusKnown DEF IInv, Types, Rejecting, Recs
<1> HIDE DEF status
<1>5. ord \in Recs /\ ord.fill = stored[o].fill
  BY <1>4 DEF Recs
<1> HIDE DEF ord
<1>6. r \in Reports /\ ~IsFill(r)
  BY <1>5 DEF Reports, IsFill
<1> HIDE DEF r
<1>7. \A x \in Orders : stored'[x].fill = stored[x].fill
  BY <1>3, <1>5 DEF IInv, Types
<1>8. Spoils
  BY <1>3, SpoilSpoils DEF FillsInv, Raced, Mishaps
<1> QED
  BY <1>3, <1>6, <1>7, <1>8, RejectionFills

LEMMA CancelReplaceRejectFills ==
    ASSUME IInv, FillsInv, MinOrderCancelReplaceReject PROVE FillsInv'
<1>1. raptor \in Rejecting
  BY DEF MinOrderCancelReplaceReject, IInv, Types, Idle, Reporting
<1>2. PICK o \in Orders : o = raptor.o
  BY <1>1 DEF Rejecting
<1> DEFINE old == raptor.old
           ord == [stored[o] EXCEPT !.leaves = old.leaves, !.status = old.status,
                                    !.state = old.state]
           told1 == [old EXCEPT !.fillType = "UNKNOWN", !.num = o]
           r == [o |-> o, ord |-> told1, rejected |-> FALSE]
           what == Raced(o) \cup (IF old.fill # stored[o].fill THEN {"reject"} ELSE {})
<1>3. /\ stored \in [Orders -> Recs] /\ old \in Recs
  BY <1>1 DEF IInv, Types, Rejecting
<1>4. /\ stored' = [stored EXCEPT ![o] = ord] /\ reports' = Append(reports, r)
      /\ raptor.pc = "replrej" /\ raptor' = Idle /\ Spoil(o, what)
      /\ UNCHANGED <<zmq, ex, responses, told>>
  BY <1>2, <1>3 DEF MinOrderCancelReplaceReject, Report, Push
<1>5. what \in SUBSET Mishaps
  BY DEF Raced, Mishaps
<1> HIDE DEF old, what
<1>6. told1 \in Recs /\ told1.fillType = "UNKNOWN"
  BY <1>3 DEF Recs, Names
<1>7. ord.fill = stored[o].fill
  BY <1>3 DEF Recs
<1> HIDE DEF ord, told1
<1>8. r \in Reports /\ ~IsFill(r)
  BY <1>6 DEF Reports, IsFill
<1> HIDE DEF r
<1>9. \A x \in Orders : stored'[x].fill = stored[x].fill
  BY <1>3, <1>4, <1>7
<1>10. Spoils
  BY <1>4, <1>5, SpoilSpoils DEF FillsInv
<1> QED
  BY <1>4, <1>8, <1>9, <1>10, RejectionFills

-----------------------------------------------------------------------------
(* The reporter, and the whole.                                            *)

LEMMA RunFills == ASSUME IInv, FillsInv, Run PROVE FillsInv'
<1>1. /\ reports # <<>> /\ reports' = Tail(reports)
      /\ UNCHANGED <<stored, zmq, ex, responses, raptor, spoiled>>
  BY DEF Run
<1>2. PICK r \in Reports : r = Head(reports)
  BY <1>1, TailShifts DEF IInv, Types
<1> DEFINE lots == IF r.ord.fillType = "OUTRIGHT_FILL" /\ ~r.rejected THEN r.ord.last ELSE 0
           fills == told[r.o].fills + lots
<1>3. \A x \in Orders :
        told'[x].fills = told[x].fills + (IF r.o = x /\ IsFill(r) THEN r.ord.last ELSE 0)
  <2>1. told' = [told EXCEPT ![r.o] =
            [state |-> r.ord.state, num |-> r.ord.num,
             leaves |-> IF r.rejected THEN stored[r.o].leaves ELSE r.ord.leaves,
             fills |-> fills]]
    BY <1>2 DEF Run
  <2>2. DOMAIN told = Orders /\ \A x \in Orders : told[x].fills \in Nat
    BY DEF IInv, Types
  <2>3. fills = told[r.o].fills + (IF IsFill(r) THEN r.ord.last ELSE 0)
    BY DEF IsFill
  <2> HIDE DEF fills
  <2>4. \A x \in Orders : told'[x].fills = IF x = r.o THEN fills ELSE told[x].fills
    BY <2>1, <2>2
  <2> SUFFICES ASSUME NEW x \in Orders
               PROVE  told'[x].fills = told[x].fills
                                         + (IF r.o = x /\ IsFill(r) THEN r.ord.last ELSE 0)
    OBVIOUS
  <2>5. CASE x = r.o
    BY <2>3, <2>4, <2>5
  <2>6. CASE x # r.o
    <3>1. told'[x].fills = told[x].fills /\ told[x].fills \in Nat
      BY <2>2, <2>4, <2>6
    <3> QED
      BY <2>6, <3>1
  <2> QED
    BY <2>5, <2>6
<1>4. FillsAddUp'
  <2> SUFFICES ASSUME NEW x \in Orders, Sound(x)' PROVE MessagesAddUp(x)' /\ ReportsAddUp(x)'
    BY DEF FillsAddUp
  <2>1. Sound(x) /\ MessagesAddUp(x) /\ ReportsAddUp(x) /\ told[x].fills \in Nat /\ Types
    BY <1>1, SoundBefore DEF FillsInv, FillsAddUp, IInv, Types
  <2>2. told'[x].fills = told[x].fills + (IF Head(reports).o = x /\ IsFill(Head(reports))
                                          THEN Head(reports).ord.last ELSE 0)
    BY <1>2, <1>3
  <2>3. ReportsAddUp(x)'
    BY <1>1, <2>1, <2>2, ReportGiven
  <2> QED
    BY <1>1, <2>1, <2>3, MessagesStay
<1>5. CopyIsExact'
  BY <1>1, CopyStays
<1>6. OnlyFillsTrade' /\ SpoiledType'
  BY <1>1 DEF FillsInv, OnlyFillsTrade, SpoiledType
<1> QED
  BY <1>4, <1>5, <1>6 DEF FillsInv

LEMMA FillsFirst == Init => FillsInv
<1> SUFFICES ASSUME Init PROVE FillsInv
  OBVIOUS
<1>1. /\ responses = <<>> /\ reports = <<>> /\ zmq = Idle /\ raptor = Idle
      /\ spoiled = [o \in Orders |-> {}]
  BY DEF Init
<1>2. DOMAIN responses = {} /\ DOMAIN reports = {}
  BY <1>1
<1>3. ASSUME NEW o \in Orders PROVE stored[o].fill = ex[o].cum /\ told[o].fills = ex[o].cum
  <2>1. told[o].fills = ex[o].cum
    BY DEF Init
  <2>2. CASE o \in loaded
    BY <2>1, <2>2 DEF Init, LoadedRecord
  <2>3. CASE o \notin loaded
    <3>1. stored[o].fill = 0
      BY <2>3 DEF Init, NoPod
    <3>2. ex[o].st # "live" /\ ex[o] \in Books \cup {[st |-> "none", qty |-> 0, cum |-> 0]}
      BY <2>3 DEF Init
    <3>3. ex[o].cum = 0
      BY <3>2 DEF Books
    <3> QED
      BY <2>1, <3>1, <3>3
  <2> QED
    BY <2>1, <2>2, <2>3
<1>4. FillsAddUp
  <2> SUFFICES ASSUME NEW o \in Orders PROVE MessagesAddUp(o) /\ ReportsAddUp(o)
    BY DEF FillsAddUp
  <2>1. Messages(o) = {} /\ FillReports(o) = {}
    BY <1>2 DEF Messages, FillReports
  <2>2. Unreported(o) = 0
    BY <1>1 DEF Unreported, Idle
  <2>3. stored[o].fill \in Nat
    BY Initially DEF IInv, Types, Recs
  <2>4. stored[o].fill - Unreported(o) = told[o].fills
    BY <1>3, <2>2, <2>3
  <2> QED
    BY <1>3, <2>1, <2>4 DEF MessagesAddUp, ReportsAddUp, AddsUp
<1> QED
  BY <1>1, <1>2, <1>4 DEF FillsInv, CopyIsExact, OnlyFillsTrade, SpoiledType

LEMMA FillsStep == IInv /\ FillsInv /\ [Next]_vars => FillsInv'
<1> SUFFICES ASSUME IInv, FillsInv, [Next]_vars PROVE FillsInv'
  OBVIOUS
<1>1. CASE \E o \in Orders : Client(o)
  <2>1. PICK o \in Orders : Client(o)
    BY <1>1
  <2>2. ASSUME NEW q \in 1 .. MaxQty, HandleNewOrder(o, q) PROVE FillsInv'
    BY <2>2, HandleNewOrderFills
  <2>3. ASSUME NEW q \in 1 .. MaxQty, HandleModifyOrder(o, q) PROVE FillsInv'
    BY <2>3, BeginFills DEF HandleModifyOrder
  <2>4. CASE HandleCancelOrder(o)
    BY <2>4, BeginFills DEF HandleCancelOrder
  <2> QED
    BY <2>1, <2>2, <2>3, <2>4 DEF Client
<1>2. CASE \E o \in Orders : Exchange(o)
  BY <1>2, ExchangeFills
<1>3. CASE ZmqThread
  BY <1>3, SnapshotFills, SendOrderFills DEF ZmqThread
<1>4. CASE Send \/ SendRefused
  BY <1>4, SendFills, SendRefusedFills
<1>5. CASE Raptor
  BY <1>5, DropFills, ApplyFills, ProcessOrderFills, ForgetFills, MinOrderRejectFills,
     TakeSnapshotFills, CancelRejectFills, CancelReplaceRejectFills DEF Raptor
<1>6. CASE Run
  BY <1>6, RunFills
<1>7. CASE UNCHANGED vars
  <2>1. UNCHANGED <<stored, zmq, ex, responses, raptor, reports, told, spoiled>>
    BY <1>7 DEF vars
  <2>2. \A x \in Orders : Unreported(x)' = Unreported(x)
    BY <2>1 DEF Unreported
  <2>3. CopyIsExact'
    BY <2>1, CopyStays
  <2> QED
    BY <2>1, <2>2, <2>3, FillsStay
<1> QED
  BY <1>1, <1>2, <1>3, <1>4, <1>5, <1>6, <1>7 DEF Next

\* When all is quiet the client was told each fill exactly once, unless one came with
\* a retransmission or the ZMQ thread overwrote the record in a callback: for any
\* number of orders, fills, requests, rejections and refusals (minOrderExecution,
\* ProcessOrder, Run).
THEOREM SpecFillsToldOnce == Spec => []FillsToldOnce
<1>1. IInv /\ FillsInv => FillsToldOnce
  <2> SUFFICES ASSUME IInv, FillsInv, NEW o \in Orders, Quiet(o),
                      spoiled[o] \cap {"race", "retransmit"} = {}
               PROVE  told[o].fills = ex[o].cum
    BY DEF FillsToldOnce
  <2>1. MessagesAddUp(o) /\ ReportsAddUp(o)
    BY DEF FillsInv, FillsAddUp, Sound
  <2>2. Messages(o) = {} /\ FillReports(o) = {}
    BY DEF Quiet, Messages, FillReports
  <2>3. Unreported(o) = 0
    BY DEF Quiet, Unreported
  <2>4. stored[o].fill = ex[o].cum /\ told[o].fills = stored[o].fill - 0
    BY <2>1, <2>2, <2>3 DEF MessagesAddUp, ReportsAddUp, AddsUp
  <2>5. stored[o].fill \in Nat
    BY DEF IInv, Types, Recs
  <2> QED
    BY <2>4, <2>5
<1>2. Init => FillsInv
  BY FillsFirst
<1>3. IInv /\ FillsInv /\ [Next]_vars => FillsInv'
  BY FillsStep
<1> QED
  BY <1>1, <1>2, <1>3, AlwaysIInv, PTL DEF Spec

-----------------------------------------------------------------------------
(* What is under way of one order.                                         *)

\* The places of an order in a queue, and the kinds of what is there.
Of(s, x) == {i \in DOMAIN s : s[i].o = x}

Kinds(s, x) == {s[i].kind : i \in Of(s, x)}

\* Of the kinds K there is one at most.
One(s, x, K) == \A i, j \in Of(s, x) : s[i].kind \in K /\ s[j].kind \in K => i = j

\* A queue that moved up by d, and lost or gained nothing of the order.
Same(s, t, x) ==
    \E d \in {0, 1} :
        /\ Of(t, x) = {i \in Nat \ {0} : i + d \in Of(s, x)}
        /\ \A i \in Of(t, x) : t[i] = s[i + d]
        /\ d = 1 => 1 \notin Of(s, x)

\* A queue with one thing more of the order, and one whose head was of the order.
More(s, t, e, x) ==
    \E k \in Nat : /\ Of(t, x) = Of(s, x) \cup {k} /\ t[k] = e
                   /\ \A i \in Of(s, x) : i < k /\ t[i] = s[i]

Less(s, t, e, x) ==
    /\ 1 \in Of(s, x) /\ s[1] = e
    /\ Of(t, x) = {i \in Nat \ {0} : i + 1 \in Of(s, x)}
    /\ \A i \in Of(t, x) : t[i] = s[i + 1]

\* What carries the order's quantity as it was already.
Silent(m) == m.kind \in {"cxlrej", "replrej", "rej"} \/ m.again = "status"

Leaves(s) == [i \in DOMAIN s |-> s[i].leaves]

\* The messages bring the open quantity from v to w, and silent ones change nothing.
Brings(s, x, v, w) ==
    \E n \in [DOMAIN s -> Int] :
        /\ \A i \in Of(s, x) : Silent(s[i]) => n[i] = 0
        /\ AddsUp(Of(s, x), n, Leaves(s), v, w)

\* The first acknowledgement of an order is its first message.
Born(m) == m.kind = "ack" /\ m.again # "status"

BornFirst(s, x) == \A i \in Of(s, x) : Born(s[i]) => \A j \in Of(s, x) : i <= j

Births(s, x) == \E i \in Of(s, x) : Born(s[i])

\* The last report tells v, or, there being none, it was told already.
Tells(s, x, known, v) ==
    /\ Of(s, x) = {} => known.leaves = v /\ (known.state = "WORKING" <=> v > 0)
    /\ \A i \in Of(s, x) : (\A j \in Of(s, x) : j <= i) =>
        /\ s[i].ord.state = "WORKING" <=> v > 0
        /\ ~s[i].rejected => s[i].ord.leaves = v

\* No report tells of a working order.
Idles(s, x) == \A i \in Of(s, x) : s[i].ord.state # "WORKING" /\ ~s[i].rejected

LEMMA OfPlaces ==
    ASSUME NEW S, NEW s \in Seq(S), NEW x
    PROVE  Of(s, x) \in SUBSET (Nat \ {0})
<1>1. DOMAIN s = 1 .. Len(s) /\ Len(s) \in Nat
  BY LenProperties
<1> QED
  BY <1>1 DEF Of

LEMMA SameStays ==
    ASSUME NEW S, NEW s \in Seq(S), NEW x
    PROVE  Same(s, s, x)
<1>1. Of(s, x) \in SUBSET (Nat \ {0})
  BY OfPlaces
<1>2. /\ Of(s, x) = {i \in Nat \ {0} : i + 0 \in Of(s, x)}
      /\ \A i \in Of(s, x) : s[i] = s[i + 0]
  <2>1. \A i \in Of(s, x) : i \in Nat \ {0} /\ i + 0 = i
    BY <1>1
  <2>2. \A i \in Nat : i + 0 = i
    OBVIOUS
  <2> QED
    BY <2>1, <2>2
<1>3. 0 \in {0, 1} /\ 0 # 1
  OBVIOUS
<1> QED
  BY <1>2, <1>3 DEF Same

\* Pushing something puts it behind what is there.
LEMMA Pushed ==
    ASSUME NEW S, NEW s \in Seq(S), NEW e \in S, NEW t, t = Append(s, e), NEW x
    PROVE  /\ x # e.o => Same(s, t, x)
           /\ x = e.o => More(s, t, e, x)
           /\ t \in Seq(S) /\ Of(s, x) \in SUBSET (Nat \ {0})
<1> DEFINE k == Len(s) + 1
<1>1. /\ Len(s) \in Nat /\ DOMAIN s = 1 .. Len(s) /\ DOMAIN t = 1 .. k
      /\ t[k] = e /\ (\A i \in DOMAIN s : t[i] = s[i]) /\ t \in Seq(S)
  BY AppendProperties, LenProperties
<1>2. \A i \in Of(s, x) : i \in DOMAIN s /\ i < k
  BY <1>1 DEF Of
<1>3. ASSUME x # e.o PROVE Of(t, x) = Of(s, x)
  BY <1>1, <1>3 DEF Of
<1>4. ASSUME x = e.o PROVE Of(t, x) = Of(s, x) \cup {k}
  BY <1>1, <1>4 DEF Of
<1>5. ASSUME x # e.o PROVE Same(s, t, x)
  <2>1. Of(t, x) = Of(s, x) /\ Of(s, x) \in SUBSET (Nat \ {0})
    BY <1>3, <1>5, OfPlaces
  <2>2. \A i \in Of(s, x) : i \in Nat \ {0} /\ i + 0 = i
    BY <2>1
  <2>3. \A i \in Nat : i + 0 = i
    OBVIOUS
  <2>4. Of(t, x) = {i \in Nat \ {0} : i + 0 \in Of(s, x)}
    BY <2>1, <2>2, <2>3
  <2>5. \A i \in Of(t, x) : t[i] = s[i + 0]
    BY <1>1, <1>2, <2>1, <2>2
  <2>6. 0 \in {0, 1} /\ 0 # 1
    OBVIOUS
  <2> QED
    BY <2>4, <2>5, <2>6 DEF Same
<1>6. k \in Nat
  BY <1>1
<1>7. t[k] = e /\ \A i \in Of(s, x) : i < k /\ t[i] = s[i]
  BY <1>1, <1>2
<1> HIDE DEF k
<1>8. x = e.o => More(s, t, e, x)
  BY <1>4, <1>6, <1>7 DEF More
<1> QED
  BY <1>1, <1>5, <1>8, OfPlaces

\* Taking the head moves the rest up.
LEMMA Taken ==
    ASSUME NEW S, NEW s \in Seq(S), s # <<>>, NEW t, t = Tail(s), NEW x
    PROVE  LET e == Head(s)
           IN  /\ x # e.o => Same(s, t, x)
               /\ x = e.o => Less(s, t, e, x)
               /\ e = s[1] /\ e \in S /\ t \in Seq(S) /\ Of(s, x) \in SUBSET (Nat \ {0})
<1>1. /\ t \in Seq(S) /\ Head(s) \in S /\ Head(s) = s[1] /\ 1 \in DOMAIN s
      /\ \A i \in DOMAIN t : i \in Nat /\ i + 1 \in DOMAIN s /\ t[i] = s[i + 1]
  BY TailShifts
<1>2. /\ DOMAIN s = 1 .. Len(s) /\ Len(s) \in Nat \ {0} /\ DOMAIN t = 1 .. Len(s) - 1
  BY LenProperties, HeadTailProperties, EmptySeq
<1>3. Of(s, x) \in SUBSET (Nat \ {0})
  BY OfPlaces
<1>4. 1 \in Of(s, x) <=> x = Head(s).o
  BY <1>1 DEF Of
<1>5. Of(t, x) = {i \in Nat \ {0} : i + 1 \in Of(s, x)}
  <2>1. \A i \in Nat \ {0} : i \in DOMAIN t <=> i + 1 \in DOMAIN s
    BY <1>2
  <2>2. \A i \in DOMAIN t : i \in Nat \ {0}
    BY <1>2
  <2> QED
    BY <1>1, <2>1, <2>2 DEF Of
<1>6. \A i \in Of(t, x) : t[i] = s[i + 1]
  BY <1>1 DEF Of
<1>7. ASSUME x # Head(s).o PROVE Same(s, t, x)
  <2>1. 1 \notin Of(s, x) /\ 1 \in {0, 1}
    BY <1>4, <1>7
  <2> QED
    BY <1>5, <1>6, <2>1 DEF Same
<1>8. x = Head(s).o => Less(s, t, Head(s), x)
  BY <1>1, <1>4, <1>5, <1>6 DEF Less
<1> QED
  BY <1>1, <1>3, <1>7, <1>8

\* A queue that lost or gained nothing of the order holds of it what it held.
LEMMA SameHolds ==
    ASSUME NEW s, NEW t, NEW x, Same(s, t, x), Of(s, x) \in SUBSET (Nat \ {0})
    PROVE  /\ Kinds(t, x) = Kinds(s, x)
           /\ (Of(t, x) = {} <=> Of(s, x) = {})
           /\ \A K : One(s, x, K) => One(t, x, K)
           /\ BornFirst(s, x) => BornFirst(t, x)
           /\ Births(t, x) => Births(s, x)
           /\ Idles(s, x) => Idles(t, x)
           /\ \A known, v : Tells(s, x, known, v) => Tells(t, x, known, v)
<1>1. PICK d \in {0, 1} :
        /\ Of(t, x) = {i \in Nat \ {0} : i + d \in Of(s, x)}
        /\ \A i \in Of(t, x) : t[i] = s[i + d]
        /\ d = 1 => 1 \notin Of(s, x)
  BY DEF Same
<1>2. \A i \in Of(t, x) : i \in Nat /\ i + d \in Of(s, x) /\ t[i] = s[i + d]
  BY <1>1
<1>3. \A j \in Of(s, x) : j \in Nat /\ j - d \in Of(t, x) /\ t[j - d] = s[j]
  <2> SUFFICES ASSUME NEW j \in Of(s, x) PROVE j \in Nat /\ j - d \in Of(t, x) /\ t[j - d] = s[j]
    OBVIOUS
  <2>1. j \in Nat \ {0} /\ (d = 1 => j # 1)
    BY <1>1
  <2>2. j - d \in Nat \ {0} /\ (j - d) + d = j
    BY <2>1
  <2>3. j - d \in Of(t, x)
    BY <1>1, <2>2
  <2> QED
    BY <1>2, <2>1, <2>2, <2>3
<1>4. \A i, j \in Of(t, x) :
        /\ i + d = j + d => i = j
        /\ i + d <= j + d <=> i <= j
  BY <1>2
<1>k. Kinds(t, x) = Kinds(s, x)
  <2>1. Kinds(t, x) \subseteq Kinds(s, x)
    BY <1>2 DEF Kinds
  <2>2. Kinds(s, x) \subseteq Kinds(t, x)
    BY <1>3 DEF Kinds
  <2> QED
    BY <2>1, <2>2
<1>e. Of(t, x) = {} <=> Of(s, x) = {}
  BY <1>2, <1>3
<1>o. ASSUME NEW K, One(s, x, K) PROVE One(t, x, K)
  <2> SUFFICES ASSUME NEW i \in Of(t, x), NEW j \in Of(t, x), t[i].kind \in K, t[j].kind \in K
               PROVE  i = j
    BY DEF One
  <2>1. i + d = j + d
    BY <1>2, <1>o DEF One
  <2> QED
    BY <1>4, <2>1
<1>b. ASSUME BornFirst(s, x) PROVE BornFirst(t, x)
  <2> SUFFICES ASSUME NEW i \in Of(t, x), Born(t[i]), NEW j \in Of(t, x) PROVE i <= j
    BY DEF BornFirst
  <2>1. i + d <= j + d
    BY <1>2, <1>b DEF BornFirst
  <2> QED
    BY <1>4, <2>1
<1>r. Births(t, x) => Births(s, x)
  BY <1>2 DEF Births
<1>i. Idles(s, x) => Idles(t, x)
  BY <1>2 DEF Idles
<1>t. ASSUME NEW known, NEW v, Tells(s, x, known, v) PROVE Tells(t, x, known, v)
  <2>1. Of(t, x) = {} => known.leaves = v /\ (known.state = "WORKING" <=> v > 0)
    BY <1>e, <1>t DEF Tells
  <2>2. ASSUME NEW i \in Of(t, x), \A j \in Of(t, x) : j <= i
        PROVE  /\ t[i].ord.state = "WORKING" <=> v > 0
               /\ ~t[i].rejected => t[i].ord.leaves = v
    <3>1. \A j \in Of(s, x) : j <= i + d
      <4> SUFFICES ASSUME NEW j \in Of(s, x) PROVE j <= i + d
        OBVIOUS
      <4>1. j - d <= i /\ j \in Nat
        BY <1>3, <2>2
      <4>2. i \in Nat
        BY <1>2
      <4> QED
        BY <4>1, <4>2
    <3>2. i + d \in Of(s, x) /\ t[i] = s[i + d]
      BY <1>2
    <3> QED
      BY <1>t, <3>1, <3>2 DEF Tells
  <2> QED
    BY <2>1, <2>2 DEF Tells
<1> QED
  BY <1>k, <1>e, <1>o, <1>b, <1>r, <1>i, <1>t

\* What the end of a queue adds to what it holds of the order.
LEMMA PushedKinds ==
    ASSUME NEW s, NEW t, NEW e, NEW x, More(s, t, e, x), Of(s, x) \in SUBSET (Nat \ {0})
    PROVE  /\ Kinds(t, x) = Kinds(s, x) \cup {e.kind}
           /\ \A K : One(s, x, K) /\ (e.kind \notin K \/ Kinds(s, x) \cap K = {}) => One(t, x, K)
           /\ BornFirst(s, x) /\ (Born(e) => Kinds(s, x) = {}) => BornFirst(t, x)
           /\ Births(t, x) => Births(s, x) \/ Born(e)
<1>1. PICK k \in Nat : /\ Of(t, x) = Of(s, x) \cup {k} /\ t[k] = e
                       /\ \A i \in Of(s, x) : i < k /\ t[i] = s[i]
  BY DEF More
<1>2. Kinds(t, x) = Kinds(s, x) \cup {e.kind}
  BY <1>1 DEF Kinds
<1>3. ASSUME NEW K, One(s, x, K), e.kind \notin K \/ Kinds(s, x) \cap K = {}
      PROVE  One(t, x, K)
  <2> SUFFICES ASSUME NEW i \in Of(t, x), NEW j \in Of(t, x), t[i].kind \in K, t[j].kind \in K
               PROVE  i = j
    BY DEF One
  <2>1. e.kind \in K => \A l \in Of(s, x) : s[l].kind \notin K
    BY <1>3 DEF Kinds
  <2>2. CASE e.kind \in K
    BY <1>1, <2>1, <2>2
  <2>3. CASE e.kind \notin K
    BY <1>1, <1>3, <2>3 DEF One
  <2> QED
    BY <2>2, <2>3
<1>4. ASSUME BornFirst(s, x), Born(e) => Kinds(s, x) = {} PROVE BornFirst(t, x)
  <2> SUFFICES ASSUME NEW i \in Of(t, x), Born(t[i]), NEW j \in Of(t, x) PROVE i <= j
    BY DEF BornFirst
  <2>1. CASE i \in Of(s, x)
    <3>1. i <= k
      BY <1>1, <2>1
    <3> QED
      BY <1>1, <1>4, <2>1, <3>1 DEF BornFirst
  <2>2. CASE i = k
    <3>1. Of(s, x) = {}
      BY <1>1, <1>4, <2>2 DEF Kinds
    <3> QED
      BY <1>1, <2>2, <3>1
  <2> QED
    BY <1>1, <2>1, <2>2
<1>5. Births(t, x) => Births(s, x) \/ Born(e)
  BY <1>1 DEF Births
<1> QED
  BY <1>2, <1>3, <1>4, <1>5

\* What the head of a queue was.
LEMMA TakenKinds ==
    ASSUME NEW s, NEW t, NEW e, NEW x, Less(s, t, e, x), Of(s, x) \in SUBSET (Nat \ {0})
    PROVE  /\ e.kind \in Kinds(s, x)
           /\ Kinds(t, x) \subseteq Kinds(s, x) /\ Kinds(s, x) \subseteq Kinds(t, x) \cup {e.kind}
           /\ \A K : One(s, x, K) => One(t, x, K)
           /\ \A K : One(s, x, K) /\ e.kind \in K => Kinds(t, x) \cap K = {}
           /\ BornFirst(s, x) => ~Births(t, x)
           /\ Born(e) => Births(s, x)
<1>1. /\ 1 \in Of(s, x) /\ e = s[1]
      /\ Of(t, x) = {i \in Nat \ {0} : i + 1 \in Of(s, x)}
      /\ \A i \in Of(t, x) : t[i] = s[i + 1]
      /\ Of(s, x) \in SUBSET (Nat \ {0})
  BY DEF Less
<1>2. \A i \in Of(t, x) : i \in Nat \ {0} /\ i + 1 \in Of(s, x) /\ t[i] = s[i + 1] /\ i + 1 # 1
  BY <1>1
<1>3. \A i \in Of(s, x) : i = 1 \/ (i - 1 \in Of(t, x) /\ t[i - 1] = s[i])
  <2> SUFFICES ASSUME NEW i \in Of(s, x), i # 1 PROVE i - 1 \in Of(t, x) /\ t[i - 1] = s[i]
    OBVIOUS
  <2>1. i - 1 \in Nat \ {0} /\ (i - 1) + 1 = i
    BY <1>1
  <2>2. i - 1 \in Of(t, x)
    BY <1>1, <2>1
  <2> QED
    BY <1>2, <2>1, <2>2
<1>4. /\ e.kind \in Kinds(s, x)
      /\ Kinds(t, x) \subseteq Kinds(s, x)
  BY <1>1, <1>2 DEF Kinds
<1>5. Kinds(s, x) \subseteq Kinds(t, x) \cup {e.kind}
  BY <1>1, <1>3 DEF Kinds
<1>6. ASSUME NEW K, One(s, x, K) PROVE One(t, x, K)
  <2> SUFFICES ASSUME NEW i \in Of(t, x), NEW j \in Of(t, x), t[i].kind \in K, t[j].kind \in K
               PROVE  i = j
    BY DEF One
  <2>1. i + 1 = j + 1
    BY <1>2, <1>6 DEF One
  <2> QED
    BY <1>2, <2>1
<1>7. ASSUME NEW K, One(s, x, K), e.kind \in K PROVE Kinds(t, x) \cap K = {}
  <2> SUFFICES ASSUME NEW i \in Of(t, x), t[i].kind \in K PROVE FALSE
    BY DEF Kinds
  <2>1. i + 1 = 1
    BY <1>1, <1>2, <1>7 DEF One
  <2> QED
    BY <1>2, <2>1
<1>8. ASSUME BornFirst(s, x) PROVE ~Births(t, x)
  <2> SUFFICES ASSUME NEW i \in Of(t, x), Born(t[i]) PROVE FALSE
    BY DEF Births
  <2>1. i + 1 <= 1
    BY <1>1, <1>2, <1>8 DEF BornFirst
  <2> QED
    BY <1>2, <2>1
<1>9. Born(e) => Births(s, x)
  BY <1>1 DEF Births
<1> QED
  BY <1>4, <1>5, <1>6, <1>7, <1>8, <1>9

-----------------------------------------------------------------------------
(* What messages bring.                                                    *)

LEMMA LeavesOf ==
    ASSUME NEW s, NEW i \in DOMAIN s
    PROVE  Leaves(s)[i] = s[i].leaves
BY DEF Leaves

LEMMA SameBrings ==
    ASSUME NEW S, NEW s \in Seq(S), NEW t \in Seq(S), NEW x, Same(s, t, x),
           NEW v, NEW w, Brings(s, x, v, w)
    PROVE  Brings(t, x, v, w)
<1>1. PICK d \in {0, 1} :
        /\ Of(t, x) = {i \in Nat \ {0} : i + d \in Of(s, x)}
        /\ \A i \in Of(t, x) : t[i] = s[i + d]
        /\ d = 1 => 1 \notin Of(s, x)
  BY DEF Same
<1>2. PICK n \in [DOMAIN s -> Int] :
        /\ \A i \in Of(s, x) : Silent(s[i]) => n[i] = 0
        /\ AddsUp(Of(s, x), n, Leaves(s), v, w)
  BY DEF Brings
<1> DEFINE m == [i \in DOMAIN t |-> IF i + d \in DOMAIN s THEN n[i + d] ELSE 0]
<1>3. m \in [DOMAIN t -> Int]
  OBVIOUS
<1>4. \A i \in Of(t, x) : /\ i \in Nat \ {0} /\ i \in DOMAIN t /\ i + d \in Of(s, x) /\ i + d \in DOMAIN s
                          /\ t[i] = s[i + d]
  BY <1>1 DEF Of
<1>5. \A i \in Of(t, x) : m[i] = n[i + d] /\ Leaves(t)[i] = Leaves(s)[i + d]
  BY <1>4 DEF Leaves
<1> HIDE DEF m
<1>6. \A i \in Of(t, x) : Silent(t[i]) => m[i] = 0
  BY <1>2, <1>4, <1>5
<1>7. Of(s, x) \in SUBSET (Nat \ {0})
  BY OfPlaces
<1>8. CASE d = 0
  <2>1. \A i \in Nat : i + d = i
    BY <1>8
  <2>2. Of(t, x) = Of(s, x)
    BY <1>1, <1>7, <2>1
  <2>3. \A i \in Of(s, x) : m[i] = n[i] /\ Leaves(t)[i] = Leaves(s)[i]
    BY <1>4, <1>5, <2>1, <2>2
  <2>4. AddsUp(Of(t, x), m, Leaves(t), v, w)
    BY <1>2, <2>2, <2>3, SameLots
  <2> QED
    BY <1>3, <1>6, <2>4 DEF Brings
<1>9. CASE d = 1
  <2>1. OneLess(Of(s, x), Of(t, x), n, Leaves(s), m, Leaves(t))
    BY <1>1, <1>5, <1>7, <1>9 DEF OneLess
  <2>2. AddsUp(Of(t, x), m, Leaves(t), v, w)
    BY <1>1, <1>2, <1>9, <2>1, LotsMoved
  <2> QED
    BY <1>3, <1>6, <2>2 DEF Brings
<1> QED
  BY <1>8, <1>9

LEMMA PushedBrings ==
    ASSUME NEW s, NEW t, NEW e, NEW x, More(s, t, e, x), Of(s, x) \in SUBSET (Nat \ {0}),
           NEW v, NEW w \in Int, Brings(s, x, v, w),
           e.leaves \in Int, Silent(e) => e.leaves = w
    PROVE  Brings(t, x, v, e.leaves)
<1> DEFINE n2 == e.leaves - w
<1>1. PICK k \in Nat : /\ Of(t, x) = Of(s, x) \cup {k} /\ t[k] = e
                       /\ \A i \in Of(s, x) : i < k /\ t[i] = s[i]
  BY DEF More
<1>d. Of(t, x) \subseteq DOMAIN t /\ Of(s, x) \subseteq DOMAIN s
  BY DEF Of
<1>2. PICK n \in [DOMAIN s -> Int] :
        /\ \A i \in Of(s, x) : Silent(s[i]) => n[i] = 0
        /\ AddsUp(Of(s, x), n, Leaves(s), v, w)
  BY DEF Brings
<1>n. n2 \in Int /\ (Silent(e) => n2 = 0) /\ w + n2 = e.leaves
  OBVIOUS
<1> HIDE DEF n2
<1> DEFINE m == [i \in DOMAIN t |-> IF i = k THEN n2 ELSE IF i \in DOMAIN s THEN n[i] ELSE 0]
<1>3. m \in [DOMAIN t -> Int]
  BY <1>n
<1>4. m[k] = n2 /\ Leaves(t)[k] = e.leaves
  BY <1>1, <1>d DEF Leaves
<1>5. \A i \in Of(s, x) : i # k /\ m[i] = n[i] /\ Leaves(t)[i] = Leaves(s)[i]
  BY <1>1, <1>d DEF Leaves
<1> HIDE DEF m
<1>6. OneMore(Of(s, x), k, n, Leaves(s), m, Leaves(t))
  BY <1>1, <1>5 DEF OneMore
<1>7. AddsUp(Of(s, x) \cup {k}, m, Leaves(t), v, Leaves(t)[k])
  BY <1>2, <1>4, <1>6, <1>n, LotAdded
<1>8. \A i \in Of(t, x) : Silent(t[i]) => m[i] = 0
  BY <1>1, <1>2, <1>4, <1>5, <1>n
<1>9. Brings(t, x, v, e.leaves)
  BY <1>1, <1>3, <1>4, <1>7, <1>8 DEF Brings
<1> QED
  BY <1>9

LEMMA TakenBrings ==
    ASSUME NEW s, NEW t, NEW e, NEW x, Less(s, t, e, x), Of(s, x) \in SUBSET (Nat \ {0}),
           NEW v \in Int, NEW w, Brings(s, x, v, w)
    PROVE  /\ Brings(t, x, e.leaves, w)
           /\ Silent(e) => e.leaves = v
<1>1. /\ 1 \in Of(s, x) /\ e = s[1]
      /\ Of(t, x) = {i \in Nat \ {0} : i + 1 \in Of(s, x)}
      /\ \A i \in Of(t, x) : t[i] = s[i + 1]
      /\ Of(s, x) \in SUBSET (Nat \ {0})
  BY DEF Less
<1>2. PICK n \in [DOMAIN s -> Int] :
        /\ \A i \in Of(s, x) : Silent(s[i]) => n[i] = 0
        /\ AddsUp(Of(s, x), n, Leaves(s), v, w)
  BY DEF Brings
<1> DEFINE m == [i \in DOMAIN t |-> IF i + 1 \in DOMAIN s THEN n[i + 1] ELSE 0]
<1>3. m \in [DOMAIN t -> Int]
  OBVIOUS
<1>4. \A i \in Of(t, x) : /\ i \in DOMAIN t /\ i + 1 \in Of(s, x) /\ i + 1 \in DOMAIN s
                          /\ t[i] = s[i + 1]
  BY <1>1 DEF Of
<1>5. \A i \in Of(t, x) : m[i] = n[i + 1] /\ Leaves(t)[i] = Leaves(s)[i + 1]
  BY <1>4 DEF Leaves
<1> HIDE DEF m
<1>6. \A i \in Of(t, x) : Silent(t[i]) => m[i] = 0
  BY <1>2, <1>4, <1>5
<1>7. OneLess(Of(s, x), Of(t, x), n, Leaves(s), m, Leaves(t))
  BY <1>1, <1>5 DEF OneLess
<1>8. AddsUp(Of(t, x), m, Leaves(t), Leaves(s)[1], w) /\ v + n[1] = Leaves(s)[1]
  BY <1>1, <1>2, <1>7, LotTaken
<1>9. Leaves(s)[1] = e.leaves
  BY <1>1 DEF Leaves, Of
<1>10. Brings(t, x, e.leaves, w)
  BY <1>3, <1>6, <1>8, <1>9 DEF Brings
<1>11. ASSUME Silent(e) PROVE e.leaves = v
  <2>1. n[1] = 0
    BY <1>1, <1>2, <1>11
  <2> QED
    BY <1>8, <1>9, <2>1
<1> QED
  BY <1>10, <1>11

\* Without messages the open quantity is known.
LEMMA NothingBrings ==
    ASSUME NEW s, NEW x, NEW v, NEW w, Brings(s, x, v, w), Of(s, x) = {}
    PROVE  v = w
BY DEF Brings, AddsUp

-----------------------------------------------------------------------------
(* What reports tell.                                                      *)

\* The new report is the last one.
LEMMA PushedTells ==
    ASSUME NEW s, NEW t, NEW r, NEW x, More(s, t, r, x), Of(s, x) \in SUBSET (Nat \ {0}),
           NEW v, r.ord.state = "WORKING" <=> v > 0, ~r.rejected => r.ord.leaves = v
    PROVE  \A known : Tells(t, x, known, v)
<1>1. PICK k \in Nat : /\ Of(t, x) = Of(s, x) \cup {k} /\ t[k] = r
                       /\ \A i \in Of(s, x) : i < k /\ t[i] = s[i]
  BY DEF More
<1>2. ASSUME NEW i \in Of(t, x), \A j \in Of(t, x) : j <= i PROVE i = k
  BY <1>1, <1>2
<1>3. Of(t, x) # {}
  BY <1>1
<1>4. \A known : Tells(t, x, known, v)
  BY <1>1, <1>2, <1>3 DEF Tells
<1> QED
  BY <1>4

LEMMA PushedIdles ==
    ASSUME NEW s, NEW t, NEW r, NEW x, More(s, t, r, x), Of(s, x) \in SUBSET (Nat \ {0}),
           Idles(s, x), r.ord.state # "WORKING", ~r.rejected
    PROVE  Idles(t, x)
<1>1. PICK k \in Nat : /\ Of(t, x) = Of(s, x) \cup {k} /\ t[k] = r
                       /\ \A i \in Of(s, x) : t[i] = s[i]
  BY DEF More
<1>2. Idles(t, x)
  BY <1>1 DEF Idles
<1> QED
  BY <1>2

\* What the client is told with the head of the reports is what they tell.
LEMMA TakenTells ==
    ASSUME NEW s, NEW t, NEW e, NEW x, Less(s, t, e, x), Of(s, x) \in SUBSET (Nat \ {0}),
           NEW known, NEW now, NEW v, Tells(s, x, known, v), now.state = e.ord.state,
           now.leaves = IF e.rejected THEN v ELSE e.ord.leaves
    PROVE  Tells(t, x, now, v)
<1>1. /\ 1 \in Of(s, x) /\ e = s[1]
      /\ Of(t, x) = {i \in Nat \ {0} : i + 1 \in Of(s, x)}
      /\ \A i \in Of(t, x) : t[i] = s[i + 1]
      /\ Of(s, x) \in SUBSET (Nat \ {0})
  BY DEF Less
<1>3. \A i \in Of(s, x) : i \in Nat /\ (i = 1 \/ i - 1 \in Of(t, x))
  <2> SUFFICES ASSUME NEW i \in Of(s, x), i # 1 PROVE i - 1 \in Of(t, x)
    BY <1>1
  <2>1. i - 1 \in Nat \ {0} /\ (i - 1) + 1 = i
    BY <1>1
  <2> QED
    BY <1>1, <2>1
<1>4. ASSUME Of(t, x) = {}
      PROVE  now.leaves = v /\ (now.state = "WORKING" <=> v > 0)
  <2>1. \A i \in Of(s, x) : i <= 1
    BY <1>3, <1>4
  <2>2. (e.ord.state = "WORKING" <=> v > 0) /\ (~e.rejected => e.ord.leaves = v)
    BY <1>1, <2>1 DEF Tells
  <2> QED
    BY <2>2
<1>5. ASSUME NEW i \in Of(t, x), \A j \in Of(t, x) : j <= i
      PROVE  /\ t[i].ord.state = "WORKING" <=> v > 0
             /\ ~t[i].rejected => t[i].ord.leaves = v
  <2>1. i \in Nat \ {0} /\ i + 1 \in Of(s, x) /\ t[i] = s[i + 1]
    BY <1>1
  <2>2. \A j \in Of(s, x) : j <= i + 1
    <3> SUFFICES ASSUME NEW j \in Of(s, x) PROVE j <= i + 1
      OBVIOUS
    <3>1. j \in Nat /\ (j = 1 \/ j - 1 <= i)
      BY <1>3, <1>5
    <3> QED
      BY <2>1, <3>1
  <2> QED
    BY <2>1, <2>2 DEF Tells
<1>6. Tells(t, x, now, v)
  BY <1>4, <1>5 DEF Tells
<1> QED
  BY <1>6

LEMMA TakenIdles ==
    ASSUME NEW s, NEW t, NEW e, NEW x, Less(s, t, e, x), Of(s, x) \in SUBSET (Nat \ {0}),
           Idles(s, x)
    PROVE  Idles(t, x) /\ e.ord.state # "WORKING" /\ ~e.rejected
<1>1. /\ 1 \in Of(s, x) /\ e = s[1]
      /\ Of(t, x) = {i \in Nat \ {0} : i + 1 \in Of(s, x)}
      /\ \A i \in Of(t, x) : t[i] = s[i + 1]
  BY DEF Less
<1>2. Idles(t, x) /\ e.ord.state # "WORKING" /\ ~e.rejected
  BY <1>1 DEF Idles
<1> QED
  BY <1>2

-----------------------------------------------------------------------------
(* What the client is told is what the exchange has.                       *)

\* The requests of an order under way, and their answers.
Requests(o) == Kinds(cmds, o)
Replies(o) == Kinds(responses, o) \cap Answers

RequestKinds == {"new", "mod", "cxl"}

Unborn(o) == stored[o].status \in {"none", "sent_new"}
Modifying(o) == stored[o].status = "sent_mod"

\* The callbacks of the two rejections, and the end of one that erases the copy.
Answering(o) == raptor.o = o /\ raptor.pc \in {"cxlrej", "replrej"}
Restoring(o) == raptor.o = o /\ raptor.pc = "replrej"
Applying(o) == raptor.o = o /\ raptor.pc \in {"report", "forget"}
Forgetting(o) == Applying(o) /\ Forgets(raptor.pod)

\* What the program takes to be open: the quantity of the record, but while a
\* modification is out the one of the copy that is kept for its rejection.
View(o) ==
    IF Unborn(o) THEN 0
    ELSE IF ~Modifying(o) THEN stored[o].leaves
    ELSE IF Restoring(o) THEN raptor.old.leaves ELSE prev[o].leaves

\* The messages bring the view to what is open, and the reports bring the client to
\* the view, but for a report that is still to be made.
MessagesBring(o) == Brings(responses, o, View(o), Open(o))

ToldLater(o) == Modifying(o) \/ (raptor.o = o /\ raptor.pc = "report")

ReportsTell(o) == ~ToldLater(o) => Tells(reports, o, told[o], View(o))

StateShows(o) == stored[o].state = "WORKING" <=> View(o) > 0

\* A request is made of the record as it is, when nothing else is under way.
CopyOf(o) ==
    zmq.o = o =>
        /\ zmq.ord = stored[o] /\ ~Unborn(o) /\ ~Modifying(o)
        /\ zmq.pc = "send" => prev[o] = zmq.ord
        /\ raptor.o # o /\ Requests(o) = {} /\ Replies(o) = {}

\* A copy of the record that was kept shows what is open unless a fill came since.
WasAsNow(p, o) ==
    /\ p.status \notin {"none", "sent_new", "sent_mod"}
    /\ p.state = "WORKING" <=> p.leaves > 0
    /\ p.fill <= stored[o].fill
    /\ p.fill = stored[o].fill => p.leaves = View(o) \/ Forgetting(o)

CopyKept(o) == prev[o] # NoEntry => WasAsNow(prev[o], o)

CopyTaken(o) ==
    Answering(o) => (raptor.old = NoEntry /\ raptor.pc = "cxlrej") \/ WasAsNow(raptor.old, o)

OneAtATime(o) ==
    /\ One(cmds, o, RequestKinds) /\ One(responses, o, Answers)
    /\ Requests(o) = {} \/ Replies(o) = {}
    /\ Answering(o) => Requests(o) = {} /\ Replies(o) = {}

\* A record is in the state of a modification sent only while it, or an answer to it
\* that ends that state, is under way; and a copy is kept until then.
ModificationWaits(o) ==
    /\ Modifying(o) /\ ~Restoring(o) =>
        /\ prev[o] # NoEntry
        /\ "mod" \in Requests(o) \/ \E k \in Replies(o) : k # "cxlrej"
    /\ Applying(o) => ~Modifying(o)

NotYet(o) ==
    Unborn(o) =>
        /\ prev[o] = NoEntry /\ told[o].state # "WORKING" /\ raptor.o # o
        /\ Replies(o) = {} /\ Requests(o) \subseteq {"new"} /\ Idles(reports, o)

Birth(o) ==
    /\ "new" \in Requests(o) => Unborn(o) /\ Kinds(responses, o) = {}
    /\ BornFirst(responses, o) /\ (Births(responses, o) => Unborn(o))

Good(o) ==
    /\ MessagesBring(o) /\ ReportsTell(o) /\ StateShows(o)
    /\ CopyOf(o) /\ CopyKept(o) /\ CopyTaken(o)
    /\ OneAtATime(o) /\ ModificationWaits(o) /\ NotYet(o) /\ Birth(o)

\* What each message says, and what the exchange has.
Shape(m) ==
    /\ m.kind \in {"ack", "mod"} => m.leaves > 0
    /\ m.kind \in {"rej", "cxl", "elim"} => m.leaves = 0
    /\ m.leaves >= 0
    /\ m.kind = "fill" => m.last > 0

Shapes ==
    /\ \A i \in DOMAIN responses : Shape(responses[i])
    /\ \A o \in Orders : ex[o].st = "live" => ex[o].qty > ex[o].cum
    /\ \A i \in DOMAIN cmds : cmds[i].kind = "new" => cmds[i].leaves > 0

ToldInv == Shapes /\ \A o \in Orders : spoiled[o] = {} => Good(o)

-----------------------------------------------------------------------------
(* What a step leaves alone.                                               *)

LEMMA ViewType ==
    ASSUME Types, NEW o \in Orders
    PROVE  View(o) \in Int /\ Open(o) \in Int
<1>1. stored[o] \in Recs /\ prev[o] \in Recs /\ ex[o] \in ExBooks
  BY DEF Types
<1>2. Restoring(o) => raptor \in Rejecting
  BY OrderConstants DEF Types, Restoring, Idle, Reporting
<1>3. Restoring(o) => raptor.old.leaves \in Int
  BY <1>2 DEF Rejecting, Recs
<1> QED
  BY <1>1, <1>3 DEF View, Open, Recs, ExBooks

\* Nothing of the order is touched, but the queues may move.
Still(x) ==
    /\ stored'[x] = stored[x] /\ prev'[x] = prev[x] /\ told'[x] = told[x] /\ Open(x)' = Open(x)
    /\ Same(cmds, cmds', x) /\ Same(responses, responses', x) /\ Same(reports, reports', x)
    /\ zmq' = zmq \/ (zmq.o # x /\ zmq'.o # x)
    /\ raptor' = raptor \/ (raptor.o # x /\ raptor'.o # x)

LEMMA StillShows ==
    ASSUME NEW x \in Orders, Still(x)
    PROVE  /\ (Unborn(x)' <=> Unborn(x)) /\ (Modifying(x)' <=> Modifying(x))
           /\ (Answering(x)' <=> Answering(x)) /\ (Restoring(x)' <=> Restoring(x))
           /\ (Applying(x)' <=> Applying(x)) /\ (Forgetting(x)' <=> Forgetting(x))
           /\ (Answering(x) => raptor' = raptor)
           /\ (ToldLater(x)' <=> ToldLater(x))
           /\ View(x)' = View(x)
<1>1. (Unborn(x)' <=> Unborn(x)) /\ (Modifying(x)' <=> Modifying(x))
  BY DEF Still, Unborn, Modifying
<1>2. /\ (Answering(x)' <=> Answering(x)) /\ (Restoring(x)' <=> Restoring(x))
      /\ (Answering(x) => raptor' = raptor)
  BY DEF Still, Answering, Restoring
<1>3. (Applying(x)' <=> Applying(x)) /\ (Forgetting(x)' <=> Forgetting(x))
  BY DEF Still, Applying, Forgetting, Forgets
<1>4. ToldLater(x)' <=> ToldLater(x)
  BY <1>1 DEF Still, ToldLater
<1>5. View(x)' = View(x)
  <2>1. Restoring(x) => raptor' = raptor
    BY <1>2 DEF Restoring, Answering
  <2> QED
    BY <1>1, <1>2, <2>1 DEF View, Still
<1> QED
  BY <1>1, <1>2, <1>3, <1>4, <1>5

LEMMA StillQueues ==
    ASSUME Types, NEW x \in Orders, Still(x)
    PROVE  /\ Requests(x)' = Requests(x) /\ Replies(x)' = Replies(x)
           /\ Kinds(responses, x)' = Kinds(responses, x)
           /\ \A K : One(cmds, x, K) => One(cmds', x, K)
           /\ \A K : One(responses, x, K) => One(responses', x, K)
           /\ BornFirst(responses, x) => BornFirst(responses', x)
           /\ Births(responses', x) => Births(responses, x)
           /\ Idles(reports, x) => Idles(reports', x)
           /\ \A v : Tells(reports, x, told[x], v) => Tells(reports', x, told'[x], v)
<1>1. /\ Of(cmds, x) \in SUBSET (Nat \ {0})
      /\ Of(responses, x) \in SUBSET (Nat \ {0})
      /\ Of(reports, x) \in SUBSET (Nat \ {0})
  BY OfPlaces DEF Types
<1>2. /\ Kinds(cmds', x) = Kinds(cmds, x)
      /\ \A K : One(cmds, x, K) => One(cmds', x, K)
  BY <1>1, SameHolds DEF Still
<1>3. /\ Kinds(responses', x) = Kinds(responses, x)
      /\ \A K : One(responses, x, K) => One(responses', x, K)
      /\ BornFirst(responses, x) => BornFirst(responses', x)
      /\ Births(responses', x) => Births(responses, x)
  BY <1>1, SameHolds DEF Still
<1>4. /\ Idles(reports, x) => Idles(reports', x)
      /\ \A k, v : Tells(reports, x, k, v) => Tells(reports', x, k, v)
  BY <1>1, SameHolds DEF Still
<1>5. told'[x] = told[x]
  BY DEF Still
<1> QED
  BY <1>2, <1>3, <1>4, <1>5 DEF Requests, Replies

LEMMA Elsewhere ==
    ASSUME Types, Types', NEW x \in Orders, Good(x), Still(x)
    PROVE  Good(x)'
<1>1. /\ (Unborn(x)' <=> Unborn(x)) /\ (Modifying(x)' <=> Modifying(x))
      /\ (Answering(x)' <=> Answering(x)) /\ (Restoring(x)' <=> Restoring(x))
      /\ (Applying(x)' <=> Applying(x)) /\ (Forgetting(x)' <=> Forgetting(x))
      /\ (Answering(x) => raptor' = raptor)
      /\ (ToldLater(x)' <=> ToldLater(x))
      /\ View(x)' = View(x)
  BY StillShows
<1>2. /\ Requests(x)' = Requests(x) /\ Replies(x)' = Replies(x)
      /\ Kinds(responses, x)' = Kinds(responses, x)
      /\ \A K : One(cmds, x, K) => One(cmds', x, K)
      /\ \A K : One(responses, x, K) => One(responses', x, K)
      /\ BornFirst(responses, x) => BornFirst(responses', x)
      /\ Births(responses', x) => Births(responses, x)
      /\ Idles(reports, x) => Idles(reports', x)
      /\ \A v : Tells(reports, x, told[x], v) => Tells(reports', x, told'[x], v)
  BY StillQueues
<1>3. /\ stored'[x] = stored[x] /\ prev'[x] = prev[x] /\ told'[x] = told[x]
      /\ Open(x)' = Open(x)
      /\ zmq' = zmq \/ (zmq.o # x /\ zmq'.o # x)
      /\ raptor' = raptor \/ (raptor.o # x /\ raptor'.o # x)
      /\ Same(responses, responses', x)
  BY DEF Still
<1>4. MessagesBring(x)'
  <2>1. Brings(responses, x, View(x), Open(x))
    BY DEF Good, MessagesBring
  <2>2. responses \in Seq(Pods) /\ responses' \in Seq(Pods)
    BY DEF Types
  <2>3. Brings(responses', x, View(x), Open(x))
    BY <1>3, <2>1, <2>2, SameBrings
  <2> QED
    BY <1>1, <1>3, <2>3 DEF MessagesBring
<1>5. ReportsTell(x)'
  BY <1>1, <1>2 DEF Good, ReportsTell
<1>6. StateShows(x)'
  BY <1>1, <1>3 DEF Good, StateShows
<1>7. CopyOf(x)'
  BY <1>1, <1>2, <1>3 DEF Good, CopyOf
<1>8. ASSUME NEW p, WasAsNow(p, x) PROVE WasAsNow(p, x)'
  BY <1>1, <1>3, <1>8 DEF WasAsNow
<1>9. CopyKept(x)'
  BY <1>3, <1>8 DEF Good, CopyKept
<1>10. CopyTaken(x)'
  BY <1>1, <1>8 DEF Good, CopyTaken
<1>11. OneAtATime(x)'
  BY <1>1, <1>2 DEF Good, OneAtATime
<1>12. ModificationWaits(x)'
  BY <1>1, <1>2, <1>3 DEF Good, ModificationWaits
<1>13. NotYet(x)'
  BY <1>1, <1>2, <1>3 DEF Good, NotYet
<1>14. Birth(x)'
  BY <1>1, <1>2 DEF Good, Birth
<1> QED
  BY <1>4, <1>5, <1>6, <1>7, <1>9, <1>10, <1>11, <1>12, <1>13, <1>14 DEF Good

\* A queue that was pushed to or taken from for the order o, if it changed.
Touched(s, t, S, o) ==
    \/ t = s
    \/ \E e \in S : e.o = o /\ t = Append(s, e)
    \/ s # <<>> /\ Head(s).o = o /\ t = Tail(s)

LEMMA TouchedSame ==
    ASSUME NEW S, NEW s \in Seq(S), NEW t, NEW o, Touched(s, t, S, o), NEW x, x # o
    PROVE  Same(s, t, x)
<1>1. CASE t = s
  BY <1>1, SameStays
<1>2. ASSUME NEW e \in S, e.o = o, t = Append(s, e) PROVE Same(s, t, x)
  BY <1>2, Pushed
<1>3. CASE s # <<>> /\ Head(s).o = o /\ t = Tail(s)
  BY <1>3, Taken
<1> QED
  BY <1>1, <1>2, <1>3 DEF Touched

\* A step about one order.
Only(o) ==
    /\ Touched(cmds, cmds', Commands, o) /\ Touched(responses, responses', Pods, o)
    /\ Touched(reports, reports', Reports, o)
    /\ \A x \in Orders : x # o =>
        /\ stored'[x] = stored[x] /\ prev'[x] = prev[x] /\ told'[x] = told[x]
        /\ ex'[x] = ex[x]
    /\ zmq' = zmq \/ (zmq.o \in {o, None} /\ zmq'.o \in {o, None})
    /\ raptor' = raptor \/ (raptor.o \in {o, None} /\ raptor'.o \in {o, None})

LEMMA OthersStill ==
    ASSUME Types, NEW o \in Orders, Only(o), NEW x \in Orders, x # o
    PROVE  Still(x)
<1>1. /\ Same(cmds, cmds', x) /\ Same(responses, responses', x) /\ Same(reports, reports', x)
  <2>1. cmds \in Seq(Commands) /\ responses \in Seq(Pods) /\ reports \in Seq(Reports)
    BY DEF Types
  <2>2. /\ Touched(cmds, cmds', Commands, o) /\ Touched(responses, responses', Pods, o)
        /\ Touched(reports, reports', Reports, o)
    BY DEF Only
  <2> QED
    BY <2>1, <2>2, TouchedSame
<1>2. /\ stored'[x] = stored[x] /\ prev'[x] = prev[x] /\ told'[x] = told[x] /\ ex'[x] = ex[x]
  BY DEF Only
<1>3. Open(x)' = Open(x)
  BY <1>2 DEF Open
<1>4. x # None
  BY OrderConstants
<1>5. /\ zmq' = zmq \/ (zmq.o # x /\ zmq'.o # x)
      /\ raptor' = raptor \/ (raptor.o # x /\ raptor'.o # x)
  BY <1>4 DEF Only
<1> QED
  BY <1>1, <1>2, <1>3, <1>5 DEF Still

LEMMA AllGood ==
    ASSUME Types, Types', ToldInv, Shapes', Spoils \/ UNCHANGED spoiled,
           NEW o \in Orders, Only(o),
           spoiled[o] = {} /\ spoiled'[o] = {} /\ Good(o) => Good(o)'
    PROVE  ToldInv'
<1> SUFFICES ASSUME NEW x \in Orders, spoiled'[x] = {} PROVE Good(x)'
  BY DEF ToldInv
<1>1. spoiled[x] = {}
  BY DEF Spoils
<1>2. Good(x)
  BY <1>1 DEF ToldInv
<1>3. CASE x = o
  BY <1>1, <1>2, <1>3
<1>4. CASE x # o
  BY <1>2, <1>4, OthersStill, Elsewhere
<1> QED
  BY <1>3, <1>4

\* A step that adds neither a message nor a request, and leaves the exchange alone.
LEMMA ShapesStay ==
    ASSUME Types, Shapes, UNCHANGED ex,
           responses' = responses \/ (responses # <<>> /\ responses' = Tail(responses)),
           cmds' = cmds \/ (cmds # <<>> /\ cmds' = Tail(cmds))
    PROVE  Shapes'
<1>1. \A i \in DOMAIN responses' : Shape(responses'[i])
  <2>1. CASE responses' = responses
    BY <2>1 DEF Shapes
  <2>2. CASE responses # <<>> /\ responses' = Tail(responses)
    <3>1. \A i \in DOMAIN responses' : i + 1 \in DOMAIN responses /\ responses'[i] = responses[i + 1]
      BY <2>2, TailShifts DEF Types
    <3> QED
      BY <3>1 DEF Shapes
  <2> QED
    BY <2>1, <2>2
<1>2. \A i \in DOMAIN cmds' : cmds'[i].kind = "new" => cmds'[i].leaves > 0
  <2>1. CASE cmds' = cmds
    BY <2>1 DEF Shapes
  <2>2. CASE cmds # <<>> /\ cmds' = Tail(cmds)
    <3>1. \A i \in DOMAIN cmds' : i + 1 \in DOMAIN cmds /\ cmds'[i] = cmds[i + 1]
      BY <2>2, TailShifts DEF Types
    <3> QED
      BY <3>1 DEF Shapes
  <2> QED
    BY <2>1, <2>2
<1>3. \A o \in Orders : ex'[o].st = "live" => ex'[o].qty > ex'[o].cum
  BY DEF Shapes
<1> QED
  BY <1>1, <1>2, <1>3 DEF Shapes

-----------------------------------------------------------------------------
(* The ZMQ thread's steps.                                                 *)

LEMMA BeginTold ==
    ASSUME IInv, IInv', FillsInv, ToldInv, NEW o \in Orders, NEW kind, NEW q, Begin(o, kind, q)
    PROVE  ToldInv'
<1>1. /\ zmq' = [pc |-> "snapshot", o |-> o, kind |-> kind, asked |-> q, ord |-> stored[o]]
      /\ zmq = Idle /\ told[o].state = "WORKING"
      /\ UNCHANGED <<stored, prev, cmds, ex, responses, raptor, reports, told>>
  BY DEF Begin, MayRequest
<1>2. Spoils /\ spoiled'[o] = spoiled[o] \cup (IF Outstanding(o) THEN {"pipeline"} ELSE {})
  <2>1. Spoil(o, IF Outstanding(o) THEN {"pipeline"} ELSE {})
    BY DEF Begin
  <2>2. (IF Outstanding(o) THEN {"pipeline"} ELSE {}) \in SUBSET Mishaps
    BY DEF Mishaps
  <2> QED
    BY <2>1, <2>2, SpoilSpoils DEF FillsInv
<1>3. Types /\ Types'
  BY DEF IInv
<1>4. Only(o)
  BY <1>1 DEF Only, Touched, Idle
<1>5. Shapes'
  BY <1>1, <1>3, ShapesStay DEF ToldInv
<1>6. ASSUME spoiled'[o] = {}, Good(o) PROVE Good(o)'
  <2>1. ~Outstanding(o)
    BY <1>2, <1>6
  <2>2. raptor.o # o /\ Requests(o) = {} /\ Replies(o) = {}
    BY <2>1 DEF Outstanding, Requests, Replies, Kinds, Of, InFlight
  <2>3. ~Unborn(o)
    BY <1>1, <1>6 DEF Good, NotYet
  <2>4. ~Modifying(o)
    BY <1>6, <2>2 DEF Good, ModificationWaits, Restoring
  <2>5. CopyOf(o)'
    BY <1>1, <2>2, <2>3, <2>4 DEF CopyOf, Unborn, Modifying, Requests, Replies
  <2>6. /\ View(o)' = View(o) /\ Open(o)' = Open(o) /\ ToldLater(o)' = ToldLater(o)
        /\ Modifying(o)' = Modifying(o) /\ Unborn(o)' = Unborn(o)
        /\ Answering(o)' = Answering(o) /\ Restoring(o)' = Restoring(o)
        /\ Applying(o)' = Applying(o) /\ Forgetting(o)' = Forgetting(o)
        /\ Requests(o)' = Requests(o) /\ Replies(o)' = Replies(o)
    BY <1>1 DEF View, Open, ToldLater, Modifying, Unborn, Answering, Restoring, Applying,
                Forgetting, Forgets, Requests, Replies
  <2>7. MessagesBring(o)' /\ ReportsTell(o)' /\ StateShows(o)'
    BY <1>1, <1>6, <2>6 DEF Good, MessagesBring, ReportsTell, StateShows
  <2>8. CopyKept(o)' /\ CopyTaken(o)'
    BY <1>1, <1>6, <2>6 DEF Good, CopyKept, CopyTaken, WasAsNow
  <2>9. OneAtATime(o)' /\ ModificationWaits(o)'
    BY <1>1, <1>6, <2>6 DEF Good, OneAtATime, ModificationWaits
  <2>10. NotYet(o)' /\ Birth(o)'
    BY <1>1, <1>6, <2>6 DEF Good, NotYet, Birth
  <2> QED
    BY <2>5, <2>7, <2>8, <2>9, <2>10 DEF Good
<1> QED
  BY <1>2, <1>3, <1>4, <1>5, <1>6, AllGood

LEMMA NewOrderTold ==
    ASSUME IInv, IInv', FillsInv, ToldInv, NEW o \in Orders, NEW q \in 1 .. MaxQty,
           HandleNewOrder(o, q)
    PROVE  ToldInv'
<1> DEFINE c == [o |-> o, kind |-> "new", leaves |-> q, fill |-> 0]
<1>1. /\ zmq = Idle /\ ~Known(o) /\ stored[o].status = "none" /\ cmds' = Append(cmds, c)
      /\ stored' = [stored EXCEPT ![o] =
                        [NoPod EXCEPT !.status = "sent_new", !.leaves = q, !.num = o]]
      /\ UNCHANGED <<zmq, prev, ex, responses, raptor, reports, told, spoiled>>
  BY DEF HandleNewOrder, Known, Push
<1>2. Types /\ Types' /\ c \in Commands /\ q > 0 /\ c.o = o /\ c.kind = "new" /\ c.leaves = q
  BY OrderConstants DEF IInv, Commands
<1> HIDE DEF c
<1>3. /\ stored'[o].status = "sent_new" /\ stored'[o].state = "none"
      /\ \A x \in Orders : x # o => stored'[x] = stored[x]
  BY <1>1, <1>2 DEF Types, NoPod
<1>4. Only(o)
  BY <1>1, <1>2, <1>3 DEF Only, Touched
<1>5. Shapes'
  <2>1. \A i \in DOMAIN cmds' : cmds'[i].kind = "new" => cmds'[i].leaves > 0
    <3>1. \A i \in DOMAIN cmds' : (i \in DOMAIN cmds /\ cmds'[i] = cmds[i]) \/ cmds'[i] = c
      BY <1>1, <1>2, AppendAdds DEF Types
    <3> QED
      BY <1>2, <3>1 DEF ToldInv, Shapes
  <2> QED
    BY <1>1, <2>1 DEF ToldInv, Shapes
<1>6. Of(cmds, o) = {} /\ Of(responses, o) = {}
  BY <1>1 DEF IInv, KnownFirst, Of
<1>7. Requests(o) = {} /\ Kinds(responses, o) = {} /\ Replies(o) = {}
  BY <1>6 DEF Requests, Replies, Kinds
<1>8. Requests(o)' = {"new"} /\ (One(cmds, o, RequestKinds) => One(cmds', o, RequestKinds))
  <2>1. More(cmds, cmds', c, o) /\ Of(cmds, o) \in SUBSET (Nat \ {0})
    <3>1. cmds \in Seq(Commands) /\ cmds' = Append(cmds, c) /\ c \in Commands /\ o = c.o
      BY <1>1, <1>2 DEF Types
    <3>2. o = c.o => More(cmds, cmds', c, o)
      BY <3>1, Pushed
    <3>3. Of(cmds, o) \in SUBSET (Nat \ {0})
      BY <3>1, OfPlaces
    <3> QED
      BY <3>1, <3>2, <3>3
  <2> QED
    BY <1>2, <1>7, <2>1, PushedKinds DEF Requests
<1>9. ASSUME Good(o) PROVE Good(o)'
  <2>1. Unborn(o) /\ Unborn(o)' /\ ~Modifying(o) /\ ~Modifying(o)'
    BY <1>1, <1>3 DEF Unborn, Modifying
  <2>2. View(o) = 0 /\ View(o)' = 0 /\ Open(o)' = Open(o) /\ ToldLater(o)' = ToldLater(o)
    BY <1>1, <2>1 DEF View, Open, ToldLater
  <2>3. raptor.o # o /\ prev[o] = NoEntry /\ told[o].state # "WORKING" /\ Idles(reports, o)
    BY <1>9, <2>1 DEF Good, NotYet
  <2>4. MessagesBring(o)' /\ ReportsTell(o)' /\ StateShows(o)'
    BY <1>1, <1>3, <1>9, <2>2 DEF Good, MessagesBring, ReportsTell, StateShows
  <2>5. CopyOf(o)' /\ CopyKept(o)' /\ CopyTaken(o)'
    BY <1>1, <2>3, OrderConstants DEF CopyOf, CopyKept, CopyTaken, Answering, Idle
  <2>6. OneAtATime(o)'
    BY <1>1, <1>7, <1>8, <1>9, <2>3 DEF Good, OneAtATime, Answering, Replies
  <2>7. ModificationWaits(o)' /\ NotYet(o)'
    BY <1>1, <1>7, <1>8, <2>1, <2>3 DEF ModificationWaits, NotYet, Replies
  <2>8. Birth(o)'
    BY <1>1, <1>7, <1>9, <2>1 DEF Good, Birth
  <2> QED
    BY <2>4, <2>5, <2>6, <2>7, <2>8 DEF Good
<1> QED
  BY <1>1, <1>2, <1>4, <1>5, <1>9, AllGood

LEMMA SnapshotTold ==
    ASSUME IInv, IInv', FillsInv, ToldInv, Snapshot
    PROVE  ToldInv'
<1>o. PICK o \in Orders : zmq.o = o
  BY DEF Snapshot, IInv, Types, Idle, Requesting
<1>1. /\ zmq.pc = "snapshot" /\ zmq \in Requesting
      /\ zmq' = [zmq EXCEPT !.pc = "send"] /\ prev' = [prev EXCEPT ![o] = zmq.ord]
      /\ Spoil(o, IF InFlight(o) THEN {"race"} ELSE {})
      /\ UNCHANGED <<stored, cmds, ex, responses, raptor, reports, told>>
  BY <1>o DEF Snapshot, IInv, Types, Idle, Requesting
<1>2. Types /\ Types'
  BY DEF IInv
<1>3. /\ zmq'.o = o /\ zmq'.ord = zmq.ord /\ zmq'.pc = "send"
      /\ prev'[o] = zmq.ord /\ \A x \in Orders : x # o => prev'[x] = prev[x]
  BY <1>1, <1>2, <1>o DEF Types, Requesting
<1>4. Spoils
  <2>1. (IF InFlight(o) THEN {"race"} ELSE {}) \in SUBSET Mishaps
    BY DEF Mishaps
  <2> QED
    BY <1>1, <2>1, SpoilSpoils DEF FillsInv
<1>u. UNCHANGED <<stored, cmds, ex, responses, raptor, reports, told>>
  BY <1>1
<1>5. Only(o)
  BY <1>1, <1>3, <1>o DEF Only, Touched
<1>6. Shapes'
  BY <1>1, <1>2, ShapesStay DEF ToldInv
<1>7. ASSUME Good(o) PROVE Good(o)'
  <2>1. /\ zmq.ord = stored[o] /\ ~Unborn(o) /\ ~Modifying(o)
        /\ raptor.o # o /\ Requests(o) = {} /\ Replies(o) = {}
    BY <1>7, <1>o DEF Good, CopyOf
  <2>2. /\ ~Unborn(o)' /\ ~Modifying(o)' /\ Open(o)' = Open(o) /\ ToldLater(o)' = ToldLater(o)
        /\ Requests(o)' = {} /\ Replies(o)' = {}
    BY <1>u, <2>1 DEF Unborn, Modifying, Open, ToldLater, Requests, Replies
  <2>3. View(o) = stored[o].leaves /\ View(o)' = View(o)
    BY <1>u, <2>1, <2>2 DEF View
  <2>4. MessagesBring(o)' /\ ReportsTell(o)' /\ StateShows(o)'
    BY <1>u, <1>7, <2>2, <2>3 DEF Good, MessagesBring, ReportsTell, StateShows
  <2>5. CopyOf(o)'
    BY <1>u, <1>3, <2>1, <2>2 DEF CopyOf
  <2>6. CopyTaken(o)'
    BY <1>u, <2>1 DEF CopyTaken, Answering
  <2>7. CopyKept(o)'
    <3>1. stored[o].fill \in Nat
      BY <1>1, <1>2 DEF Types, Recs
    <3>2. stored[o].status \notin {"none", "sent_new", "sent_mod"}
      BY <2>1 DEF Unborn, Modifying
    <3>3. stored[o].state = "WORKING" <=> stored[o].leaves > 0
      BY <1>7, <2>3 DEF Good, StateShows
    <3>4. prev'[o] = stored[o] /\ stored'[o] = stored[o]
      BY <1>u, <1>3, <2>1
    <3>5. stored[o].fill <= stored[o].fill
      BY <3>1
    <3> QED
      BY <2>3, <3>2, <3>3, <3>4, <3>5 DEF CopyKept, WasAsNow
  <2>8. OneAtATime(o)' /\ ModificationWaits(o)'
    BY <1>u, <1>7, <2>1, <2>2 DEF Good, OneAtATime, ModificationWaits, Answering, Applying
  <2>9. NotYet(o)' /\ Birth(o)'
    BY <1>u, <1>7, <2>1, <2>2 DEF Good, NotYet, Birth
  <2> QED
    BY <2>4, <2>5, <2>6, <2>7, <2>8, <2>9 DEF Good
<1> QED
  BY <1>2, <1>4, <1>5, <1>6, <1>7, AllGood

LEMMA SendOrderTold ==
    ASSUME IInv, IInv', FillsInv, ToldInv, SendOrder
    PROVE  ToldInv'
<1>1. PICK o \in Orders : o = zmq.o
  BY DEF SendOrder, IInv, Types, Idle, Requesting
<1>c. PICK c : c = [o |-> o, kind |-> zmq.kind, leaves |-> Request.leaves, fill |-> Request.fill]
  OBVIOUS
<1>2. /\ zmq.pc = "send" /\ zmq \in Requesting /\ zmq' = Idle /\ cmds' = Append(cmds, c)
      /\ stored' = [stored EXCEPT ![o] = Request]
      /\ Spoil(o, IF InFlight(o) THEN {"race"} ELSE {})
      /\ UNCHANGED <<prev, ex, responses, raptor, reports, told>>
  BY <1>1, <1>c DEF SendOrder, IInv, Types, Idle, Requesting, Push
<1>3. Types /\ Types'
  BY DEF IInv
<1>4. /\ zmq.kind \in {"mod", "cxl"} /\ zmq.ord \in Recs
      /\ Request \in Recs /\ Request.fill = zmq.ord.fill /\ Request.state = zmq.ord.state
      /\ zmq.kind = "mod" => Request.status = "sent_mod"
      /\ zmq.kind = "cxl" => Request.status = "sent_cxl" /\ Request.leaves = zmq.ord.leaves
  <2>1. /\ zmq.kind \in {"mod", "cxl"} /\ zmq.ord \in Recs /\ zmq.asked \in Int
        /\ zmq.o \in Names
    BY <1>1, <1>2 DEF Requesting, Names
  <2> QED
    BY <2>1 DEF Request, Recs, Statuses, Sent
<1>5. c \in Commands /\ c.o = o /\ c.kind = zmq.kind
  BY <1>4, <1>c DEF Commands, Recs
<1>6. stored'[o] = Request /\ \A x \in Orders : x # o => stored'[x] = stored[x]
  BY <1>2, <1>3 DEF Types
<1>7. Spoils
  <2>1. (IF InFlight(o) THEN {"race"} ELSE {}) \in SUBSET Mishaps
    BY DEF Mishaps
  <2> QED
    BY <1>2, <2>1, SpoilSpoils DEF FillsInv
<1>8. Only(o)
  BY <1>1, <1>2, <1>5, <1>6 DEF Only, Touched, Idle
<1>9. Shapes'
  <2>1. \A i \in DOMAIN cmds' : cmds'[i].kind = "new" => cmds'[i].leaves > 0
    <3>1. \A i \in DOMAIN cmds' : (i \in DOMAIN cmds /\ cmds'[i] = cmds[i]) \/ cmds'[i] = c
      BY <1>2, <1>3, <1>5, AppendAdds DEF Types
    <3> QED
      BY <1>4, <1>5, <3>1 DEF ToldInv, Shapes
  <2> QED
    BY <1>2, <2>1 DEF ToldInv, Shapes
<1>p. More(cmds, cmds', c, o) /\ Of(cmds, o) \in SUBSET (Nat \ {0})
  <2>1. cmds \in Seq(Commands) /\ cmds' = Append(cmds, c) /\ c \in Commands /\ o = c.o
    BY <1>2, <1>3, <1>5 DEF Types
  <2>2. o = c.o => More(cmds, cmds', c, o)
    BY <2>1, Pushed
  <2>3. Of(cmds, o) \in SUBSET (Nat \ {0})
    BY <2>1, OfPlaces
  <2> QED
    BY <2>1, <2>2, <2>3
<1>10. ASSUME Good(o) PROVE Good(o)'
  <2>1. /\ zmq.ord = stored[o] /\ ~Unborn(o) /\ ~Modifying(o) /\ prev[o] = zmq.ord
        /\ raptor.o # o /\ Requests(o) = {} /\ Replies(o) = {}
    BY <1>1, <1>2, <1>10 DEF Good, CopyOf
  <2>2. Requests(o)' = {zmq.kind} /\ (One(cmds, o, RequestKinds) => One(cmds', o, RequestKinds))
    BY <1>5, <1>p, <2>1, PushedKinds DEF Requests
  <2>3. /\ ~Unborn(o)' /\ Open(o)' = Open(o) /\ ~ToldLater(o)
        /\ Replies(o)' = {} /\ (Modifying(o)' <=> zmq.kind = "mod")
        /\ ~Answering(o)' /\ ~Applying(o)' /\ ~Restoring(o)'
    BY <1>2, <1>4, <1>6, <2>1
       DEF Unborn, Modifying, Open, ToldLater, Replies, Answering, Applying, Restoring
  <2>4. View(o) = stored[o].leaves /\ View(o)' = View(o)
    <3>1. View(o) = stored[o].leaves
      BY <2>1 DEF View
    <3>2. zmq.kind = "mod" => View(o)' = prev[o].leaves
      BY <1>2, <2>3 DEF View
    <3>3. zmq.kind = "cxl" => View(o)' = Request.leaves
      BY <1>6, <2>3 DEF View
    <3> QED
      BY <1>4, <2>1, <3>1, <3>2, <3>3
  <2>5. stored'[o].state = stored[o].state /\ stored'[o].fill = stored[o].fill
    BY <1>4, <1>6, <2>1
  <2>6. MessagesBring(o)' /\ ReportsTell(o)' /\ StateShows(o)'
    BY <1>2, <1>10, <2>3, <2>4, <2>5 DEF Good, MessagesBring, ReportsTell, StateShows
  <2>7. CopyOf(o)' /\ CopyTaken(o)'
    BY <1>2, <2>3, OrderConstants DEF CopyOf, CopyTaken, Idle
  <2>8. CopyKept(o)'
    <3>1. ~Forgetting(o)
      BY <2>1 DEF Forgetting, Applying
    <3>2. prev[o] # NoEntry => WasAsNow(prev[o], o)
      BY <1>10 DEF Good, CopyKept
    <3> QED
      BY <1>2, <2>4, <2>5, <3>1, <3>2 DEF CopyKept, WasAsNow
  <2>9. OneAtATime(o)'
    BY <1>2, <1>10, <2>2, <2>3 DEF Good, OneAtATime
  <2>10. ModificationWaits(o)'
    <3>1. prev[o] # NoEntry
      BY <2>1 DEF Unborn, NoEntry, NoPod
    <3> QED
      BY <1>2, <2>2, <2>3, <3>1 DEF ModificationWaits
  <2>11. NotYet(o)' /\ Birth(o)'
    BY <1>2, <1>4, <1>10, <2>1, <2>2, <2>3 DEF Good, NotYet, Birth
  <2> QED
    BY <2>6, <2>7, <2>8, <2>9, <2>10, <2>11 DEF Good
<1> QED
  BY <1>2, <1>3, <1>7, <1>8, <1>9, <1>10, AllGood

LEMMA SendRefusedTold ==
    ASSUME IInv, IInv', FillsInv, ToldInv, SendRefused
    PROVE  ToldInv'
<1>1. PICK o \in Orders : o = Head(cmds).o /\ cmds # <<>>
  <2>1. cmds # <<>> /\ cmds \in Seq(Commands)
    BY DEF SendRefused, IInv, Types
  <2>2. Head(cmds) \in Commands
    BY <2>1, TailShifts
  <2>3. Head(cmds).o \in Orders
    BY <2>2 DEF Commands
  <2> QED
    BY <2>1, <2>3
<1>2. /\ cmds' = Tail(cmds) /\ Spoil(o, {"refused"})
      /\ UNCHANGED <<stored, prev, zmq, ex, responses, raptor, reports, told>>
  BY <1>1 DEF SendRefused
<1>3. Types /\ Types'
  BY DEF IInv
<1>4. Spoils /\ spoiled'[o] # {}
  <2>1. {"refused"} \in SUBSET Mishaps
    BY DEF Mishaps
  <2> QED
    BY <1>2, <2>1, SpoilSpoils DEF FillsInv
<1>5. Only(o)
  BY <1>1, <1>2 DEF Only, Touched
<1>6. Shapes'
  BY <1>1, <1>2, <1>3, ShapesStay DEF ToldInv
<1> QED
  BY <1>3, <1>4, <1>5, <1>6, AllGood

-----------------------------------------------------------------------------
(* The exchange's messages bring what is open.                             *)

LEMMA ViewStays ==
    ASSUME UNCHANGED <<stored, prev, raptor>>, NEW o
    PROVE  /\ View(o)' = View(o)
           /\ (Unborn(o)' <=> Unborn(o)) /\ (Modifying(o)' <=> Modifying(o))
           /\ (Answering(o)' <=> Answering(o)) /\ (Restoring(o)' <=> Restoring(o))
           /\ (Applying(o)' <=> Applying(o)) /\ (Forgetting(o)' <=> Forgetting(o))
           /\ (ToldLater(o)' <=> ToldLater(o))
           /\ (CopyKept(o)' <=> CopyKept(o)) /\ (CopyTaken(o)' <=> CopyTaken(o))
<1>1. /\ (Unborn(o)' <=> Unborn(o)) /\ (Modifying(o)' <=> Modifying(o))
      /\ (Answering(o)' <=> Answering(o)) /\ (Restoring(o)' <=> Restoring(o))
      /\ (Applying(o)' <=> Applying(o)) /\ (Forgetting(o)' <=> Forgetting(o))
  BY DEF Unborn, Modifying, Answering, Restoring, Applying, Forgetting, Forgets
<1>2. View(o)' = View(o)
  BY <1>1 DEF View
<1>3. ToldLater(o)' <=> ToldLater(o)
  BY <1>1 DEF ToldLater
<1>4. (CopyKept(o)' <=> CopyKept(o)) /\ (CopyTaken(o)' <=> CopyTaken(o))
  BY <1>1, <1>2 DEF CopyKept, CopyTaken, WasAsNow
<1> QED
  BY <1>1, <1>2, <1>3, <1>4

\* What the exchange answers to a request.
Fits(k, m) ==
    /\ k = "new" => m.kind \in {"ack", "rej"}
    /\ k = "mod" => m.kind \in {"mod", "cxl", "replrej"}
    /\ k = "cxl" => m.kind \in {"cxl", "cxlrej"}

\* A message comes without a request, and is no answer; or it answers the next one.
Unasked(m) ==
    cmds' = cmds /\ ex[m.o].st = "live" /\ m.kind \notin Answers /\ ~Born(m)

Asked(m) ==
    /\ cmds # <<>> /\ cmds' = Tail(cmds)
    /\ Head(cmds).o = m.o /\ Fits(Head(cmds).kind, m)

LEMMA MessageGood ==
    ASSUME IInv, NEW m \in Pods, NEW o \in Orders, m.o = o, Good(o),
           responses' = Append(responses, m), Unasked(m) \/ Asked(m),
           m.leaves = Open(o)', Silent(m) => Open(o)' = Open(o),
           UNCHANGED <<stored, prev, zmq, raptor, reports, told>>
    PROVE  Good(o)'
<1>1. /\ View(o)' = View(o)
      /\ (Unborn(o)' <=> Unborn(o)) /\ (Modifying(o)' <=> Modifying(o))
      /\ (Answering(o)' <=> Answering(o)) /\ (Restoring(o)' <=> Restoring(o))
      /\ (Applying(o)' <=> Applying(o)) /\ (Forgetting(o)' <=> Forgetting(o))
      /\ (ToldLater(o)' <=> ToldLater(o))
      /\ (CopyKept(o)' <=> CopyKept(o)) /\ (CopyTaken(o)' <=> CopyTaken(o))
  BY ViewStays
<1>u. UNCHANGED <<stored, prev, zmq, raptor, reports, told>>
  OBVIOUS
<1>2. Types /\ responses \in Seq(Pods) /\ cmds \in Seq(Commands) /\ m.leaves \in Int
  BY DEF IInv, Types, Pods
<1>3. More(responses, responses', m, o) /\ Of(responses, o) \in SUBSET (Nat \ {0})
  <2>1. responses \in Seq(Pods) /\ responses' = Append(responses, m) /\ o = m.o
    BY <1>2
  <2>2. o = m.o => More(responses, responses', m, o)
    BY <2>1, Pushed
  <2>3. Of(responses, o) \in SUBSET (Nat \ {0})
    BY <2>1, OfPlaces
  <2> QED
    BY <2>1, <2>2, <2>3
<1>4. /\ Kinds(responses', o) = Kinds(responses, o) \cup {m.kind}
      /\ One(responses, o, Answers) /\ (m.kind \notin Answers \/ Replies(o) = {})
            => One(responses', o, Answers)
      /\ BornFirst(responses, o) /\ (Born(m) => Kinds(responses, o) = {})
            => BornFirst(responses', o)
      /\ Births(responses', o) => Births(responses, o) \/ Born(m)
  BY <1>3, PushedKinds DEF Replies
<1>5. MessagesBring(o)'
  <2>1. Brings(responses, o, View(o), Open(o)) /\ (Silent(m) => m.leaves = Open(o))
    BY DEF Good, MessagesBring
  <2>2. Open(o) \in Int
    BY <1>2, ViewType
  <2>3. Brings(responses', o, View(o), m.leaves)
    BY <1>2, <1>3, <2>1, <2>2, PushedBrings
  <2> QED
    BY <1>1, <2>3 DEF MessagesBring
<1>6. ReportsTell(o)' /\ StateShows(o)'
  BY <1>1, <1>u DEF Good, ReportsTell, StateShows
<1>7. CopyKept(o)' /\ CopyTaken(o)'
  BY <1>1 DEF Good
<1>8. CASE Unasked(m)
  <2>1. cmds' = cmds /\ m.kind \notin Answers /\ ~Born(m)
    BY <1>8 DEF Unasked
  <2>2. Requests(o)' = Requests(o) /\ Replies(o)' = Replies(o)
    BY <1>4, <2>1 DEF Requests, Replies
  <2>3. CopyOf(o)'
    BY <1>1, <1>u, <2>2 DEF Good, CopyOf
  <2>4. OneAtATime(o)'
    BY <1>1, <1>4, <2>1, <2>2 DEF Good, OneAtATime
  <2>5. ModificationWaits(o)' /\ NotYet(o)'
    BY <1>1, <1>u, <2>2 DEF Good, ModificationWaits, NotYet
  <2>6. Birth(o)'
    <3>1. "new" \notin Requests(o)
      <4>1. ex[o].st = "live"
        BY <1>8 DEF Unasked
      <4>2. \A i \in Of(cmds, o) : cmds[i].kind # "new"
        BY <4>1 DEF IInv, NewOnce, Of
      <4> QED
        BY <4>2 DEF Requests, Kinds
    <3> QED
      BY <1>1, <1>4, <2>1, <2>2, <3>1 DEF Good, Birth
  <2> QED
    BY <1>5, <1>6, <1>7, <2>3, <2>4, <2>5, <2>6 DEF Good
<1>9. CASE Asked(m)
  <2> DEFINE k == Head(cmds).kind
  <2>1. Less(cmds, cmds', Head(cmds), o) /\ Of(cmds, o) \in SUBSET (Nat \ {0})
    BY <1>2, <1>9, Taken DEF Asked
  <2>2. k \in RequestKinds /\ Fits(k, m)
    <3>1. Head(cmds) \in Commands
      BY <1>2, <1>9, TailShifts DEF Asked
    <3> QED
      BY <1>9, <3>1 DEF Asked, Commands, RequestKinds
  <2>3. /\ k \in Requests(o) /\ Requests(o) \subseteq Requests(o)' \cup {k}
        /\ One(cmds, o, RequestKinds) => One(cmds', o, RequestKinds)
        /\ One(cmds, o, RequestKinds) => Requests(o)' \cap RequestKinds = {}
        /\ Requests(o)' \subseteq Requests(o)
    BY <2>1, <2>2, TakenKinds DEF Requests
  <2> HIDE DEF k
  <2>4. Requests(o) \subseteq RequestKinds
    <3>1. \A i \in DOMAIN cmds : cmds[i] \in Commands
      BY <1>2, ElementOfSeq
    <3>2. \A i \in DOMAIN cmds : cmds[i].kind \in RequestKinds
      BY <3>1 DEF Commands, RequestKinds
    <3> QED
      BY <3>2 DEF Requests, Kinds, Of
  <2>5. One(cmds', o, RequestKinds) /\ Requests(o)' = {} /\ Requests(o) = {k}
    BY <2>3, <2>4 DEF Good, OneAtATime
  <2>6. Replies(o) = {} /\ ~Answering(o) /\ zmq.o # o
    BY <2>5 DEF Good, OneAtATime, CopyOf
  <2>7. Replies(o)' = {m.kind} \cap Answers
    BY <1>4, <2>6 DEF Replies
  <2>8. CopyOf(o)'
    BY <1>u, <2>6 DEF CopyOf
  <2>9. OneAtATime(o)'
    BY <1>1, <1>4, <2>5, <2>6 DEF Good, OneAtATime
  <2>10. ModificationWaits(o)'
    <3>1. Modifying(o) /\ ~Restoring(o) => prev[o] # NoEntry /\ k = "mod"
      BY <2>5, <2>6 DEF Good, ModificationWaits
    <3>2. k = "mod" => m.kind \in Replies(o)' /\ m.kind # "cxlrej"
      BY <2>2, <2>7 DEF Fits, Answers
    <3> QED
      BY <1>1, <1>u, <3>1, <3>2 DEF Good, ModificationWaits
  <2>11. NotYet(o)'
    <3>1. Unborn(o) => k = "new"
      BY <2>5 DEF Good, NotYet
    <3>2. k = "new" => Replies(o)' = {}
      BY <2>2, <2>7 DEF Fits, Answers
    <3> QED
      BY <1>1, <1>u, <2>5, <3>1, <3>2 DEF Good, NotYet
  <2>12. Birth(o)'
    <3>1. Born(m) => k = "new"
      BY <2>2 DEF Born, Fits, RequestKinds
    <3>2. k = "new" => Unborn(o) /\ Kinds(responses, o) = {}
      BY <2>5 DEF Good, Birth
    <3> QED
      BY <1>1, <1>4, <2>5, <3>1, <3>2 DEF Good, Birth
  <2> QED
    BY <1>5, <1>6, <1>7, <2>8, <2>9, <2>10, <2>11, <2>12 DEF Good
<1> QED
  BY <1>8, <1>9

\* What the step of the exchange leaves in the order pod.
LEMMA Emitted ==
    ASSUME IInv, NEW o \in Orders,
           NEW kind \in {"ack", "mod", "cxl", "rej", "cxlrej", "replrej", "fill", "elim",
                         "status"},
           NEW last \in Nat, NEW book \in ExBooks,
           NEW again \in {"no", "retransmit", "status"}, Emit(kind, o, last, book, again)
    PROVE  /\ ex'[o] = book /\ \A x \in Orders : x # o => ex'[x] = ex[x]
           /\ \E m \in Pods :
                /\ responses' = Append(responses, m) /\ m.o = o /\ m.kind = kind
                /\ m.last = last /\ m.again = again /\ m.leaves = Open(o)'
<1> DEFINE leaves == IF book.st = "live" THEN book.qty - book.cum ELSE 0
           num == IF kind = "mod" THEN podNum ELSE None
<1>1. PICK m : m = [kind |-> kind, o |-> o, last |-> last, cum |-> book.cum, leaves |-> leaves,
                    num |-> num, again |-> again]
  OBVIOUS
<1>2. /\ book.cum \in Nat /\ leaves \in Int /\ num \in Names
  BY DEF ExBooks, IInv, Types, Names
<1>3. ex' = [ex EXCEPT ![o] = book] /\ ex \in [Orders -> ExBooks]
  BY DEF Emit, IInv, Types
<1>4. ex'[o] = book /\ \A x \in Orders : x # o => ex'[x] = ex[x]
  BY <1>3
<1>5. leaves = Open(o)'
  BY <1>4 DEF Open
<1>6. responses' = Append(responses, m)
  BY <1>1 DEF Emit, Push, Pod
<1> HIDE DEF leaves, num
<1>7. m \in Pods /\ m.o = o /\ m.kind = kind /\ m.last = last /\ m.again = again /\ m.leaves = leaves
  BY <1>1, <1>2 DEF Pods, Answers
<1> QED
  BY <1>4, <1>5, <1>6, <1>7

LEMMA MessageTold ==
    ASSUME IInv, IInv', ToldInv, NEW o \in Orders, NEW m \in Pods, m.o = o,
           responses' = Append(responses, m), Unasked(m) \/ Asked(m),
           m.leaves = Open(o)', Silent(m) => Open(o)' = Open(o), Shape(m),
           \A x \in Orders : x # o => ex'[x] = ex[x],
           ex'[o].st = "live" => ex'[o].qty > ex'[o].cum,
           UNCHANGED <<stored, prev, zmq, raptor, reports, told, spoiled>>
    PROVE  ToldInv'
<1>1. Types /\ Types'
  BY DEF IInv
<1>2. Only(o)
  BY DEF Only, Touched, Asked, Unasked
<1>3. Shapes'
  <2>1. \A i \in DOMAIN responses' : Shape(responses'[i])
    <3>1. \A i \in DOMAIN responses' :
            (i \in DOMAIN responses /\ responses'[i] = responses[i]) \/ responses'[i] = m
      BY <1>1, AppendAdds DEF Types
    <3> QED
      BY <3>1 DEF ToldInv, Shapes
  <2>2. \A i \in DOMAIN cmds' : cmds'[i].kind = "new" => cmds'[i].leaves > 0
    <3>1. CASE cmds' = cmds
      BY <3>1 DEF ToldInv, Shapes
    <3>2. CASE cmds # <<>> /\ cmds' = Tail(cmds)
      <4>1. \A i \in DOMAIN cmds' : i + 1 \in DOMAIN cmds /\ cmds'[i] = cmds[i + 1]
        BY <1>1, <3>2, TailShifts DEF Types
      <4> QED
        BY <4>1 DEF ToldInv, Shapes
    <3> QED
      BY <3>1, <3>2 DEF Asked, Unasked
  <2>3. \A x \in Orders : ex'[x].st = "live" => ex'[x].qty > ex'[x].cum
    BY DEF ToldInv, Shapes
  <2> QED
    BY <2>1, <2>2, <2>3 DEF Shapes
<1>4. Good(o) => Good(o)'
  BY MessageGood
<1> QED
  BY <1>1, <1>2, <1>3, <1>4, AllGood

LEMMA ExchangeTold ==
    ASSUME IInv, IInv', ToldInv, NEW o \in Orders, Exchange(o)
    PROVE  ToldInv'
<1>1. /\ ex[o] \in ExBooks /\ ex[o].cum \in Nat /\ ex[o].qty \in Int
      /\ ex[o].st = "live" => ex[o].qty > ex[o].cum
  BY BookFacts DEF ToldInv, Shapes
<1>2. UNCHANGED <<stored, prev, zmq, cmds, raptor, reports, told, spoiled>>
  BY DEF Exchange, Trade, Eliminate, StatusReport
<1>3. ASSUME NEW n \in 1 .. MaxQty, Trade(o, n) PROVE ToldInv'
  <2> DEFINE st == IF ex[o].cum + n = ex[o].qty THEN "dead" ELSE "live"
             book == [ex[o] EXCEPT !.cum = @ + n, !.st = st]
  <2>1. n \in Nat /\ n > 0
    BY OrderConstants
  <2>2. ex[o].st = "live" /\ n <= ex[o].qty - ex[o].cum
    <3>1. n <= Open(o)
      BY <1>3 DEF Trade
    <3> QED
      BY <2>1, <3>1 DEF Open
  <2>3. /\ book \in ExBooks /\ book.cum = ex[o].cum + n /\ book.qty = ex[o].qty /\ book.st = st
        /\ ex[o].cum + n \in Nat
    <3>1. st \in {"none", "live", "dead"} /\ ex[o].cum + n \in Nat
      BY <1>1, <2>1
    <3> HIDE DEF st
    <3> QED
      BY <1>1, <3>1 DEF ExBooks
  <2>4. st = "live" => book.qty > book.cum
    <3>1. st = "live" => ex[o].cum + n # ex[o].qty
      OBVIOUS
    <3> HIDE DEF st, book
    <3> QED
      BY <1>1, <2>1, <2>2, <2>3, <3>1
  <2>5. PICK again \in Flags : Emit("fill", o, n, book, again)
    BY <1>3 DEF Trade
  <2>6. again \in {"no", "retransmit", "status"} /\ again # "status"
    BY DEF Flags
  <2> HIDE DEF book, st
  <2>b. book \in ExBooks /\ n \in Nat
    BY <2>1, <2>3
  <2>e. /\ ex'[o] = book /\ \A x \in Orders : x # o => ex'[x] = ex[x]
        /\ \E m \in Pods :
                /\ responses' = Append(responses, m) /\ m.o = o /\ m.kind = "fill"
                /\ m.last = n /\ m.again = again /\ m.leaves = Open(o)'
    BY <2>b, <2>5, <2>6, Emitted
  <2>7. ex'[o] = book /\ \A x \in Orders : x # o => ex'[x] = ex[x]
    BY <2>e
  <2>8. PICK m \in Pods : /\ responses' = Append(responses, m) /\ m.o = o /\ m.kind = "fill"
                          /\ m.last = n /\ m.again = again /\ m.leaves = Open(o)'
    BY <2>e
  <2>9. m.leaves >= 0
    BY <1>1, <2>3, <2>4, <2>7, <2>8 DEF Open
  <2>10. Shape(m) /\ ~Silent(m)
    BY <2>1, <2>6, <2>8, <2>9 DEF Shape, Silent
  <2>11. Unasked(m)
    BY <1>2, <2>2, <2>8 DEF Unasked, Answers, Born
  <2> QED
    BY <1>2, <2>3, <2>4, <2>7, <2>8, <2>10, <2>11, MessageTold
<1>4. CASE Eliminate(o)
  <2> DEFINE book == [ex[o] EXCEPT !.st = "dead"]
  <2>1. book \in ExBooks /\ book.st = "dead" /\ ex[o].st = "live"
    BY <1>1, <1>4 DEF ExBooks, Eliminate
  <2>2. PICK again \in Flags : Emit("elim", o, 0, book, again)
    BY <1>4 DEF Eliminate
  <2>3. again \in {"no", "retransmit", "status"} /\ again # "status"
    BY DEF Flags
  <2> HIDE DEF book
  <2>b. /\ book \in ExBooks /\ 0 \in Nat
        /\ "elim" \in {"ack", "mod", "cxl", "rej", "cxlrej", "replrej", "fill", "elim", "status"}
    BY <2>1
  <2>e. /\ ex'[o] = book /\ \A x \in Orders : x # o => ex'[x] = ex[x]
        /\ \E m \in Pods :
                /\ responses' = Append(responses, m) /\ m.o = o /\ m.kind = "elim"
                /\ m.last = 0 /\ m.again = again /\ m.leaves = Open(o)'
    BY <2>b, <2>2, <2>3, Emitted
  <2>4. ex'[o] = book /\ \A x \in Orders : x # o => ex'[x] = ex[x]
    BY <2>e
  <2>5. PICK m \in Pods : /\ responses' = Append(responses, m) /\ m.o = o /\ m.kind = "elim"
                          /\ m.last = 0 /\ m.again = again /\ m.leaves = Open(o)'
    BY <2>e
  <2>6. m.leaves = 0
    BY <2>1, <2>4, <2>5 DEF Open
  <2>7. Shape(m) /\ ~Silent(m)
    BY <2>3, <2>5, <2>6 DEF Shape, Silent
  <2>8. Unasked(m)
    BY <1>2, <2>1, <2>5 DEF Unasked, Answers, Born
  <2> QED
    BY <1>2, <2>1, <2>4, <2>5, <2>7, <2>8, MessageTold
<1>5. CASE StatusReport(o)
  <2>1. PICK kind \in {"ack", "status"} : Emit(kind, o, 0, ex[o], "status")
    BY <1>5 DEF StatusReport
  <2>2. ex[o].st = "live"
    BY <1>5 DEF StatusReport
  <2>e. /\ ex'[o] = ex[o] /\ \A x \in Orders : x # o => ex'[x] = ex[x]
        /\ \E m \in Pods :
                /\ responses' = Append(responses, m) /\ m.o = o /\ m.kind = kind
                /\ m.last = 0 /\ m.again = "status" /\ m.leaves = Open(o)'
    BY <1>1, <2>1, Emitted
  <2>3. ex'[o] = ex[o] /\ \A x \in Orders : x # o => ex'[x] = ex[x]
    BY <2>e
  <2>4. PICK m \in Pods : /\ responses' = Append(responses, m) /\ m.o = o /\ m.kind = kind
                          /\ m.last = 0 /\ m.again = "status" /\ m.leaves = Open(o)'
    BY <2>e
  <2>5. Open(o)' = Open(o) /\ Open(o) = ex[o].qty - ex[o].cum
    BY <2>2, <2>3 DEF Open
  <2>6. m.leaves > 0
    BY <1>1, <2>2, <2>4, <2>5
  <2>7. Shape(m)
    BY <2>4, <2>6 DEF Shape, Pods
  <2>8. Unasked(m)
    BY <1>2, <2>2, <2>4 DEF Unasked, Answers, Born
  <2> QED
    BY <1>1, <1>2, <2>2, <2>3, <2>4, <2>5, <2>7, <2>8, MessageTold
<1> QED
  BY <1>3, <1>4, <1>5 DEF Exchange

\* A reply to a request, and what it leaves of the order in the book.
Apt(cmd, kind, book) ==
    /\ cmd.kind = "new" => kind \in {"ack", "rej"}
    /\ cmd.kind = "mod" => kind \in {"mod", "cxl", "replrej"}
    /\ cmd.kind = "cxl" => kind \in {"cxl", "cxlrej"}
    /\ book.st = "live" => book.qty > book.cum
    /\ kind \in {"ack", "mod"} => book.st = "live"
    /\ kind \in {"rej", "cxl"} => book.st = "dead"
    /\ kind \in {"cxlrej", "replrej"} => book = ex[cmd.o]

LEMMA SendTold == ASSUME IInv, IInv', ToldInv, Send PROVE ToldInv'
<1> DEFINE cmd == Head(cmds)
<1>1. cmds # <<>> /\ cmds' = Tail(cmds) /\ (Accept(cmd) \/ Reject(cmd))
  BY DEF Send
<1>2. UNCHANGED <<stored, prev, zmq, raptor, reports, told, spoiled>>
  BY DEF Send
<1>3. cmd \in Commands /\ 1 \in DOMAIN cmds /\ cmds[1] = cmd
  BY <1>1, TailShifts DEF IInv, Types
<1>d. cmd = Head(cmds)
  OBVIOUS
<1> HIDE DEF cmd
<1>o. PICK o \in Orders : o = cmd.o
  BY <1>3 DEF Commands
<1>4. /\ ex[o] \in ExBooks /\ ex[o].cum \in Nat /\ ex[o].qty \in Int
      /\ ex[o].st = "live" => ex[o].qty > ex[o].cum
      /\ cmd.leaves \in Int /\ cmd.fill \in Nat
  BY <1>3, BookFacts DEF ToldInv, Shapes, Commands
<1>5. cmd.kind = "new" => cmd.leaves > 0 /\ ex[o].st = "none"
  BY <1>3, <1>o DEF ToldInv, Shapes, IInv, NewOnce
<1>6. ASSUME NEW kind \in {"ack", "mod", "cxl", "rej", "cxlrej", "replrej"},
             NEW book \in ExBooks, NEW again \in Flags,
             Emit(kind, cmd.o, 0, book, again), Apt(cmd, kind, book)
      PROVE  ToldInv'
  <2>1. Emit(kind, o, 0, book, again)
    BY <1>o, <1>6
  <2>2. again \in {"no", "retransmit", "status"} /\ again # "status" /\ 0 \in Nat
        /\ kind \in {"ack", "mod", "cxl", "rej", "cxlrej", "replrej", "fill", "elim", "status"}
        /\ book \in ExBooks
    BY <1>6 DEF Flags
  <2>e. /\ ex'[o] = book /\ \A x \in Orders : x # o => ex'[x] = ex[x]
        /\ \E m \in Pods :
                /\ responses' = Append(responses, m) /\ m.o = o /\ m.kind = kind
                /\ m.last = 0 /\ m.again = again /\ m.leaves = Open(o)'
    BY <2>1, <2>2, Emitted
  <2>3. ex'[o] = book /\ \A x \in Orders : x # o => ex'[x] = ex[x]
    BY <2>e
  <2>4. PICK m \in Pods : /\ responses' = Append(responses, m) /\ m.o = o /\ m.kind = kind
                          /\ m.last = 0 /\ m.again = again /\ m.leaves = Open(o)'
    BY <2>e
  <2>5. Open(o)' = IF book.st = "live" THEN book.qty - book.cum ELSE 0
    BY <2>3 DEF Open
  <2>6. book.qty \in Int /\ book.cum \in Nat
    BY <2>2 DEF ExBooks
  <2>7. /\ m.leaves >= 0 /\ (book.st = "live" => m.leaves > 0)
        /\ (book.st = "dead" => m.leaves = 0)
    <3>1. book.st = "live" => book.qty > book.cum
      BY <1>6 DEF Apt
    <3> QED
      BY <2>4, <2>5, <2>6, <3>1
  <2>8. Shape(m)
    BY <1>6, <2>4, <2>7 DEF Shape, Apt
  <2>9. Silent(m) => Open(o)' = Open(o)
    <3>1. CASE kind \in {"cxlrej", "replrej"}
      BY <1>6, <1>o, <2>5, <3>1 DEF Open, Apt
    <3>2. CASE kind = "rej"
      <4>1. cmd.kind = "new"
        BY <1>3, <1>6, <3>2 DEF Commands, Apt
      <4>2. book.st = "dead"
        BY <1>6, <3>2 DEF Apt
      <4> QED
        BY <1>5, <2>5, <4>1, <4>2 DEF Open
    <3> QED
      BY <2>2, <2>4, <3>1, <3>2 DEF Silent
  <2>10. Asked(m)
    <3>1. Fits(cmd.kind, m)
      BY <1>6, <2>4 DEF Fits, Apt
    <3> QED
      BY <1>1, <1>d, <1>o, <2>4, <3>1 DEF Asked
  <2>11. ex'[o].st = "live" => ex'[o].qty > ex'[o].cum
    BY <1>6, <2>3 DEF Apt
  <2> QED
    BY <1>2, <2>3, <2>4, <2>8, <2>9, <2>10, <2>11, MessageTold
<1> DEFINE dead == [ex[cmd.o] EXCEPT !.st = "dead"]
           more == [ex[cmd.o] EXCEPT !.qty = OrderQty(cmd)]
           fresh == [st |-> "live", qty |-> cmd.leaves, cum |-> 0]
<1>7. /\ dead \in ExBooks /\ dead.st = "dead"
      /\ more \in ExBooks /\ more.st = ex[o].st
  BY <1>4, <1>o DEF ExBooks, OrderQty
<1>8. cmd.kind = "new" => fresh \in ExBooks /\ fresh.qty > fresh.cum /\ fresh.st = "live"
  BY <1>4, <1>5 DEF ExBooks
<1>9. \/ cmd.kind = "new" /\ Reply(cmd, "ack", fresh)
      \/ /\ cmd.kind = "mod" /\ ex[cmd.o].st = "live" /\ more.qty > more.cum
         /\ Reply(cmd, "mod", more)
      \/ cmd.kind \in {"mod", "cxl"} /\ Reply(cmd, "cxl", dead)
      \/ cmd.kind = "new" /\ Reply(cmd, "rej", dead)
      \/ cmd.kind = "mod" /\ Reply(cmd, "replrej", ex[cmd.o])
      \/ cmd.kind = "cxl" /\ Reply(cmd, "cxlrej", ex[cmd.o])
  <2>1. CASE Accept(cmd)
    BY <2>1 DEF Accept, AcceptNew, AcceptModify
  <2>2. CASE Reject(cmd)
    BY <2>2 DEF Reject
  <2> QED
    BY <1>1, <2>1, <2>2
<1> HIDE DEF dead, more, fresh
<1> DEFINE Replied == \E kind \in {"ack", "mod", "cxl", "rej", "cxlrej", "replrej"},
                         book \in ExBooks, again \in Flags :
                            Emit(kind, cmd.o, 0, book, again) /\ Apt(cmd, kind, book)
<1>10. CASE cmd.kind = "new" /\ Reply(cmd, "ack", fresh)
  <2>1. Apt(cmd, "ack", fresh)
    BY <1>8, <1>10 DEF Apt
  <2>2. \E again \in Flags : Emit("ack", cmd.o, 0, fresh, again)
    BY <1>10 DEF Reply
  <2>3. Replied
    BY <1>8, <1>10, <2>1, <2>2
  <2> QED
    BY <1>6, <2>3
<1>11. CASE /\ cmd.kind = "mod" /\ ex[cmd.o].st = "live" /\ more.qty > more.cum
            /\ Reply(cmd, "mod", more)
  <2>1. Apt(cmd, "mod", more)
    BY <1>7, <1>11, <1>o DEF Apt
  <2>2. \E again \in Flags : Emit("mod", cmd.o, 0, more, again)
    BY <1>11 DEF Reply
  <2>3. Replied
    BY <1>7, <2>1, <2>2
  <2> QED
    BY <1>6, <2>3
<1>12. CASE cmd.kind \in {"mod", "cxl"} /\ Reply(cmd, "cxl", dead)
  <2>1. Apt(cmd, "cxl", dead)
    BY <1>7, <1>12 DEF Apt
  <2>2. \E again \in Flags : Emit("cxl", cmd.o, 0, dead, again)
    BY <1>12 DEF Reply
  <2>3. Replied
    BY <1>7, <2>1, <2>2
  <2> QED
    BY <1>6, <2>3
<1>13. CASE cmd.kind = "new" /\ Reply(cmd, "rej", dead)
  <2>1. Apt(cmd, "rej", dead)
    BY <1>7, <1>13 DEF Apt
  <2>2. \E again \in Flags : Emit("rej", cmd.o, 0, dead, again)
    BY <1>13 DEF Reply
  <2>3. Replied
    BY <1>7, <2>1, <2>2
  <2> QED
    BY <1>6, <2>3
<1>14. CASE cmd.kind = "mod" /\ Reply(cmd, "replrej", ex[cmd.o])
  <2>1. Apt(cmd, "replrej", ex[cmd.o])
    BY <1>4, <1>14, <1>o DEF Apt
  <2>2. \E again \in Flags : Emit("replrej", cmd.o, 0, ex[cmd.o], again)
    BY <1>14 DEF Reply
  <2>3. Replied
    BY <1>4, <1>o, <2>1, <2>2
  <2> QED
    BY <1>6, <2>3
<1>15. CASE cmd.kind = "cxl" /\ Reply(cmd, "cxlrej", ex[cmd.o])
  <2>1. Apt(cmd, "cxlrej", ex[cmd.o])
    BY <1>4, <1>15, <1>o DEF Apt
  <2>2. \E again \in Flags : Emit("cxlrej", cmd.o, 0, ex[cmd.o], again)
    BY <1>15 DEF Reply
  <2>3. Replied
    BY <1>4, <1>o, <2>1, <2>2
  <2> QED
    BY <1>6, <2>3
<1> QED
  BY <1>9, <1>10, <1>11, <1>12, <1>13, <1>14, <1>15

-----------------------------------------------------------------------------
(* The Raptor thread's steps.                                              *)

LEMMA TakenMessage ==
    ASSUME IInv, FillsInv, ToldInv, Pop, UNCHANGED <<cmds, ex>>,
           NEW m, m = Head(responses), NEW o \in Orders, o = m.o, Good(o)
    PROVE  /\ m \in Pods /\ Shape(m)
           /\ Brings(responses', o, m.leaves, Open(o)')
           /\ Silent(m) => m.leaves = View(o)
           /\ Requests(o)' = Requests(o)
           /\ m.kind \in Answers => Requests(o) = {} /\ Replies(o) = {m.kind} /\ Replies(o)' = {}
           /\ m.kind \notin Answers => Replies(o)' = Replies(o)
           /\ One(responses', o, Answers)
           /\ "new" \notin Requests(o)
           /\ BornFirst(responses', o) /\ ~Births(responses', o)
           /\ Born(m) => Unborn(o)
<1>1. Types /\ responses \in Seq(Pods) /\ responses # <<>> /\ responses' = Tail(responses)
  BY DEF IInv, Types, Pop
<1>2. Less(responses, responses', m, o) /\ Of(responses, o) \in SUBSET (Nat \ {0})
  <2>1. o = Head(responses).o => Less(responses, responses', Head(responses), o)
    BY <1>1, Taken
  <2>2. Of(responses, o) \in SUBSET (Nat \ {0})
    BY <1>1, OfPlaces
  <2> QED
    BY <2>1, <2>2
<1>3. m \in Pods /\ Shape(m)
  <2>1. Head(responses) \in Pods /\ Head(responses) = responses[1] /\ 1 \in DOMAIN responses
    BY <1>1, TailShifts
  <2> QED
    BY <2>1 DEF ToldInv, Shapes
<1>4. View(o) \in Int /\ Open(o)' = Open(o)
  BY <1>1, ViewType DEF Open
<1>5. Brings(responses', o, m.leaves, Open(o)') /\ (Silent(m) => m.leaves = View(o))
  <2>1. Brings(responses, o, View(o), Open(o))
    BY DEF Good, MessagesBring
  <2>2. Brings(responses', o, m.leaves, Open(o)) /\ (Silent(m) => m.leaves = View(o))
    BY <1>2, <1>4, <2>1, TakenBrings
  <2> QED
    BY <1>4, <2>2
<1>6. /\ m.kind \in Kinds(responses, o)
      /\ Kinds(responses', o) \subseteq Kinds(responses, o)
      /\ Kinds(responses, o) \subseteq Kinds(responses', o) \cup {m.kind}
      /\ One(responses, o, Answers) => One(responses', o, Answers)
      /\ One(responses, o, Answers) /\ m.kind \in Answers => Kinds(responses', o) \cap Answers = {}
      /\ BornFirst(responses, o) => ~Births(responses', o)
      /\ Born(m) => Births(responses, o)
  BY <1>2, TakenKinds
<1>7. One(responses, o, Answers) /\ (Requests(o) = {} \/ Replies(o) = {})
  BY DEF Good, OneAtATime
<1>8. ASSUME m.kind \in Answers
      PROVE  Requests(o) = {} /\ Replies(o) = {m.kind} /\ Replies(o)' = {}
  <2>1. m.kind \in Replies(o)
    BY <1>6, <1>8 DEF Replies
  <2>2. Replies(o)' = {}
    BY <1>6, <1>7, <1>8 DEF Replies
  <2>3. Replies(o) \subseteq {m.kind}
    BY <1>6, <2>2 DEF Replies
  <2> QED
    BY <1>7, <2>1, <2>2, <2>3
<1>9. m.kind \notin Answers => Replies(o)' = Replies(o)
  BY <1>6 DEF Replies
<1>10. /\ "new" \notin Requests(o) /\ BornFirst(responses, o)
       /\ Births(responses, o) => Unborn(o)
  BY <1>6 DEF Good, Birth
<1>11. ~Births(responses', o) /\ BornFirst(responses', o)
  BY <1>6, <1>10 DEF Births, BornFirst
<1>12. Requests(o)' = Requests(o)
  BY DEF Requests
<1> QED
  BY <1>3, <1>5, <1>6, <1>7, <1>8, <1>9, <1>10, <1>11, <1>12

LEMMA ReportPushed ==
    ASSUME Types, NEW r \in Reports, reports' = Append(reports, r), NEW o, o = r.o
    PROVE  More(reports, reports', r, o) /\ Of(reports, o) \in SUBSET (Nat \ {0})
<1>1. reports \in Seq(Reports) /\ reports' = Append(reports, r)
  BY DEF Types
<1>2. o = r.o => More(reports, reports', r, o)
  BY <1>1, Pushed
<1>3. Of(reports, o) \in SUBSET (Nat \ {0})
  BY <1>1, OfPlaces
<1> QED
  BY <1>2, <1>3

LEMMA DropTold == ASSUME IInv, IInv', FillsInv, ToldInv, Drop PROVE ToldInv'
<1>1. PICK m \in Pods : m = Head(responses)
  BY HeadFacts DEF Drop
<1>2. PICK o \in Orders : o = m.o
  BY DEF Pods
<1>3. /\ Pop /\ raptor = Idle /\ IsAgain(m) /\ Spoil(o, {m.again} \cap Mishaps)
      /\ UNCHANGED <<stored, prev, zmq, cmds, ex, raptor, reports, told>>
  BY <1>1, <1>2 DEF Drop
<1>4. /\ {m.again} \cap Mishaps \in SUBSET Mishaps
      /\ m.again \in {"no", "retransmit", "status"}
      /\ m.again = "status" => m.kind \in {"ack", "status"}
  BY <1>1, <1>3, HeadFacts
<1>5. Spoils /\ spoiled'[o] = spoiled[o] \cup ({m.again} \cap Mishaps)
  BY <1>3, <1>4, SpoilSpoils DEF FillsInv
<1>6. Types /\ Types'
  BY DEF IInv
<1>7. Only(o)
  BY <1>1, <1>2, <1>3 DEF Only, Touched, Pop
<1>8. Shapes'
  BY <1>3, <1>6, ShapesStay DEF ToldInv, Pop
<1>9. ASSUME spoiled'[o] = {}, Good(o) PROVE Good(o)'
  <2>1. m.again = "status"
    BY <1>3, <1>4, <1>5, <1>9 DEF Mishaps, IsAgain
  <2>2. m.kind \notin Answers /\ Silent(m)
    BY <1>4, <2>1 DEF Answers, Silent
  <2>3. /\ Brings(responses', o, View(o), Open(o)')
        /\ Requests(o)' = Requests(o) /\ Replies(o)' = Replies(o)
        /\ One(responses', o, Answers)
        /\ "new" \notin Requests(o)
        /\ BornFirst(responses', o) /\ ~Births(responses', o)
    BY <1>1, <1>2, <1>3, <1>9, <2>2, TakenMessage
  <2>4. /\ View(o)' = View(o)
        /\ (Unborn(o)' <=> Unborn(o)) /\ (Modifying(o)' <=> Modifying(o))
        /\ (Answering(o)' <=> Answering(o)) /\ (Restoring(o)' <=> Restoring(o))
        /\ (Applying(o)' <=> Applying(o)) /\ (ToldLater(o)' <=> ToldLater(o))
        /\ (CopyKept(o)' <=> CopyKept(o)) /\ (CopyTaken(o)' <=> CopyTaken(o))
    BY <1>3, ViewStays
  <2>5. MessagesBring(o)'
    BY <2>3, <2>4 DEF MessagesBring
  <2>6. ReportsTell(o)' /\ StateShows(o)'
    BY <1>3, <1>9, <2>4 DEF Good, ReportsTell, StateShows
  <2>7. CopyOf(o)' /\ CopyKept(o)' /\ CopyTaken(o)'
    BY <1>3, <1>9, <2>3, <2>4 DEF Good, CopyOf
  <2>8. OneAtATime(o)'
    BY <1>3, <1>9, <2>3, <2>4 DEF Good, OneAtATime
  <2>9. ModificationWaits(o)' /\ NotYet(o)'
    BY <1>3, <1>9, <2>3, <2>4 DEF Good, ModificationWaits, NotYet
  <2>10. Birth(o)'
    BY <2>3 DEF Birth
  <2> QED
    BY <2>5, <2>6, <2>7, <2>8, <2>9, <2>10 DEF Good
<1> QED
  BY <1>5, <1>6, <1>7, <1>8, <1>9, AllGood

\* What a message makes of the record, where no message was lost.
LEMMA UpdatedShows ==
    ASSUME NEW m \in Pods, m.kind \in {"ack", "mod", "cxl", "elim", "fill", "status"}, Shape(m),
           stored[m.o] \in Recs, m.again \in {"no", "status"},
           m.again = "status" => m.kind \in {"ack", "status"},
           stored[m.o].fill + m.last <= m.cum
    PROVE  /\ Updated(m).status \notin {"none", "sent_new", "sent_mod"}
           /\ Updated(m).leaves = m.leaves
           /\ Updated(m).state = "WORKING" <=> m.leaves > 0
           /\ Updated(m).fill \in Nat /\ stored[m.o].fill <= Updated(m).fill
           /\ m.kind = "fill" => stored[m.o].fill < Updated(m).fill
<1>1. /\ m.leaves \in Int /\ m.cum \in Nat /\ m.last \in Nat /\ stored[m.o].fill \in Nat
      /\ m.leaves >= 0 /\ (m.kind = "fill" => m.last > 0)
      /\ m.kind \in {"ack", "mod"} => m.leaves > 0
  BY DEF Pods, Recs, Shape
<1>2. StatusOf(m) \notin {"none", "sent_new", "sent_mod"}
  BY DEF StatusOf
<1>3. StateOf(m) = "WORKING" <=> m.leaves > 0
  BY <1>1 DEF StateOf
<1>4. Base(m) \in Recs /\ stored[m.o].fill <= Base(m).fill /\ (~IsAgain(m) => Base(m) = stored[m.o])
  <2>1. CASE ~IsAgain(m)
    BY <1>1, <2>1 DEF Base
  <2>2. CASE IsAgain(m)
    <3>1. m.kind # "elim"
      BY <2>2 DEF IsAgain
    <3>2. AsLoaded(m).fill = m.cum
      BY <3>1 DEF AsLoaded
    <3>3. AsLoaded(m) \in Recs
      BY <3>1, StatusKnown DEF AsLoaded, Recs, Pods, Names
    <3>4. stored[m.o].fill <= m.cum
      BY <1>1
    <3> QED
      BY <2>2, <3>2, <3>3, <3>4 DEF Base
  <2> QED
    BY <2>1, <2>2
<1> DEFINE b == Base(m)
           n == IF IsAgain(m) THEN 0 ELSE m.last
<1>5. b \in Recs /\ b.fill \in Nat /\ n \in Nat /\ stored[m.o].fill <= b.fill
  BY <1>1, <1>4 DEF Recs
<1>6. m.kind = "fill" => n > 0
  BY <1>1 DEF IsAgain
<1>7. CASE m.kind \in {"fill", "status"}
  <2>1. /\ Updated(m).status = StatusOf(m) /\ Updated(m).state = StateOf(m)
        /\ Updated(m).leaves = m.leaves /\ Updated(m).fill = b.fill + n
    BY <1>5, <1>7 DEF Updated, MinOrderExecution, Recs
  <2> HIDE DEF b, n
  <2>2. b.fill + n \in Nat /\ stored[m.o].fill <= b.fill + n
    BY <1>1, <1>5
  <2>3. m.kind = "fill" => stored[m.o].fill < b.fill + n
    BY <1>1, <1>5, <1>6
  <2> QED
    BY <1>2, <1>3, <2>1, <2>2, <2>3
<1>8. CASE m.kind \notin {"fill", "status"}
  <2>1. /\ Updated(m).status = StatusOf(m) /\ Updated(m).state = StateOf(m)
        /\ Updated(m).leaves = m.leaves /\ Updated(m).fill = b.fill
    BY <1>5, <1>8 DEF Updated, MinOrderUpdate, Recs
  <2> QED
    BY <1>2, <1>3, <1>5, <1>8, <2>1
<1> QED
  BY <1>7, <1>8

LEMMA ApplyTold == ASSUME IInv, IInv', FillsInv, ToldInv, Apply PROVE ToldInv'
<1>0. Pop
  BY DEF Apply
<1>1. PICK m \in Pods : m = Head(responses)
  BY <1>0, HeadFacts
<1>2. PICK o \in Orders : o = m.o
  BY DEF Pods
<1>3. /\ raptor = Idle /\ m.kind \in {"ack", "mod", "cxl", "elim", "fill", "status"}
      /\ stored' = [stored EXCEPT ![o] = Updated(m)]
      /\ raptor' = [pc |-> "report", o |-> o, pod |-> m]
      /\ Spoil(o, Raced(o) \cup ({m.again} \cap Mishaps))
      /\ UNCHANGED <<prev, zmq, cmds, ex, reports, told>>
  BY <1>1, <1>2 DEF Apply
<1>4. /\ {m.again} \cap Mishaps \in SUBSET Mishaps
      /\ m.again \in {"no", "retransmit", "status"}
      /\ m.again = "status" => m.kind \in {"ack", "status"}
      /\ m.kind = "status" => m.again = "status"
  BY <1>0, <1>1, HeadFacts
<1>5. Spoils /\ spoiled'[o] = spoiled[o] \cup (Raced(o) \cup ({m.again} \cap Mishaps))
  <2>1. Raced(o) \cup ({m.again} \cap Mishaps) \in SUBSET Mishaps
    BY <1>4 DEF Raced, Mishaps
  <2> QED
    BY <1>3, <2>1, SpoilSpoils DEF FillsInv
<1>6. Types /\ Types'
  BY DEF IInv
<1>s. stored'[o] = Updated(m) /\ \A x \in Orders : x # o => stored'[x] = stored[x]
  BY <1>3, <1>6 DEF Types
<1>r. raptor'.pc = "report" /\ raptor'.o = o /\ raptor'.pod = m
  BY <1>3
<1>u. UNCHANGED <<prev, zmq, cmds, ex, reports, told>>
  BY <1>3
<1>7. Only(o)
  <2>1. raptor.o = None
    BY <1>3 DEF Idle
  <2> QED
    BY <1>0, <1>1, <1>2, <1>s, <1>r, <1>u, <2>1 DEF Only, Touched, Pop
<1>8. Shapes'
  BY <1>0, <1>6, <1>u, ShapesStay DEF ToldInv, Pop
<1>9. ASSUME spoiled'[o] = {}, Good(o) PROVE Good(o)'
  <2>1. m.again \in {"no", "status"} /\ zmq.o # o
    BY <1>4, <1>5, <1>9 DEF Mishaps, Raced
  <2>2. m.kind \notin Answers \/ m.kind \in {"mod", "cxl"}
    BY <1>3 DEF Answers
  <2>3. /\ Shape(m)
        /\ Brings(responses', o, m.leaves, Open(o)') /\ (Silent(m) => m.leaves = View(o))
        /\ Requests(o)' = Requests(o)
        /\ m.kind \in Answers => Requests(o) = {} /\ Replies(o) = {m.kind} /\ Replies(o)' = {}
        /\ m.kind \notin Answers => Replies(o)' = Replies(o)
        /\ One(responses', o, Answers)
        /\ "new" \notin Requests(o)
        /\ BornFirst(responses', o) /\ ~Births(responses', o)
        /\ Born(m) => Unborn(o)
    BY <1>0, <1>1, <1>2, <1>u, <1>9, TakenMessage
  <2>4. /\ stored[o] \in Recs /\ stored[o].fill \in Nat
        /\ stored[o].fill + m.last <= m.cum
    <3>1. stored[o] \in Recs /\ stored[o].fill \in Nat
      BY <1>6 DEF Types, Recs
    <3>2. 1 \in DOMAIN responses /\ responses[1] = m
      BY <1>0, <1>1, <1>6, TailShifts DEF Types, Pop
    <3>3. stored[o].fill + m.last <= m.cum
      BY <1>2, <3>2 DEF IInv, CountsUp, MessageCounts
    <3> QED
      BY <3>1, <3>3
  <2>5. /\ stored'[o].status \notin {"none", "sent_new", "sent_mod"}
        /\ stored'[o].leaves = m.leaves
        /\ stored'[o].state = "WORKING" <=> m.leaves > 0
        /\ stored'[o].fill \in Nat /\ stored[o].fill <= stored'[o].fill
        /\ m.kind = "fill" => stored[o].fill < stored'[o].fill
    BY <1>2, <1>3, <1>4, <1>s, <2>1, <2>3, <2>4, UpdatedShows
  <2>6. ~Unborn(o)' /\ ~Modifying(o)' /\ View(o)' = m.leaves
    <3>1. ~Unborn(o)' /\ ~Modifying(o)'
      BY <2>5 DEF Unborn, Modifying
    <3> QED
      BY <2>5, <3>1 DEF View
  <2>7. ToldLater(o)' /\ ~Answering(o)' /\ ~Answering(o) /\ ~Forgetting(o) /\ ~Restoring(o)
    <3>1. raptor.o # o
      BY <1>3, OrderConstants DEF Idle
    <3> QED
      BY <1>r, <3>1 DEF ToldLater, Answering, Forgetting, Applying, Restoring
  <2>8. MessagesBring(o)' /\ ReportsTell(o)' /\ StateShows(o)'
    BY <2>3, <2>5, <2>6, <2>7 DEF MessagesBring, ReportsTell, StateShows
  <2>9. CopyOf(o)' /\ CopyTaken(o)'
    BY <1>u, <2>1, <2>7 DEF CopyOf, CopyTaken
  <2>10. CopyKept(o)'
    <3> SUFFICES ASSUME prev[o] # NoEntry PROVE WasAsNow(prev[o], o)'
      BY <1>u DEF CopyKept
    <3>1. WasAsNow(prev[o], o)
      BY <1>9 DEF Good, CopyKept
    <3>2. prev[o].fill \in Nat
      BY <1>6 DEF Types, Recs
    <3>3. prev[o].fill <= stored'[o].fill
      <4>1. prev[o].fill <= stored[o].fill
        BY <3>1 DEF WasAsNow
      <4> QED
        BY <2>4, <2>5, <3>2, <4>1
    <3>4. ASSUME prev[o].fill = stored'[o].fill PROVE prev[o].leaves = m.leaves \/ Forgetting(o)'
      <4>1. prev[o].fill = stored[o].fill
        <5>1. prev[o].fill <= stored[o].fill
          BY <3>1 DEF WasAsNow
        <5> QED
          BY <2>4, <2>5, <3>2, <3>4, <5>1
      <4>2. prev[o].leaves = View(o)
        BY <2>7, <3>1, <4>1 DEF WasAsNow
      <4>3. m.kind # "fill"
        BY <2>4, <2>5, <3>4, <4>1
      <4>4. CASE m.kind \in {"mod", "cxl", "elim"}
        BY <1>r, <4>4 DEF Forgetting, Applying, Forgets
      <4>5. CASE m.kind = "ack"
        <5>1. ~Unborn(o)
          BY <1>9 DEF Good, NotYet
        <5>2. m.again = "status"
          BY <2>3, <4>5, <5>1 DEF Born
        <5> QED
          BY <2>3, <4>2, <5>2 DEF Silent
      <4>6. CASE m.kind = "status"
        BY <1>4, <2>3, <4>2, <4>6 DEF Silent
      <4> QED
        BY <1>3, <4>3, <4>4, <4>5, <4>6
    <3> QED
      BY <1>u, <2>6, <3>1, <3>3, <3>4 DEF WasAsNow
  <2>11. OneAtATime(o)'
    BY <1>u, <1>9, <2>3, <2>7 DEF Good, OneAtATime
  <2>12. ModificationWaits(o)' /\ NotYet(o)' /\ Birth(o)'
    BY <2>3, <2>6 DEF ModificationWaits, NotYet, Birth
  <2> QED
    BY <2>8, <2>9, <2>10, <2>11, <2>12 DEF Good
<1> QED
  BY <1>5, <1>6, <1>7, <1>8, <1>9, AllGood

\* A callback is at work for a known order whose state is resolved.
LEMMA CallbackOf ==
    ASSUME IInv, raptor # Idle
    PROVE  raptor.o \in Orders /\ raptor \in Reporting \cup Rejecting
BY DEF IInv, Types, Reporting, Rejecting

LEMMA ProcessOrderTold == ASSUME IInv, IInv', FillsInv, ToldInv, ProcessOrder PROVE ToldInv'
<1>1. raptor.pc = "report" /\ raptor # Idle
  BY DEF ProcessOrder, Idle
<1>2. PICK o \in Orders : o = raptor.o
  BY <1>1, CallbackOf
<1>3. PICK r : r = [o |-> o, ord |-> stored[o], rejected |-> FALSE]
  OBVIOUS
<1>4. /\ reports' = Append(reports, r)
      /\ raptor' = IF Forgets(raptor.pod) THEN [raptor EXCEPT !.pc = "forget"] ELSE Idle
      /\ UNCHANGED <<stored, prev, zmq, cmds, ex, responses, told, spoiled>>
  BY <1>2, <1>3 DEF ProcessOrder, Report, Push
<1>5. Types /\ Types'
  BY DEF IInv
<1>6. r \in Reports /\ r.o = o /\ r.ord = stored[o] /\ ~r.rejected
  BY <1>3, <1>5 DEF Reports, Types
<1>7. \/ ~Forgets(raptor.pod) /\ raptor' = Idle /\ raptor'.o # o /\ raptor'.o = None
      \/ /\ Forgets(raptor.pod) /\ raptor'.pc = "forget" /\ raptor'.o = o
         /\ raptor'.pod = raptor.pod
  <2>1. raptor \in Reporting
    BY <1>1, CallbackOf DEF Rejecting
  <2>2. CASE Forgets(raptor.pod)
    BY <1>2, <1>4, <2>1, <2>2 DEF Reporting
  <2>3. CASE ~Forgets(raptor.pod)
    BY <1>4, <2>3, OrderConstants DEF Idle
  <2> QED
    BY <2>2, <2>3
<1>u. UNCHANGED <<stored, prev, zmq, cmds, ex, responses, told, spoiled>>
  BY <1>4
<1>8. Only(o)
  BY <1>2, <1>4, <1>6, <1>7 DEF Only, Touched
<1>9. Shapes'
  BY <1>5, <1>u, ShapesStay DEF ToldInv
<1>10. More(reports, reports', r, o) /\ Of(reports, o) \in SUBSET (Nat \ {0})
  BY <1>4, <1>5, <1>6, ReportPushed
<1>11. ASSUME Good(o) PROVE Good(o)'
  <2>1. Applying(o) /\ ~Answering(o) /\ ~Restoring(o) /\ (Forgetting(o) <=> Forgets(raptor.pod))
    BY <1>1, <1>2 DEF Applying, Answering, Restoring, Forgetting
  <2>2. ~Modifying(o) /\ ~Unborn(o) /\ zmq.o # o
    BY <1>2, <1>11, <2>1 DEF Good, ModificationWaits, NotYet, CopyOf
  <2>3. /\ ~Modifying(o)' /\ ~Unborn(o)' /\ ~Answering(o)'
        /\ View(o)' = View(o) /\ View(o) = stored[o].leaves
        /\ (Forgetting(o)' <=> Forgetting(o)) /\ Open(o)' = Open(o)
        /\ Requests(o)' = Requests(o) /\ Replies(o)' = Replies(o)
    <3>1. ~Modifying(o)' /\ ~Unborn(o)'
      BY <1>u, <2>2 DEF Modifying, Unborn
    <3>2. ~Answering(o)'
      BY <1>7 DEF Answering
    <3>3. View(o) = stored[o].leaves /\ View(o)' = stored[o].leaves
      BY <1>u, <2>2, <3>1 DEF View
    <3>4. Forgetting(o)' <=> Forgets(raptor.pod)
      BY <1>7 DEF Forgetting, Applying, Forgets
    <3>5. Open(o)' = Open(o) /\ Requests(o)' = Requests(o) /\ Replies(o)' = Replies(o)
      BY <1>u DEF Open, Requests, Replies
    <3> QED
      BY <2>1, <3>1, <3>2, <3>3, <3>4, <3>5
  <2>4. MessagesBring(o)' /\ StateShows(o)'
    BY <1>u, <1>11, <2>3 DEF Good, MessagesBring, StateShows
  <2>5. ReportsTell(o)'
    <3>1. stored[o].state = "WORKING" <=> View(o) > 0
      BY <1>11 DEF Good, StateShows
    <3>2. \A k : Tells(reports', o, k, View(o))
      BY <1>6, <1>10, <2>3, <3>1, PushedTells
    <3> QED
      BY <2>3, <3>2 DEF ReportsTell
  <2>6. CopyOf(o)' /\ CopyTaken(o)'
    BY <1>u, <2>2, <2>3 DEF CopyOf, CopyTaken
  <2>7. CopyKept(o)'
    BY <1>u, <1>11, <2>3 DEF Good, CopyKept, WasAsNow
  <2>8. OneAtATime(o)' /\ ModificationWaits(o)'
    BY <1>u, <1>11, <2>3 DEF Good, OneAtATime, ModificationWaits
  <2>9. NotYet(o)' /\ Birth(o)'
    BY <1>u, <1>11, <2>2, <2>3 DEF Good, NotYet, Birth
  <2> QED
    BY <2>4, <2>5, <2>6, <2>7, <2>8, <2>9 DEF Good
<1> QED
  BY <1>u, <1>5, <1>8, <1>9, <1>11, AllGood

LEMMA ForgetTold == ASSUME IInv, IInv', FillsInv, ToldInv, Forget PROVE ToldInv'
<1>1. raptor.pc = "forget" /\ raptor # Idle
  BY DEF Forget, Idle
<1>2. PICK o \in Orders : o = raptor.o
  BY <1>1, CallbackOf
<1>3. /\ prev' = [prev EXCEPT ![o] = NoEntry] /\ raptor' = Idle
      /\ UNCHANGED <<stored, zmq, cmds, ex, responses, reports, told, spoiled>>
  BY <1>2 DEF Forget
<1>4. Types /\ Types'
  BY DEF IInv
<1>5. /\ prev'[o] = NoEntry /\ \A x \in Orders : x # o => prev'[x] = prev[x]
  BY <1>3, <1>4 DEF Types
<1>6. raptor'.o = None /\ raptor'.o # o
  BY <1>3, OrderConstants DEF Idle
<1>u. UNCHANGED <<stored, zmq, cmds, ex, responses, reports, told, spoiled>>
  BY <1>3
<1>7. Only(o)
  BY <1>2, <1>5, <1>6, <1>u DEF Only, Touched
<1>8. Shapes'
  BY <1>4, <1>u, ShapesStay DEF ToldInv
<1>9. ASSUME Good(o) PROVE Good(o)'
  <2>1. Applying(o) /\ ~Answering(o) /\ ~Restoring(o) /\ raptor.pc # "report"
    BY <1>1, <1>2 DEF Applying, Answering, Restoring
  <2>2. ~Modifying(o) /\ ~Unborn(o) /\ zmq.o # o
    BY <1>2, <1>9, <2>1 DEF Good, ModificationWaits, NotYet, CopyOf
  <2>3. /\ ~Modifying(o)' /\ ~Unborn(o)' /\ ~Answering(o)' /\ ~Applying(o)'
        /\ View(o)' = View(o) /\ Open(o)' = Open(o) /\ ~ToldLater(o)
        /\ Requests(o)' = Requests(o) /\ Replies(o)' = Replies(o)
    <3>1. ~Modifying(o)' /\ ~Unborn(o)' /\ ~Answering(o)' /\ ~Applying(o)'
      BY <1>u, <1>6, <2>2 DEF Modifying, Unborn, Answering, Applying
    <3>2. View(o)' = View(o)
      BY <1>u, <2>2, <3>1 DEF View
    <3>3. ~ToldLater(o)
      BY <2>1, <2>2 DEF ToldLater
    <3> QED
      BY <1>u, <3>1, <3>2, <3>3 DEF Open, Requests, Replies
  <2>4. MessagesBring(o)' /\ ReportsTell(o)' /\ StateShows(o)'
    BY <1>u, <1>9, <2>3 DEF Good, MessagesBring, ReportsTell, StateShows
  <2>5. CopyOf(o)' /\ CopyTaken(o)' /\ CopyKept(o)'
    BY <1>u, <1>5, <2>2, <2>3 DEF CopyOf, CopyTaken, CopyKept
  <2>6. OneAtATime(o)' /\ ModificationWaits(o)'
    BY <1>u, <1>9, <2>3 DEF Good, OneAtATime, ModificationWaits
  <2>7. NotYet(o)' /\ Birth(o)'
    BY <1>u, <1>9, <2>2, <2>3 DEF Good, NotYet, Birth
  <2> QED
    BY <2>4, <2>5, <2>6, <2>7 DEF Good
<1> QED
  BY <1>u, <1>4, <1>7, <1>8, <1>9, AllGood

LEMMA MinOrderRejectTold == ASSUME IInv, IInv', FillsInv, ToldInv, MinOrderReject PROVE ToldInv'
<1>0. Pop
  BY DEF MinOrderReject
<1>1. PICK m \in Pods : m = Head(responses)
  BY <1>0, HeadFacts
<1>2. PICK o \in Orders : o = m.o
  BY DEF Pods
<1>3. PICK ord : ord = [NoPod EXCEPT !.status = "REJECTED", !.state = "COMPLETE"]
  OBVIOUS
<1>r. PICK r : r = [o |-> o, ord |-> ord, rejected |-> FALSE]
  OBVIOUS
<1>4. /\ raptor = Idle /\ m.kind = "rej" /\ reports' = Append(reports, r)
      /\ UNCHANGED <<stored, prev, zmq, cmds, ex, raptor, told, spoiled>>
  BY <1>1, <1>2, <1>3, <1>r DEF MinOrderReject, Report, Push
<1>5. Types /\ Types'
  BY DEF IInv
<1>6. /\ r \in Reports /\ r.o = o /\ r.ord.state = "COMPLETE" /\ r.ord.leaves = 0
      /\ ~r.rejected
  <2>1. ord \in Recs
    BY <1>3, NoPodIsRecord DEF Recs, Statuses, States
  <2>2. ord.state = "COMPLETE" /\ ord.leaves = 0
    BY <1>3 DEF NoPod
  <2> QED
    BY <1>r, <2>1, <2>2 DEF Reports
<1>7. Only(o)
  BY <1>0, <1>1, <1>2, <1>4, <1>6 DEF Only, Touched, Pop
<1>8. Shapes'
  BY <1>0, <1>4, <1>5, ShapesStay DEF ToldInv, Pop
<1>9. More(reports, reports', r, o) /\ Of(reports, o) \in SUBSET (Nat \ {0})
  BY <1>4, <1>5, <1>6, ReportPushed
<1>u. UNCHANGED <<stored, prev, zmq, cmds, ex, raptor, told, spoiled>>
  BY <1>4
<1>10. ASSUME Good(o) PROVE Good(o)'
  <2>1. m.kind \notin Answers /\ Silent(m)
    BY <1>4 DEF Answers, Silent
  <2>2. /\ Shape(m) /\ Brings(responses', o, m.leaves, Open(o)') /\ m.leaves = View(o)
        /\ Requests(o)' = Requests(o) /\ Replies(o)' = Replies(o)
        /\ One(responses', o, Answers)
        /\ "new" \notin Requests(o)
        /\ BornFirst(responses', o) /\ ~Births(responses', o)
    BY <1>0, <1>1, <1>2, <1>4, <1>10, <2>1, TakenMessage
  <2>3. View(o) = 0
    BY <1>4, <2>2 DEF Shape
  <2>4. /\ View(o)' = View(o)
        /\ (Unborn(o)' <=> Unborn(o)) /\ (Modifying(o)' <=> Modifying(o))
        /\ (Answering(o)' <=> Answering(o)) /\ (Restoring(o)' <=> Restoring(o))
        /\ (Applying(o)' <=> Applying(o)) /\ (ToldLater(o)' <=> ToldLater(o))
        /\ (CopyKept(o)' <=> CopyKept(o)) /\ (CopyTaken(o)' <=> CopyTaken(o))
    BY <1>u, ViewStays
  <2>5. MessagesBring(o)' /\ StateShows(o)'
    BY <1>u, <1>10, <2>2, <2>4 DEF Good, MessagesBring, StateShows
  <2>6. ReportsTell(o)'
    <3>1. \A k : Tells(reports', o, k, View(o))
      BY <1>6, <1>9, <2>3, PushedTells
    <3> QED
      BY <2>4, <3>1 DEF ReportsTell
  <2>7. CopyOf(o)' /\ CopyKept(o)' /\ CopyTaken(o)'
    BY <1>u, <1>10, <2>2, <2>4 DEF Good, CopyOf
  <2>8. OneAtATime(o)' /\ ModificationWaits(o)'
    BY <1>u, <1>10, <2>2, <2>4 DEF Good, OneAtATime, ModificationWaits
  <2>9. NotYet(o)'
    <3>1. Idles(reports, o) => Idles(reports', o)
      BY <1>6, <1>9, PushedIdles
    <3> QED
      BY <1>u, <1>10, <2>2, <2>4, <3>1 DEF Good, NotYet
  <2>10. Birth(o)'
    BY <2>2 DEF Birth
  <2> QED
    BY <2>5, <2>6, <2>7, <2>8, <2>9, <2>10 DEF Good
<1> QED
  BY <1>u, <1>5, <1>7, <1>8, <1>10, AllGood

LEMMA TakeSnapshotTold == ASSUME IInv, IInv', FillsInv, ToldInv, TakeSnapshot PROVE ToldInv'
<1>0. Pop
  BY DEF TakeSnapshot
<1>1. PICK m \in Pods : m = Head(responses)
  BY <1>0, HeadFacts
<1>2. PICK o \in Orders : o = m.o
  BY DEF Pods
<1>3. /\ raptor = Idle /\ m.kind \in {"cxlrej", "replrej"}
      /\ prev' = [prev EXCEPT ![o] = NoEntry]
      /\ raptor' = IF m.kind = "replrej" /\ prev[o] = NoEntry THEN Idle
                   ELSE [pc |-> m.kind, o |-> o, pod |-> m, old |-> prev[o]]
      /\ Spoil(o, Raced(o))
      /\ UNCHANGED <<stored, zmq, cmds, ex, reports, told>>
  BY <1>1, <1>2 DEF TakeSnapshot
<1>4. Types /\ Types'
  BY DEF IInv
<1>5. Spoils /\ spoiled'[o] = spoiled[o] \cup Raced(o)
  <2>1. Raced(o) \in SUBSET Mishaps
    BY DEF Raced, Mishaps
  <2> QED
    BY <1>3, <2>1, SpoilSpoils DEF FillsInv
<1>6. /\ prev'[o] = NoEntry /\ \A x \in Orders : x # o => prev'[x] = prev[x]
  BY <1>3, <1>4 DEF Types
<1>7. /\ raptor.o = None /\ raptor.o # o
      /\ \/ /\ raptor' = Idle /\ raptor'.o = None /\ raptor'.o # o
            /\ m.kind = "replrej" /\ prev[o] = NoEntry
         \/ /\ raptor'.pc = m.kind /\ raptor'.o = o /\ raptor'.old = prev[o]
            /\ m.kind = "cxlrej" \/ prev[o] # NoEntry
  BY <1>3, OrderConstants DEF Idle
<1>u. UNCHANGED <<stored, zmq, cmds, ex, reports, told>>
  BY <1>3
<1>8. Only(o)
  BY <1>0, <1>1, <1>2, <1>6, <1>7, <1>u DEF Only, Touched, Pop
<1>9. Shapes'
  BY <1>0, <1>4, <1>u, ShapesStay DEF ToldInv, Pop
<1>10. ASSUME spoiled'[o] = {}, Good(o) PROVE Good(o)'
  <2>1. zmq.o # o
    BY <1>5, <1>10 DEF Raced
  <2>2. m.kind \in Answers /\ Silent(m)
    BY <1>3 DEF Answers, Silent
  <2>3. /\ Brings(responses', o, View(o), Open(o)')
        /\ Requests(o)' = Requests(o)
        /\ Requests(o) = {} /\ Replies(o) = {m.kind} /\ Replies(o)' = {}
        /\ One(responses', o, Answers)
        /\ BornFirst(responses', o) /\ ~Births(responses', o)
    BY <1>0, <1>1, <1>2, <1>u, <1>10, <2>2, TakenMessage
  <2>4. ~Answering(o) /\ ~Restoring(o) /\ ~Forgetting(o) /\ ~Unborn(o)
    BY <1>7, <1>10, <2>3 DEF Good, NotYet, Answering, Restoring, Forgetting, Applying
  <2>5. ~Unborn(o)' /\ (Modifying(o)' <=> Modifying(o))
    BY <1>u, <2>4 DEF Unborn, Modifying
  <2>6. Modifying(o) => prev[o] # NoEntry /\ m.kind = "replrej"
    <3>1. Modifying(o) => prev[o] # NoEntry /\ \E k \in Replies(o) : k # "cxlrej"
      BY <1>10, <2>3, <2>4 DEF Good, ModificationWaits
    <3> QED
      BY <1>3, <2>3, <3>1
  <2>7. Modifying(o) => Restoring(o)' /\ raptor'.old = prev[o]
    BY <1>7, <2>6 DEF Restoring
  <2>8. View(o)' = View(o)
    <3>1. CASE Modifying(o)
      BY <2>4, <2>5, <2>7, <3>1 DEF View
    <3>2. CASE ~Modifying(o)
      BY <1>u, <2>4, <2>5, <3>2 DEF View
    <3> QED
      BY <3>1, <3>2
  <2>9. ToldLater(o)' <=> ToldLater(o)
    BY <1>3, <1>7, <2>5 DEF ToldLater
  <2>10. MessagesBring(o)'
    BY <2>3, <2>8 DEF MessagesBring
  <2>11. ReportsTell(o)' /\ StateShows(o)'
    BY <1>u, <1>10, <2>8, <2>9 DEF Good, ReportsTell, StateShows
  <2>12. CopyOf(o)' /\ CopyKept(o)'
    BY <1>u, <1>6, <2>1 DEF CopyOf, CopyKept
  <2>13. CopyTaken(o)'
    <3>1. ASSUME Answering(o)' PROVE raptor'.old = prev[o] /\ raptor'.pc = m.kind
      BY <1>7, <3>1 DEF Answering
    <3>2. ASSUME prev[o] # NoEntry PROVE WasAsNow(prev[o], o)
      BY <1>10, <3>2 DEF Good, CopyKept
    <3>3. ASSUME Answering(o)', prev[o] = NoEntry PROVE raptor'.old = NoEntry /\ raptor'.pc = "cxlrej"
      BY <1>3, <1>7, <3>1, <3>3 DEF Answering
    <3>4. ASSUME Answering(o)', prev[o] # NoEntry PROVE WasAsNow(raptor.old, o)'
      <4>1. WasAsNow(prev[o], o) /\ raptor'.old = prev[o]
        BY <3>1, <3>2, <3>4
      <4> QED
        BY <1>u, <2>4, <2>8, <4>1 DEF WasAsNow
    <3> QED
      BY <3>3, <3>4 DEF CopyTaken
  <2>14. OneAtATime(o)'
    BY <1>u, <1>10, <2>3 DEF Good, OneAtATime
  <2>15. ModificationWaits(o)'
    <3>1. ~Applying(o)'
      BY <1>3, <1>7 DEF Applying
    <3> QED
      BY <2>5, <2>7, <3>1 DEF ModificationWaits
  <2>16. NotYet(o)' /\ Birth(o)'
    BY <2>3, <2>5 DEF NotYet, Birth
  <2> QED
    BY <2>10, <2>11, <2>12, <2>13, <2>14, <2>15, <2>16 DEF Good
<1> QED
  BY <1>4, <1>5, <1>8, <1>9, <1>10, AllGood

\* A rejection of a cancellation or a modification leaves the view of the order.
LEMMA RejectionTold ==
    ASSUME IInv, IInv', FillsInv, ToldInv, NEW o \in Orders, o = raptor.o,
           raptor.pc \in {"cxlrej", "replrej"}, raptor' = Idle, Spoils,
           NEW r \in Reports, r.o = o, reports' = Append(reports, r),
           UNCHANGED <<prev, zmq, cmds, ex, responses, told>>,
           \A x \in Orders : x # o => stored'[x] = stored[x],
           stored'[o].fill = stored[o].fill,
           spoiled'[o] = {} /\ Good(o) =>
                /\ zmq.o # o
                /\ stored'[o].status \notin {"none", "sent_new", "sent_mod"}
                /\ stored'[o].leaves = View(o)
                /\ stored'[o].state = "WORKING" <=> View(o) > 0
                /\ r.ord.state = "WORKING" <=> View(o) > 0
                /\ ~r.rejected => r.ord.leaves = View(o)
    PROVE  ToldInv'
<1>1. Types /\ Types'
  BY DEF IInv
<1>u. UNCHANGED <<prev, zmq, cmds, ex, responses, told>>
  OBVIOUS
<1>2. raptor'.o = None /\ raptor'.o # o /\ raptor'.pc = "idle"
  BY OrderConstants DEF Idle
<1>3. Only(o)
  BY <1>u, <1>2 DEF Only, Touched
<1>4. Shapes'
  BY <1>1, <1>u, ShapesStay DEF ToldInv
<1>5. More(reports, reports', r, o) /\ Of(reports, o) \in SUBSET (Nat \ {0})
  BY <1>1, ReportPushed
<1>6. ASSUME spoiled'[o] = {}, Good(o) PROVE Good(o)'
  <2>1. /\ zmq.o # o
        /\ stored'[o].status \notin {"none", "sent_new", "sent_mod"}
        /\ stored'[o].leaves = View(o)
        /\ stored'[o].state = "WORKING" <=> View(o) > 0
        /\ r.ord.state = "WORKING" <=> View(o) > 0
        /\ ~r.rejected => r.ord.leaves = View(o)
    BY <1>6
  <2>2. Answering(o) /\ ~Forgetting(o)
    BY DEF Answering, Forgetting, Applying
  <2>3. ~Unborn(o) /\ Requests(o) = {} /\ Replies(o) = {}
    BY <1>6, <2>2 DEF Good, NotYet, OneAtATime
  <2>4. /\ ~Unborn(o)' /\ ~Modifying(o)' /\ ~Answering(o)' /\ ~Applying(o)' /\ ~ToldLater(o)'
        /\ View(o)' = View(o)
    <3>1. ~Unborn(o)' /\ ~Modifying(o)'
      BY <2>1 DEF Unborn, Modifying
    <3>2. ~Answering(o)' /\ ~Applying(o)' /\ ~ToldLater(o)'
      BY <1>2, <3>1 DEF Answering, Applying, ToldLater
    <3>3. View(o)' = stored'[o].leaves
      BY <3>1 DEF View
    <3> QED
      BY <2>1, <3>1, <3>2, <3>3
  <2>5. Open(o)' = Open(o) /\ Requests(o)' = Requests(o) /\ Replies(o)' = Replies(o)
    BY <1>u DEF Open, Requests, Replies
  <2>6. MessagesBring(o)' /\ StateShows(o)'
    BY <1>u, <1>6, <2>1, <2>4, <2>5 DEF Good, MessagesBring, StateShows
  <2>7. ReportsTell(o)'
    <3>1. \A k : Tells(reports', o, k, View(o))
      BY <1>5, <2>1, PushedTells
    <3> QED
      BY <2>4, <3>1 DEF ReportsTell
  <2>8. CopyOf(o)' /\ CopyTaken(o)'
    BY <1>u, <2>1, <2>4 DEF CopyOf, CopyTaken
  <2>9. CopyKept(o)'
    <3>1. ASSUME NEW p, WasAsNow(p, o) PROVE WasAsNow(p, o)'
      BY <2>2, <2>4, <3>1 DEF WasAsNow
    <3> QED
      BY <1>u, <1>6, <3>1 DEF Good, CopyKept
  <2>10. OneAtATime(o)' /\ ModificationWaits(o)' /\ NotYet(o)'
    BY <1>u, <1>6, <2>4, <2>5 DEF Good, OneAtATime, ModificationWaits, NotYet
  <2>11. Birth(o)'
    BY <1>u, <1>6, <2>3, <2>5 DEF Good, Birth
  <2> QED
    BY <2>6, <2>7, <2>8, <2>9, <2>10, <2>11 DEF Good
<1> QED
  BY <1>1, <1>3, <1>4, <1>6, AllGood

LEMMA CancelRejectTold == ASSUME IInv, IInv', FillsInv, ToldInv, MinOrderCancelReject PROVE ToldInv'
<1>1. raptor.pc = "cxlrej" /\ raptor # Idle
  BY DEF MinOrderCancelReject, Idle
<1>2. PICK o \in Orders : o = raptor.o
  BY <1>1, CallbackOf
<1>3. raptor \in Rejecting
  BY <1>1, CallbackOf DEF Reporting
<1>4. PICK status : status = IF raptor.old = NoEntry THEN StatusOf(raptor.pod) ELSE raptor.old.status
  OBVIOUS
<1>5. PICK ord : ord = [stored[o] EXCEPT !.status = status]
  OBVIOUS
<1>6. PICK r : r = [o |-> o, ord |-> ord, rejected |-> TRUE]
  OBVIOUS
<1>7. /\ stored' = [stored EXCEPT ![o] = ord] /\ reports' = Append(reports, r)
      /\ raptor' = Idle /\ Spoil(o, Raced(o))
      /\ UNCHANGED <<prev, zmq, cmds, ex, responses, told>>
  BY <1>2, <1>4, <1>5, <1>6 DEF MinOrderCancelReject, Report, Push
<1>8. stored \in [Orders -> Recs] /\ stored[o] \in Recs /\ status \in Statuses
  BY <1>3, <1>4, StatusKnown DEF IInv, Types, Rejecting, Recs
<1>9. /\ ord \in Recs /\ ord.fill = stored[o].fill /\ ord.leaves = stored[o].leaves
      /\ ord.state = stored[o].state /\ ord.status = status
  BY <1>5, <1>8 DEF Recs
<1>10. r \in Reports /\ r.o = o /\ r.ord = ord /\ r.rejected
  BY <1>6, <1>9 DEF Reports
<1>11. stored'[o] = ord /\ \A x \in Orders : x # o => stored'[x] = stored[x]
  BY <1>7, <1>8
<1>12. Spoils /\ spoiled'[o] = spoiled[o] \cup Raced(o)
  <2>1. Raced(o) \in SUBSET Mishaps
    BY DEF Raced, Mishaps
  <2> QED
    BY <1>7, <2>1, SpoilSpoils DEF FillsInv
<1>13. ASSUME spoiled'[o] = {}, Good(o)
       PROVE  /\ zmq.o # o
              /\ status \notin {"none", "sent_new", "sent_mod"}
              /\ stored[o].leaves = View(o)
              /\ stored[o].state = "WORKING" <=> View(o) > 0
  <2>1. zmq.o # o
    BY <1>12, <1>13 DEF Raced
  <2>2. Answering(o) /\ ~Restoring(o)
    BY <1>1, <1>2 DEF Answering, Restoring
  <2>3. ~Unborn(o) /\ ~Modifying(o)
    BY <1>2, <1>13, <2>2 DEF Good, NotYet, OneAtATime, ModificationWaits
  <2>4. stored[o].leaves = View(o)
    BY <2>3 DEF View
  <2>5. CASE raptor.old = NoEntry
    <3>1. status = StatusOf(raptor.pod) /\ raptor.pod \in Pods
      BY <1>3, <1>4, <2>5 DEF Rejecting
    <3>2. StatusOf(raptor.pod) \notin {"none", "sent_new", "sent_mod"}
      BY <3>1 DEF StatusOf, Pods, Answers
    <3> QED
      BY <1>13, <2>1, <2>4, <3>1, <3>2 DEF Good, StateShows
  <2>6. CASE raptor.old # NoEntry
    <3>1. status = raptor.old.status /\ WasAsNow(raptor.old, o)
      BY <1>4, <1>13, <2>2, <2>6 DEF Good, CopyTaken
    <3> QED
      BY <1>13, <2>1, <2>4, <3>1 DEF Good, StateShows, WasAsNow
  <2> QED
    BY <2>5, <2>6
<1>14. raptor.pc \in {"cxlrej", "replrej"} /\ raptor' = Idle
  BY <1>1, <1>7
<1>15. reports' = Append(reports, r) /\ UNCHANGED <<prev, zmq, cmds, ex, responses, told>>
  BY <1>7
<1>16. stored'[o].fill = stored[o].fill
  BY <1>9, <1>11
<1>17. spoiled'[o] = {} /\ Good(o) =>
         /\ zmq.o # o
         /\ stored'[o].status \notin {"none", "sent_new", "sent_mod"}
         /\ stored'[o].leaves = View(o)
         /\ stored'[o].state = "WORKING" <=> View(o) > 0
         /\ r.ord.state = "WORKING" <=> View(o) > 0
         /\ ~r.rejected => r.ord.leaves = View(o)
  BY <1>9, <1>10, <1>11, <1>13
<1> QED
  BY <1>2, <1>10, <1>11, <1>12, <1>14, <1>15, <1>16, <1>17, RejectionTold

LEMMA CancelReplaceRejectTold ==
    ASSUME IInv, IInv', FillsInv, ToldInv, MinOrderCancelReplaceReject PROVE ToldInv'
<1>1. raptor.pc = "replrej" /\ raptor # Idle
  BY DEF MinOrderCancelReplaceReject, Idle
<1>2. PICK o \in Orders : o = raptor.o
  BY <1>1, CallbackOf
<1>3. PICK old \in Recs : old = raptor.old
  BY <1>1, CallbackOf DEF Reporting, Rejecting
<1>4. PICK ord : ord = [stored[o] EXCEPT !.leaves = old.leaves, !.status = old.status,
                                         !.state = old.state]
  OBVIOUS
<1>5. PICK tell : tell = [old EXCEPT !.fillType = "UNKNOWN", !.num = o]
  OBVIOUS
<1>6. PICK r : r = [o |-> o, ord |-> tell, rejected |-> FALSE]
  OBVIOUS
<1>7. PICK what : what = Raced(o) \cup (IF old.fill # stored[o].fill THEN {"reject"} ELSE {})
  OBVIOUS
<1>8. stored \in [Orders -> Recs] /\ stored[o] \in Recs
  BY DEF IInv, Types
<1>9. /\ stored' = [stored EXCEPT ![o].leaves = old.leaves, ![o].status = old.status,
                                  ![o].state = old.state]
      /\ reports' = Append(reports, r) /\ raptor' = Idle /\ Spoil(o, what)
      /\ UNCHANGED <<prev, zmq, cmds, ex, responses, told>>
  BY <1>2, <1>3, <1>5, <1>6, <1>7 DEF MinOrderCancelReplaceReject, Report, Push
<1>10. /\ ord.fill = stored[o].fill /\ ord.leaves = old.leaves
       /\ ord.state = old.state /\ ord.status = old.status
  BY <1>4, <1>8 DEF Recs
<1>11. tell \in Recs /\ tell.state = old.state /\ tell.leaves = old.leaves
  BY <1>5 DEF Recs, Names
<1>12. r \in Reports /\ r.o = o /\ r.ord = tell /\ ~r.rejected
  BY <1>6, <1>11 DEF Reports
<1>13. stored'[o] = ord /\ \A x \in Orders : x # o => stored'[x] = stored[x]
  BY <1>4, <1>8, <1>9
<1>14. Spoils /\ spoiled'[o] = spoiled[o] \cup what
  <2>1. what \in SUBSET Mishaps
    BY <1>7 DEF Raced, Mishaps
  <2> QED
    BY <1>9, <2>1, SpoilSpoils DEF FillsInv
<1>15. ASSUME spoiled'[o] = {}, Good(o)
       PROVE  /\ zmq.o # o
              /\ old.status \notin {"none", "sent_new", "sent_mod"}
              /\ old.leaves = View(o)
              /\ old.state = "WORKING" <=> View(o) > 0
  <2>1. zmq.o # o /\ old.fill = stored[o].fill
    BY <1>7, <1>14, <1>15 DEF Raced
  <2>2. Answering(o) /\ ~Forgetting(o)
    BY <1>1, <1>2 DEF Answering, Forgetting, Applying
  <2>3. WasAsNow(old, o)
    BY <1>1, <1>3, <1>15, <2>2 DEF Good, CopyTaken
  <2> QED
    BY <2>1, <2>2, <2>3 DEF WasAsNow
<1>16. raptor.pc \in {"cxlrej", "replrej"} /\ raptor' = Idle
  BY <1>1, <1>9
<1>17. reports' = Append(reports, r) /\ UNCHANGED <<prev, zmq, cmds, ex, responses, told>>
  BY <1>9
<1>18. stored'[o].fill = stored[o].fill
  BY <1>10, <1>13
<1>19. spoiled'[o] = {} /\ Good(o) =>
         /\ zmq.o # o
         /\ stored'[o].status \notin {"none", "sent_new", "sent_mod"}
         /\ stored'[o].leaves = View(o)
         /\ stored'[o].state = "WORKING" <=> View(o) > 0
         /\ r.ord.state = "WORKING" <=> View(o) > 0
         /\ ~r.rejected => r.ord.leaves = View(o)
  BY <1>10, <1>11, <1>12, <1>13, <1>15
<1> QED
  BY <1>2, <1>12, <1>13, <1>14, <1>16, <1>17, <1>18, <1>19, RejectionTold

-----------------------------------------------------------------------------
(* The reporter's step, and the whole.                                     *)

LEMMA RunTold == ASSUME IInv, IInv', FillsInv, ToldInv, Run PROVE ToldInv'
<1>1. /\ reports # <<>> /\ reports' = Tail(reports)
      /\ UNCHANGED <<stored, prev, zmq, cmds, ex, responses, raptor, spoiled>>
  BY DEF Run
<1>2. Types /\ Types'
  BY DEF IInv
<1>3. PICK r \in Reports : r = Head(reports)
  BY <1>1, <1>2, TailShifts DEF Types
<1>4. PICK o \in Orders : o = r.o
  BY DEF Reports
<1>5. /\ told'[o].state = r.ord.state
      /\ told'[o].leaves = IF r.rejected THEN stored[o].leaves ELSE r.ord.leaves
      /\ \A x \in Orders : x # o => told'[x] = told[x]
  BY <1>2, <1>3, <1>4 DEF Run, Types
<1>u. UNCHANGED <<stored, prev, zmq, cmds, ex, responses, raptor, spoiled>>
  BY <1>1
<1>6. Only(o)
  BY <1>1, <1>3, <1>4, <1>5 DEF Only, Touched
<1>7. Shapes'
  BY <1>2, <1>u, ShapesStay DEF ToldInv
<1>8. Less(reports, reports', r, o) /\ Of(reports, o) \in SUBSET (Nat \ {0})
  <2>1. reports \in Seq(Reports) /\ reports # <<>> /\ reports' = Tail(reports)
    BY <1>1, <1>2 DEF Types
  <2>2. o = Head(reports).o => Less(reports, reports', Head(reports), o)
    BY <2>1, Taken
  <2>3. Of(reports, o) \in SUBSET (Nat \ {0})
    BY <2>1, OfPlaces
  <2> QED
    BY <1>3, <1>4, <2>2, <2>3
<1>9. ASSUME Good(o) PROVE Good(o)'
  <2>1. /\ View(o)' = View(o)
        /\ (Unborn(o)' <=> Unborn(o)) /\ (Modifying(o)' <=> Modifying(o))
        /\ (Answering(o)' <=> Answering(o)) /\ (Restoring(o)' <=> Restoring(o))
        /\ (Applying(o)' <=> Applying(o)) /\ (ToldLater(o)' <=> ToldLater(o))
        /\ (CopyKept(o)' <=> CopyKept(o)) /\ (CopyTaken(o)' <=> CopyTaken(o))
    BY <1>u, ViewStays
  <2>2. Requests(o)' = Requests(o) /\ Replies(o)' = Replies(o) /\ Open(o)' = Open(o)
    BY <1>u DEF Requests, Replies, Open
  <2>3. Unborn(o) => Idles(reports', o) /\ r.ord.state # "WORKING" /\ ~r.rejected
    <3>1. Idles(reports, o) => Idles(reports', o) /\ r.ord.state # "WORKING" /\ ~r.rejected
      BY <1>8, TakenIdles
    <3> QED
      BY <1>9, <3>1 DEF Good, NotYet
  <2>4. ReportsTell(o)'
    <3> SUFFICES ASSUME ~ToldLater(o) PROVE Tells(reports', o, told'[o], View(o))
      BY <2>1 DEF ReportsTell
    <3>1. ~Modifying(o) /\ Tells(reports, o, told[o], View(o))
      BY <1>9 DEF Good, ReportsTell, ToldLater
    <3>2. r.rejected => stored[o].leaves = View(o)
      BY <2>3, <3>1 DEF View
    <3>3. told'[o].leaves = IF r.rejected THEN View(o) ELSE r.ord.leaves
      BY <1>5, <3>2
    <3> QED
      BY <1>5, <1>8, <3>1, <3>3, TakenTells
  <2>5. MessagesBring(o)' /\ StateShows(o)'
    BY <1>u, <1>9, <2>1, <2>2 DEF Good, MessagesBring, StateShows
  <2>6. CopyOf(o)' /\ CopyKept(o)' /\ CopyTaken(o)'
    BY <1>u, <1>9, <2>1, <2>2 DEF Good, CopyOf
  <2>7. OneAtATime(o)' /\ ModificationWaits(o)' /\ Birth(o)'
    BY <1>u, <1>9, <2>1, <2>2 DEF Good, OneAtATime, ModificationWaits, Birth
  <2>8. NotYet(o)'
    BY <1>u, <1>5, <1>9, <2>1, <2>2, <2>3 DEF Good, NotYet
  <2> QED
    BY <2>4, <2>5, <2>6, <2>7, <2>8 DEF Good
<1> QED
  BY <1>u, <1>2, <1>6, <1>7, <1>9, AllGood

LEMMA ToldFirst == Init => ToldInv
<1> SUFFICES ASSUME Init PROVE ToldInv
  OBVIOUS
<1>1. /\ responses = <<>> /\ reports = <<>> /\ cmds = <<>> /\ zmq = Idle /\ raptor = Idle
      /\ prev = [o \in Orders |-> NoEntry]
      /\ stored = [o \in Orders |-> IF o \in loaded THEN LoadedRecord(o, ex[o]) ELSE NoPod]
      /\ told = [o \in Orders |->
            [state |-> IF o \in loaded THEN "WORKING" ELSE "none",
             leaves |-> Open(o), fills |-> ex[o].cum, num |-> o]]
  BY DEF Init
<1>2. DOMAIN responses = {} /\ DOMAIN reports = {} /\ DOMAIN cmds = {}
  BY <1>1
<1>3. ASSUME NEW o \in Orders
      PROVE  IF o \in loaded
             THEN /\ ex[o].st = "live" /\ ex[o].qty > ex[o].cum
                  /\ ex[o].qty \in Int /\ ex[o].cum \in Int
             ELSE ex[o].st = "none"
  BY DEF Init, Books
<1>4. Shapes
  BY <1>2, <1>3 DEF Shapes
<1>5. ASSUME NEW o \in Orders PROVE Good(o)
  <2>1. /\ Of(responses, o) = {} /\ Of(reports, o) = {} /\ Of(cmds, o) = {}
    BY <1>2 DEF Of
  <2>2. Requests(o) = {} /\ Replies(o) = {}
    BY <2>1 DEF Requests, Replies, Kinds
  <2>3. prev[o] = NoEntry /\ zmq.o # o /\ raptor.o # o
    BY <1>1, OrderConstants DEF Idle
  <2>4. ~Answering(o) /\ ~Restoring(o) /\ ~Applying(o)
    BY <2>3 DEF Answering, Restoring, Applying
  <2>5. ~Modifying(o) /\ View(o) = Open(o) /\ StateShows(o)
        /\ (told[o].state = "WORKING" <=> View(o) > 0) /\ (Unborn(o) => told[o].state = "none")
    <3>1. CASE o \in loaded
      <4>1. /\ stored[o].leaves = ex[o].qty - ex[o].cum /\ stored[o].state = "WORKING"
            /\ stored[o].status \in {"NEW", "PARTIALLY_FILLED"} /\ told[o].state = "WORKING"
        BY <1>1, <3>1 DEF LoadedRecord
      <4>2. Open(o) = ex[o].qty - ex[o].cum /\ Open(o) > 0
        BY <1>3, <3>1 DEF Open
      <4>3. ~Unborn(o) /\ ~Modifying(o)
        BY <4>1 DEF Unborn, Modifying
      <4>4. View(o) = Open(o)
        BY <4>1, <4>2, <4>3 DEF View
      <4> QED
        BY <4>1, <4>2, <4>3, <4>4 DEF StateShows
    <3>2. CASE o \notin loaded
      <4>1. stored[o].status = "none" /\ stored[o].state = "none" /\ told[o].state = "none"
        BY <1>1, <3>2 DEF NoPod
      <4>2. Open(o) = 0
        BY <1>3, <3>2 DEF Open
      <4>3. Unborn(o) /\ ~Modifying(o)
        BY <4>1 DEF Unborn, Modifying
      <4>4. View(o) = 0
        BY <4>3 DEF View
      <4> QED
        BY <4>1, <4>2, <4>3, <4>4 DEF StateShows
    <3> QED
      BY <3>1, <3>2
  <2>6. MessagesBring(o)
    <3>1. PICK n : n \in [DOMAIN responses -> Int]
      <4>1. [i \in DOMAIN responses |-> 0] \in [DOMAIN responses -> Int]
        OBVIOUS
      <4> QED
        BY <4>1
    <3>2. AddsUp(Of(responses, o), n, Leaves(responses), View(o), Open(o))
      BY <2>1, <2>5 DEF AddsUp
    <3> QED
      BY <2>1, <3>1, <3>2 DEF MessagesBring, Brings
  <2>7. ReportsTell(o)
    <3>1. told[o].leaves = Open(o)
      BY <1>1
    <3> QED
      BY <2>1, <2>5, <3>1 DEF ReportsTell, Tells
  <2>8. CopyOf(o) /\ CopyKept(o) /\ CopyTaken(o)
    BY <2>3, <2>4 DEF CopyOf, CopyKept, CopyTaken
  <2>9. OneAtATime(o) /\ ModificationWaits(o)
    BY <2>1, <2>2, <2>4, <2>5 DEF OneAtATime, One, ModificationWaits
  <2>10. NotYet(o) /\ Birth(o)
    BY <2>1, <2>2, <2>3, <2>5 DEF NotYet, Birth, BornFirst, Births, Idles
  <2> QED
    BY <2>5, <2>6, <2>7, <2>8, <2>9, <2>10 DEF Good
<1> QED
  BY <1>4, <1>5 DEF ToldInv

LEMMA ToldStep == IInv /\ IInv' /\ FillsInv /\ ToldInv /\ [Next]_vars => ToldInv'
<1> SUFFICES ASSUME IInv, IInv', FillsInv, ToldInv, [Next]_vars PROVE ToldInv'
  OBVIOUS
<1>1. CASE \E o \in Orders : Client(o)
  <2>1. PICK o \in Orders : Client(o)
    BY <1>1
  <2>2. ASSUME NEW q \in 1 .. MaxQty, HandleNewOrder(o, q) PROVE ToldInv'
    BY <2>2, NewOrderTold
  <2>3. ASSUME NEW q \in 1 .. MaxQty, HandleModifyOrder(o, q) PROVE ToldInv'
    BY <2>3, BeginTold DEF HandleModifyOrder
  <2>4. CASE HandleCancelOrder(o)
    BY <2>4, BeginTold DEF HandleCancelOrder
  <2> QED
    BY <2>1, <2>2, <2>3, <2>4 DEF Client
<1>2. CASE \E o \in Orders : Exchange(o)
  BY <1>2, ExchangeTold
<1>3. CASE ZmqThread
  BY <1>3, SnapshotTold, SendOrderTold DEF ZmqThread
<1>4. CASE Send \/ SendRefused
  BY <1>4, SendTold, SendRefusedTold
<1>5. CASE Raptor
  BY <1>5, DropTold, ApplyTold, ProcessOrderTold, ForgetTold, MinOrderRejectTold,
     TakeSnapshotTold, CancelRejectTold, CancelReplaceRejectTold DEF Raptor
<1>6. CASE Run
  BY <1>6, RunTold
<1>7. CASE UNCHANGED vars
  <2>1. UNCHANGED <<stored, prev, zmq, cmds, ex, responses, raptor, reports, told, spoiled>>
    BY <1>7 DEF vars
  <2>2. Types /\ Types'
    BY DEF IInv
  <2>3. Shapes'
    BY <2>1, <2>2, ShapesStay DEF ToldInv
  <2>4. ASSUME NEW o \in Orders, spoiled'[o] = {} PROVE Good(o)'
    <3>1. Good(o)
      BY <2>1, <2>4 DEF ToldInv
    <3>2. Still(o)
      <4>1. /\ Same(cmds, cmds', o) /\ Same(responses, responses', o)
            /\ Same(reports, reports', o)
        BY <2>1, <2>2, SameStays DEF Types
      <4> QED
        BY <2>1, <4>1 DEF Still, Open
    <3> QED
      BY <2>2, <3>1, <3>2, Elsewhere
  <2> QED
    BY <2>3, <2>4 DEF ToldInv
<1> QED
  BY <1>1, <1>2, <1>3, <1>4, <1>5, <1>6, <1>7 DEF Next

\* When everything about an order has arrived and none of the mishaps was met, the
\* client was told whether the order is live and how much of it is open: for any
\* number of orders, quantities and requests, however fills cross modifications,
\* cancellations and their rejections (minOrderUpdate, minOrderExecution, the reject
\* callbacks).
THEOREM SpecToldWhatIsOpen == Spec => []ToldWhatIsOpen
<1>1. IInv /\ ToldInv => ToldWhatIsOpen
  <2> SUFFICES ASSUME IInv, ToldInv, NEW o \in Orders, Quiet(o), spoiled[o] = {}
               PROVE  /\ told[o].leaves = Open(o)
                      /\ told[o].state = "WORKING" <=> ex[o].st = "live"
    BY DEF ToldWhatIsOpen
  <2>1. Good(o) /\ Shapes
    BY DEF ToldInv
  <2>2. /\ Of(responses, o) = {} /\ Of(reports, o) = {} /\ Of(cmds, o) = {}
        /\ raptor.o # o
    BY DEF Quiet, Of
  <2>3. View(o) = Open(o)
    BY <2>1, <2>2, NothingBrings DEF Good, MessagesBring
  <2>4. ~Modifying(o)
    BY <2>1, <2>2 DEF Good, ModificationWaits, Restoring, Requests, Replies, Kinds
  <2>5. told[o].leaves = View(o) /\ (told[o].state = "WORKING" <=> View(o) > 0)
    BY <2>1, <2>2, <2>4 DEF Good, ReportsTell, ToldLater, Tells
  <2>6. ex[o] \in ExBooks /\ (ex[o].st = "live" => ex[o].qty > ex[o].cum)
    BY <2>1 DEF IInv, Types, Shapes
  <2>7. Open(o) > 0 <=> ex[o].st = "live"
    BY <2>6 DEF Open, ExBooks
  <2> QED
    BY <2>3, <2>5, <2>7
<1>2. Init => FillsInv /\ ToldInv
  BY FillsFirst, ToldFirst
<1>3. IInv /\ FillsInv /\ [Next]_vars => FillsInv'
  BY FillsStep
<1>4. IInv /\ IInv' /\ FillsInv /\ ToldInv /\ [Next]_vars => ToldInv'
  BY ToldStep
<1> QED
  BY <1>1, <1>2, <1>3, <1>4, AlwaysIInv, PTL DEF Spec

-----------------------------------------------------------------------------
(* How large a quantity gets.                                              *)

\* Every request adds what a request may ask for, once, to what may be traded.
Cap == MaxQty * (used.requests + 1)

Sized(r) ==
    /\ r.status # "CXL_REPL_REJECT"
    /\ r.leaves \in 0 .. MaxLot /\ r.fill <= MaxLot /\ r.last <= MaxQty

UsedTyped ==
    used \in [requests : 0 .. MaxRequests, resent : 0 .. MaxResent, refused : 0 .. MaxRefused]

BooksSized == \A o \in Orders : ex[o].qty \in 0 .. Cap /\ ex[o].cum <= Cap

TableSized ==
    \A o \in Orders : Sized(stored[o]) /\ (prev[o] = NoEntry \/ Sized(prev[o]))

\* A request was made when a request less was counted.
RequestSized ==
    zmq # Idle => /\ Sized(zmq.ord) /\ zmq.asked \in 0 .. MaxQty
                  /\ zmq.ord.fill + MaxQty <= Cap

CommandsSized ==
    \A i \in DOMAIN cmds :
        /\ cmds[i].leaves \in 0 .. MaxLot
        /\ cmds[i].kind # "cxl" => cmds[i].leaves <= MaxQty
        /\ cmds[i].kind = "mod" => cmds[i].fill + MaxQty <= Cap

PodsSized ==
    \A i \in DOMAIN responses : responses[i].last <= MaxQty /\ responses[i].leaves \in 0 .. MaxLot

CallbackSized ==
    raptor \in Rejecting =>
        raptor.pod.kind = raptor.pc /\ (raptor.old = NoEntry \/ Sized(raptor.old))

ReportsSized == \A i \in DOMAIN reports : Sized(reports[i].ord)

ClientSized == \A o \in Orders : told[o].leaves \in 0 .. MaxLot

SizedInv ==
    /\ loaded \subseteq Orders /\ UsedTyped /\ BooksSized
    /\ TableSized /\ RequestSized /\ CommandsSized /\ PodsSized
    /\ CallbackSized /\ ReportsSized /\ ClientSized

LEMMA CapFacts ==
    ASSUME UsedTyped
    PROVE  /\ Cap \in Nat /\ MaxLot \in Nat /\ MaxQty \in Nat /\ MaxQty > 0
           /\ MaxQty <= Cap /\ Cap + MaxQty <= MaxLot /\ Cap <= MaxLot
<1>1. /\ MaxQty \in Nat /\ MaxQty > 0 /\ MaxRequests \in Nat
      /\ used.requests \in Nat /\ used.requests <= MaxRequests
  BY OrderConstants DEF UsedTyped
<1> DEFINE d == MaxRequests - used.requests
           n == used.requests
<1>2. d \in Nat /\ n \in Nat /\ MaxRequests = n + d
  BY <1>1
<1> HIDE DEF d
<1>3. \A k \in Nat : MaxQty * k \in Nat
  BY <1>1
<1>4. Cap = MaxQty * n + MaxQty
  BY <1>1, <1>2 DEF Cap
<1>5. MaxLot = MaxQty * n + MaxQty + MaxQty + MaxQty * d
  BY <1>1, <1>2 DEF MaxLot
<1>6. MaxQty * n \in Nat /\ MaxQty * d \in Nat
  BY <1>2, <1>3
<1> HIDE DEF n
<1> QED
  BY <1>1, <1>4, <1>5, <1>6

LEMMA UsedGrows ==
    ASSUME UsedTyped, NEW what \in {"requests", "resent", "refused"}, Use(what)
    PROVE  /\ UsedTyped'
           /\ what # "requests" => Cap' = Cap
           /\ what = "requests" => Cap' = Cap + MaxQty
<1>1. /\ used[what] < Limit[what] /\ used' = [used EXCEPT ![what] = @ + 1]
      /\ {MaxRequests, MaxResent, MaxRefused, MaxQty} \subseteq Nat
  BY OrderConstants DEF Use, MayUse
<1>2. used.requests \in Nat /\ used.resent \in Nat /\ used.refused \in Nat
  BY <1>1 DEF UsedTyped
<1>3. CASE what = "requests"
  <2>1. used'.requests = used.requests + 1 /\ used.requests < MaxRequests
    BY <1>1, <1>3 DEF UsedTyped, Limit
  <2>2. UsedTyped'
    BY <1>1, <1>2, <1>3, <2>1 DEF UsedTyped
  <2>3. MaxQty * (used.requests + 1 + 1) = MaxQty * (used.requests + 1) + MaxQty
    BY <1>1, <1>2
  <2> QED
    BY <1>3, <2>1, <2>2, <2>3 DEF Cap
<1>4. CASE what # "requests"
  <2>1. UsedTyped' /\ used'.requests = used.requests
    BY <1>1, <1>2, <1>4 DEF UsedTyped, Limit
  <2> QED
    BY <1>4, <2>1 DEF Cap
<1> QED
  BY <1>3, <1>4

LEMMA FlaggedKeeps ==
    ASSUME UsedTyped, NEW again, Flagged(again)
    PROVE  UsedTyped' /\ Cap' = Cap
<1>1. CASE UNCHANGED used
  BY <1>1 DEF UsedTyped, Cap
<1>2. CASE Use("resent")
  BY <1>2, UsedGrows
<1> QED
  BY <1>1, <1>2 DEF Flagged

LEMMA NoPodSized == Sized(NoPod)
<1>1. MaxLot \in Nat /\ MaxQty \in Nat
  <2>1. MaxQty \in Nat /\ MaxRequests \in Nat
    BY OrderConstants
  <2>2. MaxRequests + 2 \in Nat
    BY <2>1
  <2>3. \A a, b \in Nat : a * b \in Nat
    OBVIOUS
  <2> QED
    BY <2>1, <2>2, <2>3 DEF MaxLot
<1> QED
  BY <1>1 DEF Sized, NoPod

-----------------------------------------------------------------------------
(* The ZMQ thread's requests, and the exchange's messages.                 *)

LEMMA TakenFrom ==
    ASSUME NEW S, NEW s \in Seq(S), NEW t, t = s \/ (s # <<>> /\ t = Tail(s))
    PROVE  \A i \in DOMAIN t : \E j \in DOMAIN s : t[i] = s[j]
<1>1. CASE t = s
  BY <1>1
<1>2. CASE s # <<>> /\ t = Tail(s)
  <2>1. \A i \in DOMAIN t : i + 1 \in DOMAIN s /\ t[i] = s[i + 1]
    BY <1>2, TailShifts
  <2> QED
    BY <2>1
<1> QED
  BY <1>1, <1>2

LEMMA UsedStays ==
    ASSUME UsedTyped, UNCHANGED used
    PROVE  UsedTyped' /\ Cap' = Cap
BY DEF UsedTyped, Cap

\* What a step leaves alone stays within its bounds.
LEMMA SizedStay ==
    ASSUME IInv, SizedInv, UsedTyped', Cap' = Cap \/ Cap' = Cap + MaxQty
    PROVE  /\ UNCHANGED loaded => loaded' \subseteq Orders
           /\ UNCHANGED ex => BooksSized'
           /\ UNCHANGED <<stored, prev>> => TableSized'
           /\ UNCHANGED zmq \/ zmq' = Idle => RequestSized'
           /\ UNCHANGED cmds \/ (cmds # <<>> /\ cmds' = Tail(cmds)) => CommandsSized'
           /\ UNCHANGED responses \/ Pop => PodsSized'
           /\ UNCHANGED raptor \/ raptor' = Idle => CallbackSized'
           /\ UNCHANGED reports \/ (reports # <<>> /\ reports' = Tail(reports)) => ReportsSized'
           /\ UNCHANGED told => ClientSized'
<1>1. Types /\ UsedTyped
  BY DEF IInv, SizedInv
<1>2. /\ Cap \in Nat /\ Cap' \in Nat /\ Cap <= Cap' /\ MaxQty \in Nat
      /\ MaxLot \in Nat
  BY <1>1, CapFacts
<1>3. ASSUME UNCHANGED ex PROVE BooksSized'
  <2> SUFFICES ASSUME NEW o \in Orders PROVE ex[o].qty \in 0 .. Cap' /\ ex[o].cum <= Cap'
    BY <1>3 DEF BooksSized
  <2>1. ex[o].qty \in 0 .. Cap /\ ex[o].cum <= Cap /\ ex[o].cum \in Nat
    BY <1>1 DEF SizedInv, BooksSized, Types, ExBooks
  <2> QED
    BY <1>2, <2>1
<1>4. ASSUME UNCHANGED zmq \/ zmq' = Idle PROVE RequestSized'
  <2> SUFFICES ASSUME zmq' # Idle
               PROVE  Sized(zmq.ord) /\ zmq.asked \in 0 .. MaxQty /\ zmq.ord.fill + MaxQty <= Cap'
    BY <1>4 DEF RequestSized, Sized
  <2>1. zmq \in Requesting /\ zmq # Idle
    BY <1>1, <1>4 DEF Types
  <2>2. zmq.ord.fill \in Nat /\ zmq.ord.fill + MaxQty <= Cap
    BY <2>1 DEF Requesting, Recs, SizedInv, RequestSized
  <2>3. zmq.ord.fill + MaxQty <= Cap'
    BY <1>2, <2>2
  <2> QED
    BY <2>1, <2>3 DEF SizedInv, RequestSized
<1>5. ASSUME UNCHANGED cmds \/ (cmds # <<>> /\ cmds' = Tail(cmds)) PROVE CommandsSized'
  <2>1. \A i \in DOMAIN cmds' : \E j \in DOMAIN cmds : cmds'[i] = cmds[j]
    BY <1>1, <1>5, TakenFrom DEF Types
  <2>2. ASSUME NEW j \in DOMAIN cmds, cmds[j].kind = "mod" PROVE cmds[j].fill + MaxQty <= Cap'
    <3>1. cmds[j] \in Commands
      BY <1>1, ElementOfSeq, LenProperties DEF Types
    <3>2. cmds[j].fill \in Nat /\ cmds[j].fill + MaxQty <= Cap
      BY <2>2, <3>1 DEF Commands, SizedInv, CommandsSized
    <3> QED
      BY <1>2, <3>2
  <2> QED
    BY <2>1, <2>2 DEF SizedInv, CommandsSized
<1>6. ASSUME UNCHANGED responses \/ Pop PROVE PodsSized'
  <2>1. \A i \in DOMAIN responses' : \E j \in DOMAIN responses : responses'[i] = responses[j]
    BY <1>1, <1>6, TakenFrom DEF Types, Pop
  <2> QED
    BY <2>1 DEF SizedInv, PodsSized
<1>7. ASSUME UNCHANGED reports \/ (reports # <<>> /\ reports' = Tail(reports)) PROVE ReportsSized'
  <2>1. \A i \in DOMAIN reports' : \E j \in DOMAIN reports : reports'[i] = reports[j]
    BY <1>1, <1>7, TakenFrom DEF Types
  <2> QED
    BY <2>1 DEF SizedInv, ReportsSized, Sized
<1>8. ASSUME UNCHANGED raptor \/ raptor' = Idle PROVE CallbackSized'
  BY <1>8 DEF SizedInv, CallbackSized, Sized, Rejecting, Idle
<1>9. UNCHANGED <<stored, prev>> => TableSized'
  BY DEF SizedInv, TableSized, Sized
<1>10. (UNCHANGED told => ClientSized') /\ (UNCHANGED loaded => loaded' \subseteq Orders)
  BY DEF SizedInv, ClientSized
<1> QED
  BY <1>3, <1>4, <1>5, <1>6, <1>7, <1>8, <1>9, <1>10

LEMMA ReportSized ==
    ASSUME IInv, SizedInv, NEW r \in Reports, Sized(r.ord), reports' = Append(reports, r)
    PROVE  ReportsSized'
<1>1. \A i \in DOMAIN reports' : (i \in DOMAIN reports /\ reports'[i] = reports[i]) \/ reports'[i] = r
  BY AppendAdds DEF IInv, Types
<1> QED
  BY <1>1 DEF SizedInv, ReportsSized, Sized

LEMMA StoredSized ==
    ASSUME IInv, SizedInv, NEW o \in Orders, NEW r, Sized(r),
           \/ stored' = [stored EXCEPT ![o] = r] /\ UNCHANGED prev
           \/ prev' = [prev EXCEPT ![o] = r] /\ UNCHANGED stored
    PROVE  TableSized'
<1>1. DOMAIN stored = Orders /\ DOMAIN prev = Orders
  BY DEF IInv, Types
<1>2. \A x \in Orders : stored'[x] = r \/ stored'[x] = stored[x]
  BY <1>1
<1>3. \A x \in Orders : prev'[x] = r \/ prev'[x] = prev[x]
  BY <1>1
<1> QED
  BY <1>2, <1>3 DEF SizedInv, TableSized, Sized

LEMMA NewOrderSized ==
    ASSUME IInv, SizedInv, NEW o \in Orders, NEW q \in 1 .. MaxQty, HandleNewOrder(o, q)
    PROVE  SizedInv'
<1>1. PICK r : r = [NoPod EXCEPT !.status = "sent_new", !.leaves = q, !.num = o]
  OBVIOUS
<1>2. PICK c : c = [o |-> o, kind |-> "new", leaves |-> q, fill |-> 0]
  OBVIOUS
<1>3. /\ stored' = [stored EXCEPT ![o] = r] /\ cmds' = Append(cmds, c)
      /\ UNCHANGED <<loaded, prev, zmq, ex, responses, raptor, reports, told, used>>
  BY <1>1, <1>2 DEF HandleNewOrder, Push
<1>u. UNCHANGED <<loaded, prev, zmq, ex, responses, raptor, reports, told, used>>
  BY <1>3
<1>4. UsedTyped /\ UsedTyped' /\ Cap' = Cap
  BY <1>u, UsedStays DEF SizedInv
<1>5. /\ q \in Nat /\ q <= MaxQty /\ q \in 0 .. MaxLot /\ MaxQty \in Nat /\ MaxLot \in Nat
  BY <1>4, CapFacts
<1>6. TableSized'
  <2>1. Sized(r)
    BY <1>1, <1>5 DEF Sized, NoPod
  <2> QED
    BY <1>3, <2>1, StoredSized
<1>7. CommandsSized'
  <2>1. c \in Commands /\ c.leaves = q /\ c.kind = "new"
    BY <1>2, <1>5 DEF Commands
  <2>2. \A i \in DOMAIN cmds' : (i \in DOMAIN cmds /\ cmds'[i] = cmds[i]) \/ cmds'[i] = c
    BY <1>3, <2>1, AppendAdds DEF IInv, Types
  <2> QED
    BY <1>4, <1>5, <2>1, <2>2 DEF SizedInv, CommandsSized
<1> QED
  BY <1>u, <1>4, <1>6, <1>7, SizedStay DEF SizedInv

LEMMA BeginSized ==
    ASSUME IInv, SizedInv, NEW o \in Orders, NEW kind, NEW q \in 0 .. MaxQty, Begin(o, kind, q)
    PROVE  SizedInv'
<1>1. /\ zmq' = [pc |-> "snapshot", o |-> o, kind |-> kind, asked |-> q, ord |-> stored[o]]
      /\ Use("requests")
      /\ UNCHANGED <<loaded, stored, prev, cmds, ex, responses, raptor, reports, told>>
  BY DEF Begin
<1>u. UNCHANGED <<loaded, stored, prev, cmds, ex, responses, raptor, reports, told>>
  BY <1>1
<1>2. UsedTyped /\ UsedTyped' /\ Cap' = Cap + MaxQty
  BY <1>1, UsedGrows DEF SizedInv
<1>3. RequestSized'
  <2>1. zmq'.asked = q /\ zmq'.ord = stored[o]
    BY <1>1
  <2>2. /\ stored[o].fill \in Nat /\ ex[o].cum \in Nat /\ stored[o].fill <= ex[o].cum
        /\ ex[o].cum <= Cap /\ Sized(stored[o])
    BY DEF IInv, Types, Recs, ExBooks, CountsUp, RecordCounts, SizedInv, BooksSized, TableSized
  <2>3. Cap \in Nat /\ MaxQty \in Nat
    BY <1>2, CapFacts
  <2>4. stored[o].fill + MaxQty <= Cap'
    BY <1>2, <2>2, <2>3
  <2> QED
    BY <2>1, <2>2, <2>4 DEF RequestSized, Sized
<1> QED
  BY <1>u, <1>2, <1>3, SizedStay DEF SizedInv

LEMMA SnapshotSized == ASSUME IInv, SizedInv, Snapshot PROVE SizedInv'
<1>1. zmq # Idle /\ zmq \in Requesting
  BY DEF Snapshot, IInv, Types, Idle
<1>2. PICK o \in Orders : o = zmq.o
  BY <1>1 DEF Requesting
<1>3. /\ prev' = [prev EXCEPT ![o] = zmq.ord] /\ zmq' = [zmq EXCEPT !.pc = "send"]
      /\ UNCHANGED <<loaded, stored, cmds, ex, responses, raptor, reports, told, used>>
  BY <1>2 DEF Snapshot
<1>u. UNCHANGED <<loaded, stored, cmds, ex, responses, raptor, reports, told, used>>
  BY <1>3
<1>4. UsedTyped /\ UsedTyped' /\ Cap' = Cap
  BY <1>u, UsedStays DEF SizedInv
<1>5. Sized(zmq.ord) /\ zmq.asked \in 0 .. MaxQty /\ zmq.ord.fill + MaxQty <= Cap
  BY <1>1 DEF SizedInv, RequestSized
<1>6. TableSized'
  BY <1>2, <1>3, <1>5, StoredSized
<1>7. RequestSized'
  <2>1. zmq'.ord = zmq.ord /\ zmq'.asked = zmq.asked
    BY <1>1, <1>3 DEF Requesting
  <2> QED
    BY <1>4, <1>5, <2>1 DEF RequestSized, Sized
<1> QED
  BY <1>u, <1>4, <1>6, <1>7, SizedStay DEF SizedInv

LEMMA SendOrderSized == ASSUME IInv, SizedInv, SendOrder PROVE SizedInv'
<1>1. zmq # Idle /\ zmq \in Requesting
  BY DEF SendOrder, IInv, Types, Idle
<1>2. PICK o \in Orders : o = zmq.o
  BY <1>1 DEF Requesting
<1>3. PICK r : r = Request
  OBVIOUS
<1>4. PICK c : c = [o |-> o, kind |-> zmq.kind, leaves |-> r.leaves, fill |-> r.fill]
  OBVIOUS
<1>5. /\ stored' = [stored EXCEPT ![o] = r] /\ cmds' = Append(cmds, c) /\ zmq' = Idle
      /\ UNCHANGED <<loaded, prev, ex, responses, raptor, reports, told, used>>
  BY <1>2, <1>3, <1>4 DEF SendOrder, Push
<1>u. zmq' = Idle /\ UNCHANGED <<loaded, prev, ex, responses, raptor, reports, told, used>>
  BY <1>5
<1>6. UsedTyped /\ UsedTyped' /\ Cap' = Cap
  BY <1>u, UsedStays DEF SizedInv
<1>7. /\ zmq.ord \in Recs /\ zmq.kind \in {"mod", "cxl"}
      /\ Sized(zmq.ord) /\ zmq.asked \in 0 .. MaxQty /\ zmq.ord.fill + MaxQty <= Cap
  BY <1>1 DEF SizedInv, RequestSized, Requesting
<1>8. /\ r.fill = zmq.ord.fill /\ r.last = zmq.ord.last /\ r.status \in {"sent_mod", "sent_cxl"}
      /\ r.leaves = IF zmq.kind = "mod" THEN zmq.asked ELSE zmq.ord.leaves
  <2>1. CASE zmq.kind = "mod"
    BY <1>3, <1>7, <2>1 DEF Request, Recs
  <2>2. CASE zmq.kind # "mod"
    BY <1>3, <1>7, <2>2 DEF Request, Recs
  <2> QED
    BY <2>1, <2>2
<1>9. /\ MaxQty \in Nat /\ MaxLot \in Nat /\ MaxQty <= MaxLot
  BY <1>6, CapFacts
<1>10. Sized(r)
  BY <1>7, <1>8, <1>9 DEF Sized
<1>11. TableSized'
  BY <1>2, <1>5, <1>10, StoredSized
<1>12. CommandsSized'
  <2>1. /\ c \in Commands /\ c.leaves = r.leaves /\ c.kind = zmq.kind /\ c.fill = zmq.ord.fill
    <3>1. r.leaves \in Int /\ r.fill \in Nat
      BY <1>7, <1>8 DEF Recs
    <3> QED
      BY <1>2, <1>4, <1>7, <1>8, <3>1 DEF Commands
  <2>2. \A i \in DOMAIN cmds' : (i \in DOMAIN cmds /\ cmds'[i] = cmds[i]) \/ cmds'[i] = c
    BY <1>5, <2>1, AppendAdds DEF IInv, Types
  <2>3. /\ c.leaves \in 0 .. MaxLot
        /\ c.kind # "cxl" => c.leaves <= MaxQty
        /\ c.kind = "mod" => c.fill + MaxQty <= Cap
    BY <1>7, <1>8, <1>10, <2>1 DEF Sized
  <2> QED
    BY <1>6, <2>2, <2>3 DEF SizedInv, CommandsSized
<1> QED
  BY <1>u, <1>6, <1>11, <1>12, SizedStay DEF SizedInv

LEMMA EmitSized ==
    ASSUME IInv, SizedInv, Shapes', NEW o \in Orders,
           NEW kind \in {"ack", "mod", "cxl", "rej", "cxlrej", "replrej", "fill", "elim",
                         "status"},
           NEW last \in 0 .. MaxQty, NEW book \in ExBooks, book.qty \in 0 .. Cap, book.cum <= Cap,
           NEW again \in {"no", "retransmit", "status"}, Emit(kind, o, last, book, again),
           UNCHANGED cmds \/ (cmds # <<>> /\ cmds' = Tail(cmds)),
           UNCHANGED <<loaded, stored, prev, zmq, raptor, reports, told>>
    PROVE  SizedInv'
<1>1. UsedTyped /\ UsedTyped' /\ Cap' = Cap
  BY FlaggedKeeps DEF Emit, SizedInv
<1>2. /\ Cap \in Nat /\ MaxLot \in Nat /\ Cap <= MaxLot /\ MaxQty \in Nat
      /\ last \in Nat /\ last <= MaxQty
  BY <1>1, CapFacts
<1>e. /\ ex'[o] = book /\ \A x \in Orders : x # o => ex'[x] = ex[x]
      /\ \E m \in Pods :
           /\ responses' = Append(responses, m) /\ m.o = o /\ m.kind = kind
           /\ m.last = last /\ m.again = again /\ m.leaves = Open(o)'
  BY <1>2, Emitted
<1>3. ex'[o] = book /\ \A x \in Orders : x # o => ex'[x] = ex[x]
  BY <1>e
<1>4. PICK m \in Pods :
        /\ responses' = Append(responses, m) /\ m.o = o /\ m.kind = kind
        /\ m.last = last /\ m.again = again /\ m.leaves = Open(o)'
  BY <1>e
<1>5. BooksSized'
  <2>1. \A x \in Orders : ex'[x].qty \in 0 .. Cap /\ ex'[x].cum <= Cap
    BY <1>3 DEF SizedInv, BooksSized
  <2> QED
    BY <1>1, <2>1 DEF BooksSized
<1>6. m.leaves \in 0 .. MaxLot
  <2>1. book.st = "live" => book.qty > book.cum
    BY <1>3 DEF Shapes
  <2>2. book.qty \in Nat /\ book.cum \in Nat /\ book.qty <= Cap
    BY <1>2 DEF ExBooks
  <2>3. m.leaves = IF book.st = "live" THEN book.qty - book.cum ELSE 0
    BY <1>3, <1>4 DEF Open
  <2> QED
    BY <1>2, <2>1, <2>2, <2>3
<1>7. PodsSized'
  <2>1. \A i \in DOMAIN responses' :
          (i \in DOMAIN responses /\ responses'[i] = responses[i]) \/ responses'[i] = m
    BY <1>4, AppendAdds DEF IInv, Types
  <2>2. m.last <= MaxQty
    BY <1>2, <1>4
  <2> QED
    BY <1>6, <2>1, <2>2 DEF SizedInv, PodsSized
<1> QED
  BY <1>1, <1>5, <1>7, SizedStay DEF SizedInv

LEMMA ExchangeSized ==
    ASSUME IInv, SizedInv, Shapes', NEW o \in Orders, Exchange(o)
    PROVE  SizedInv'
<1>1. /\ ex[o] \in ExBooks /\ ex[o].cum \in Nat /\ ex[o].qty \in Nat
      /\ ex[o].qty \in 0 .. Cap /\ ex[o].qty <= Cap /\ ex[o].cum <= Cap
      /\ UsedTyped /\ Cap \in Nat /\ MaxQty \in Nat
  BY BookFacts, CapFacts DEF SizedInv, BooksSized
<1>2. UNCHANGED cmds /\ UNCHANGED <<loaded, stored, prev, zmq, raptor, reports, told>>
  BY DEF Exchange, Trade, Eliminate, StatusReport
<1>0. 0 \in 0 .. MaxQty
  BY <1>1
<1>3. ASSUME NEW n \in 1 .. MaxQty, Trade(o, n) PROVE SizedInv'
  <2> DEFINE st == IF ex[o].cum + n = ex[o].qty THEN "dead" ELSE "live"
             book == [ex[o] EXCEPT !.cum = @ + n, !.st = st]
  <2>1. n \in Nat /\ n > 0 /\ n \in 0 .. MaxQty
    BY <1>1
  <2>2. n <= ex[o].qty - ex[o].cum
    <3>1. n <= Open(o)
      BY <1>3 DEF Trade
    <3> QED
      BY <2>1, <3>1 DEF Open
  <2>3. /\ book \in ExBooks /\ book.cum = ex[o].cum + n /\ book.qty = ex[o].qty
    <3>1. st \in {"none", "live", "dead"} /\ ex[o].cum + n \in Nat
      BY <1>1, <2>1
    <3> HIDE DEF st
    <3> QED
      BY <1>1, <3>1 DEF ExBooks
  <2>4. PICK again \in {"no", "retransmit", "status"} : Emit("fill", o, n, book, again)
    BY <1>3 DEF Trade, Flags
  <2> HIDE DEF book
  <2>5. book.cum <= Cap /\ book.qty \in 0 .. Cap
    BY <1>1, <2>1, <2>2, <2>3
  <2> QED
    BY <1>2, <2>1, <2>3, <2>4, <2>5, EmitSized
<1>4. CASE Eliminate(o)
  <2> DEFINE book == [ex[o] EXCEPT !.st = "dead"]
  <2>1. book \in ExBooks /\ book.cum = ex[o].cum /\ book.qty = ex[o].qty
    BY <1>1 DEF ExBooks
  <2>2. PICK again \in {"no", "retransmit", "status"} : Emit("elim", o, 0, book, again)
    BY <1>4 DEF Eliminate, Flags
  <2> HIDE DEF book
  <2> QED
    BY <1>0, <1>1, <1>2, <2>1, <2>2, EmitSized
<1>5. CASE StatusReport(o)
  <2>1. Emit("ack", o, 0, ex[o], "status") \/ Emit("status", o, 0, ex[o], "status")
    BY <1>5 DEF StatusReport
  <2> QED
    BY <1>0, <1>1, <1>2, <2>1, EmitSized
<1> QED
  BY <1>3, <1>4, <1>5 DEF Exchange

LEMMA SendSized == ASSUME IInv, SizedInv, Shapes', Send PROVE SizedInv'
<1> DEFINE cmd == Head(cmds)
<1>1. cmds # <<>> /\ cmds' = Tail(cmds) /\ (Accept(cmd) \/ Reject(cmd))
  BY DEF Send
<1>2. UNCHANGED <<loaded, stored, prev, zmq, raptor, reports, told>>
  BY DEF Send
<1>3. cmd \in Commands /\ 1 \in DOMAIN cmds /\ cmds[1] = cmd
  BY <1>1, TailShifts DEF IInv, Types
<1> HIDE DEF cmd
<1>4. PICK o \in Orders : o = cmd.o
  BY <1>3 DEF Commands
<1>5. UsedTyped /\ Cap \in Nat /\ MaxQty \in Nat /\ MaxQty <= Cap /\ 0 \in 0 .. MaxQty
  BY CapFacts DEF SizedInv
<1>6. /\ cmd.leaves \in Nat /\ cmd.fill \in Nat
      /\ cmd.kind # "cxl" => cmd.leaves <= MaxQty
      /\ cmd.kind = "mod" => cmd.fill + MaxQty <= Cap
  BY <1>3 DEF SizedInv, CommandsSized, Commands
<1>7. /\ ex[o] \in ExBooks /\ ex[o].cum \in Nat /\ ex[o].qty \in 0 .. Cap /\ ex[o].cum <= Cap
  BY BookFacts DEF SizedInv, BooksSized
<1>8. ASSUME NEW kind \in {"ack", "mod", "cxl", "rej", "cxlrej", "replrej"},
             NEW book \in ExBooks, NEW again \in Flags,
             Emit(kind, cmd.o, 0, book, again), book.qty \in 0 .. Cap, book.cum <= Cap
      PROVE  SizedInv'
  <2>1. Emit(kind, o, 0, book, again) /\ again \in {"no", "retransmit", "status"}
    BY <1>4, <1>8 DEF Flags
  <2> QED
    BY <1>1, <1>2, <1>5, <1>8, <2>1, EmitSized
<1> DEFINE dead == [ex[cmd.o] EXCEPT !.st = "dead"]
           more == [ex[cmd.o] EXCEPT !.qty = OrderQty(cmd)]
           fresh == [st |-> "live", qty |-> cmd.leaves, cum |-> 0]
           same == ex[cmd.o]
<1>9. /\ dead \in ExBooks /\ dead.qty = ex[o].qty /\ dead.cum = ex[o].cum
      /\ more \in ExBooks /\ more.qty = cmd.leaves + cmd.fill /\ more.cum = ex[o].cum
      /\ fresh \in ExBooks /\ fresh.qty = cmd.leaves /\ fresh.cum = 0
      /\ same = ex[o]
  BY <1>4, <1>6, <1>7 DEF ExBooks, OrderQty
<1>10. \/ cmd.kind = "new" /\ Reply(cmd, "ack", fresh)
       \/ cmd.kind = "mod" /\ Reply(cmd, "mod", more)
       \/ Reply(cmd, "cxl", dead) \/ Reply(cmd, "rej", dead)
       \/ Reply(cmd, "replrej", same) \/ Reply(cmd, "cxlrej", same)
  <2>1. CASE Accept(cmd)
    BY <2>1 DEF Accept, AcceptNew, AcceptModify
  <2>2. CASE Reject(cmd)
    BY <2>2 DEF Reject
  <2> QED
    BY <1>1, <2>1, <2>2
<1> HIDE DEF dead, more, fresh, same
<1> DEFINE Replied == \E kind \in {"ack", "mod", "cxl", "rej", "cxlrej", "replrej"},
                         book \in ExBooks, again \in Flags :
                            /\ Emit(kind, cmd.o, 0, book, again)
                            /\ book.qty \in 0 .. Cap /\ book.cum <= Cap
<1>11. CASE cmd.kind = "new" /\ Reply(cmd, "ack", fresh)
  <2>1. \E again \in Flags : Emit("ack", cmd.o, 0, fresh, again)
    BY <1>11 DEF Reply
  <2>2. fresh \in ExBooks /\ fresh.qty \in 0 .. Cap /\ fresh.cum <= Cap
    BY <1>5, <1>6, <1>9, <1>11
  <2>3. Replied
    BY <2>1, <2>2
  <2> QED
    BY <1>8, <2>3
<1>12. CASE cmd.kind = "mod" /\ Reply(cmd, "mod", more)
  <2>1. \E again \in Flags : Emit("mod", cmd.o, 0, more, again)
    BY <1>12 DEF Reply
  <2>2. more \in ExBooks /\ more.qty \in 0 .. Cap /\ more.cum <= Cap
    BY <1>5, <1>6, <1>7, <1>9, <1>12
  <2>3. Replied
    BY <2>1, <2>2
  <2> QED
    BY <1>8, <2>3
<1>13. CASE Reply(cmd, "cxl", dead)
  <2>1. \E again \in Flags : Emit("cxl", cmd.o, 0, dead, again)
    BY <1>13 DEF Reply
  <2>2. dead \in ExBooks /\ dead.qty \in 0 .. Cap /\ dead.cum <= Cap
    BY <1>7, <1>9
  <2>3. Replied
    BY <2>1, <2>2
  <2> QED
    BY <1>8, <2>3
<1>14. CASE Reply(cmd, "rej", dead)
  <2>1. \E again \in Flags : Emit("rej", cmd.o, 0, dead, again)
    BY <1>14 DEF Reply
  <2>2. dead \in ExBooks /\ dead.qty \in 0 .. Cap /\ dead.cum <= Cap
    BY <1>7, <1>9
  <2>3. Replied
    BY <2>1, <2>2
  <2> QED
    BY <1>8, <2>3
<1>15. CASE Reply(cmd, "replrej", same)
  <2>1. \E again \in Flags : Emit("replrej", cmd.o, 0, same, again)
    BY <1>15 DEF Reply
  <2>2. same \in ExBooks /\ same.qty \in 0 .. Cap /\ same.cum <= Cap
    BY <1>7, <1>9
  <2>3. Replied
    BY <2>1, <2>2
  <2> QED
    BY <1>8, <2>3
<1>16. CASE Reply(cmd, "cxlrej", same)
  <2>1. \E again \in Flags : Emit("cxlrej", cmd.o, 0, same, again)
    BY <1>16 DEF Reply
  <2>2. same \in ExBooks /\ same.qty \in 0 .. Cap /\ same.cum <= Cap
    BY <1>7, <1>9
  <2>3. Replied
    BY <2>1, <2>2
  <2> QED
    BY <1>8, <2>3
<1> QED
  BY <1>10, <1>11, <1>12, <1>13, <1>14, <1>15, <1>16

LEMMA SendRefusedSized == ASSUME IInv, SizedInv, SendRefused PROVE SizedInv'
<1>1. /\ cmds # <<>> /\ cmds' = Tail(cmds) /\ Use("refused")
      /\ UNCHANGED <<loaded, stored, prev, zmq, ex, responses, raptor, reports, told>>
  BY DEF SendRefused
<1>2. UsedTyped /\ UsedTyped' /\ Cap' = Cap
  BY <1>1, UsedGrows DEF SizedInv
<1> QED
  BY <1>1, <1>2, SizedStay DEF SizedInv

-----------------------------------------------------------------------------
(* The callbacks and the reporter.                                         *)

LEMMA HeadSized ==
    ASSUME IInv, SizedInv, Pop, NEW m, m = Head(responses)
    PROVE  m \in Pods /\ m.last \in Nat /\ m.last <= MaxQty /\ m.leaves \in 0 .. MaxLot
<1>1. m \in Pods /\ m = responses[1] /\ 1 \in DOMAIN responses
  BY TailShifts DEF Pop, IInv, Types
<1> QED
  BY <1>1 DEF Pods, SizedInv, PodsSized

LEMMA DropSized == ASSUME IInv, SizedInv, Drop PROVE SizedInv'
<1>1. Pop /\ UNCHANGED <<loaded, stored, prev, zmq, cmds, ex, raptor, reports, told, used>>
  BY DEF Drop
<1>2. UsedTyped /\ UsedTyped' /\ Cap' = Cap
  BY <1>1, UsedStays DEF SizedInv
<1> QED
  BY <1>1, <1>2, SizedStay DEF SizedInv

LEMMA ApplySized == ASSUME IInv, IInv', SizedInv, Apply PROVE SizedInv'
<1>1. /\ Pop /\ UNCHANGED <<loaded, prev, zmq, cmds, ex, reports, told, used>>
  BY DEF Apply
<1>2. PICK m \in Pods : m = Head(responses)
  BY <1>1, HeadSized
<1>3. PICK o \in Orders : o = m.o
  BY DEF Pods
<1>4. PICK r : r = Updated(m)
  OBVIOUS
<1>5. /\ m.kind \in {"ack", "mod", "cxl", "elim", "fill", "status"}
      /\ stored' = [stored EXCEPT ![o] = r]
      /\ raptor' = [pc |-> "report", o |-> o, pod |-> m]
  BY <1>2, <1>3, <1>4 DEF Apply
<1>6. /\ UsedTyped /\ UsedTyped' /\ Cap' = Cap
      /\ MaxQty \in Nat /\ MaxLot \in Nat /\ Cap \in Nat /\ Cap <= MaxLot
  BY <1>1, UsedStays, CapFacts DEF SizedInv
<1>7. m.last \in Nat /\ m.last <= MaxQty /\ m.leaves \in 0 .. MaxLot
  BY <1>1, <1>2, HeadSized
<1>8. stored[o] \in Recs /\ Sized(stored[o])
  BY DEF IInv, Types, SizedInv, TableSized
<1>9. r.fill <= MaxLot
  <2>1. stored'[o] = r /\ stored'[o] \in Recs
    BY <1>5 DEF IInv, Types
  <2>2. stored'[o].fill <= ex'[o].cum /\ ex'[o].cum = ex[o].cum
    BY <1>1 DEF IInv, CountsUp, RecordCounts
  <2>3. ex[o].cum <= Cap /\ ex[o].cum \in Nat /\ r.fill \in Nat
    BY <2>1, BookFacts DEF SizedInv, BooksSized, Recs
  <2> QED
    BY <1>6, <2>1, <2>2, <2>3
<1>10. r.status # "CXL_REPL_REJECT" /\ r.leaves = m.leaves /\ r.last <= MaxQty
  <2>1. StatusOf(m) # "CXL_REPL_REJECT"
    BY <1>5 DEF StatusOf
  <2>2. Base(m) \in Recs /\ Base(m).last <= MaxQty
    <3>1. CASE ~IsAgain(m)
      BY <1>3, <1>8, <3>1 DEF Base, Sized
    <3>2. CASE IsAgain(m)
      <4>1. AsLoaded(m) \in Recs
        BY StatusKnown DEF AsLoaded, Recs, Pods, Names
      <4>2. AsLoaded(m).last = 0
        BY DEF AsLoaded
      <4> QED
        BY <1>6, <3>2, <4>1, <4>2 DEF Base
    <3> QED
      BY <3>1, <3>2
  <2> DEFINE b == Base(m)
             n == IF IsAgain(m) THEN 0 ELSE m.last
  <2>3. b \in Recs /\ b.last <= MaxQty /\ n <= MaxQty
    BY <1>6, <1>7, <2>2
  <2>4. CASE m.kind \in {"fill", "status"}
    <3>1. r.status = StatusOf(m) /\ r.leaves = m.leaves /\ r.last = n
      BY <1>4, <2>3, <2>4 DEF Updated, MinOrderExecution, Recs
    <3> QED
      BY <2>1, <2>3, <3>1
  <2>5. CASE m.kind \notin {"fill", "status"}
    <3>1. r.status = StatusOf(m) /\ r.leaves = m.leaves /\ r.last = b.last
      BY <1>4, <2>3, <2>5 DEF Updated, MinOrderUpdate, Recs
    <3> QED
      BY <2>1, <2>3, <3>1
  <2> QED
    BY <2>4, <2>5
<1>11. TableSized'
  <2>1. Sized(r)
    BY <1>7, <1>9, <1>10 DEF Sized
  <2> QED
    BY <1>1, <1>5, <2>1, StoredSized
<1>12. CallbackSized'
  BY <1>5 DEF CallbackSized, Rejecting
<1> QED
  BY <1>1, <1>6, <1>11, <1>12, SizedStay DEF SizedInv

LEMMA ProcessOrderSized == ASSUME IInv, SizedInv, ProcessOrder PROVE SizedInv'
<1>1. raptor \in Reporting /\ raptor # Idle
  BY DEF ProcessOrder, IInv, Types, Idle, Rejecting
<1>2. PICK o \in Orders : o = raptor.o
  BY <1>1 DEF Reporting
<1>3. PICK r : r = [o |-> o, ord |-> stored[o], rejected |-> FALSE]
  OBVIOUS
<1>4. /\ reports' = Append(reports, r)
      /\ raptor' = Idle \/ raptor' = [raptor EXCEPT !.pc = "forget"]
      /\ UNCHANGED <<loaded, stored, prev, zmq, cmds, ex, responses, told, used>>
  BY <1>2, <1>3 DEF ProcessOrder, Report, Push
<1>u. UNCHANGED <<loaded, stored, prev, zmq, cmds, ex, responses, told, used>>
  BY <1>4
<1>5. UsedTyped /\ UsedTyped' /\ Cap' = Cap
  BY <1>u, UsedStays DEF SizedInv
<1>6. ReportsSized'
  <2>1. r \in Reports /\ r.ord = stored[o]
    BY <1>3 DEF Reports, IInv, Types
  <2>2. Sized(r.ord)
    BY <2>1 DEF SizedInv, TableSized
  <2> QED
    BY <1>4, <2>1, <2>2, ReportSized
<1>7. CallbackSized'
  <2>1. CASE raptor' = Idle
    BY <2>1 DEF CallbackSized, Rejecting, Idle
  <2>2. CASE raptor' = [raptor EXCEPT !.pc = "forget"]
    <3>1. raptor'.pc = "forget"
      BY <1>1, <2>2 DEF Reporting
    <3> QED
      BY <3>1 DEF CallbackSized, Rejecting
  <2> QED
    BY <1>4, <2>1, <2>2
<1> QED
  BY <1>u, <1>5, <1>6, <1>7, SizedStay DEF SizedInv

LEMMA ForgetSized == ASSUME IInv, SizedInv, Forget PROVE SizedInv'
<1>1. /\ prev' = [prev EXCEPT ![raptor.o] = NoEntry] /\ raptor' = Idle
      /\ UNCHANGED <<loaded, stored, zmq, cmds, ex, responses, reports, told, used>>
  BY DEF Forget
<1>u. raptor' = Idle /\ UNCHANGED <<loaded, stored, zmq, cmds, ex, responses, reports, told, used>>
  BY <1>1
<1>2. UsedTyped /\ UsedTyped' /\ Cap' = Cap
  BY <1>u, UsedStays DEF SizedInv
<1>3. TableSized'
  <2>1. \A x \in Orders : prev'[x] = NoEntry \/ prev'[x] = prev[x]
    BY <1>1 DEF IInv, Types
  <2> QED
    BY <1>u, <2>1 DEF SizedInv, TableSized, Sized
<1> QED
  BY <1>u, <1>2, <1>3, SizedStay DEF SizedInv

LEMMA MinOrderRejectSized == ASSUME IInv, SizedInv, MinOrderReject PROVE SizedInv'
<1>1. Pop
  BY DEF MinOrderReject
<1>2. PICK m \in Pods : m = Head(responses)
  BY <1>1, HeadSized
<1>3. PICK o \in Orders : o = m.o
  BY DEF Pods
<1>4. PICK ord : ord = [NoPod EXCEPT !.status = "REJECTED", !.state = "COMPLETE"]
  OBVIOUS
<1>5. PICK r : r = [o |-> o, ord |-> ord, rejected |-> FALSE]
  OBVIOUS
<1>6. /\ reports' = Append(reports, r)
      /\ UNCHANGED <<loaded, stored, prev, zmq, cmds, ex, raptor, told, used>>
  BY <1>2, <1>3, <1>4, <1>5 DEF MinOrderReject, Report, Push
<1>u. UNCHANGED <<loaded, stored, prev, zmq, cmds, ex, raptor, told, used>>
  BY <1>6
<1>7. UsedTyped /\ UsedTyped' /\ Cap' = Cap
  BY <1>u, UsedStays DEF SizedInv
<1>8. ReportsSized'
  <2>1. ord \in Recs
    BY <1>4, NoPodIsRecord DEF Recs, Statuses, States
  <2>2. Sized(ord)
    BY <1>4, NoPodSized DEF NoPod, Sized
  <2>3. r \in Reports /\ r.ord = ord
    BY <1>5, <2>1 DEF Reports
  <2> QED
    BY <1>6, <2>2, <2>3, ReportSized
<1> QED
  BY <1>1, <1>u, <1>7, <1>8, SizedStay DEF SizedInv

LEMMA TakeSnapshotSized == ASSUME IInv, SizedInv, TakeSnapshot PROVE SizedInv'
<1>1. Pop
  BY DEF TakeSnapshot
<1>2. PICK m \in Pods : m = Head(responses)
  BY <1>1, HeadSized
<1>3. PICK o \in Orders : o = m.o
  BY DEF Pods
<1>4. /\ m.kind \in {"cxlrej", "replrej"}
      /\ prev' = [prev EXCEPT ![o] = NoEntry]
      /\ raptor' = IF m.kind = "replrej" /\ prev[o] = NoEntry THEN Idle
                   ELSE [pc |-> m.kind, o |-> o, pod |-> m, old |-> prev[o]]
      /\ UNCHANGED <<loaded, stored, zmq, cmds, ex, reports, told, used>>
  BY <1>2, <1>3 DEF TakeSnapshot
<1>u. UNCHANGED <<loaded, stored, zmq, cmds, ex, reports, told, used>>
  BY <1>4
<1>5. UsedTyped /\ UsedTyped' /\ Cap' = Cap
  BY <1>u, UsedStays DEF SizedInv
<1>6. TableSized'
  <2>1. \A x \in Orders : prev'[x] = NoEntry \/ prev'[x] = prev[x]
    BY <1>4 DEF IInv, Types
  <2> QED
    BY <1>u, <2>1 DEF SizedInv, TableSized, Sized
<1>7. CallbackSized'
  <2>1. raptor' = Idle \/ (raptor'.pc = m.kind /\ raptor'.pod = m /\ raptor'.old = prev[o])
    BY <1>4
  <2>2. CASE raptor' = Idle
    BY <2>2 DEF CallbackSized, Rejecting, Idle
  <2>3. CASE raptor'.pc = m.kind /\ raptor'.pod = m /\ raptor'.old = prev[o]
    <3>1. raptor'.pod.kind = raptor'.pc
      BY <2>3
    <3>2. prev[o] = NoEntry \/ Sized(prev[o])
      BY DEF SizedInv, TableSized
    <3> QED
      BY <2>3, <3>1, <3>2 DEF CallbackSized, Sized
  <2> QED
    BY <2>1, <2>2, <2>3
<1> QED
  BY <1>1, <1>u, <1>5, <1>6, <1>7, SizedStay DEF SizedInv

LEMMA RejectionSized ==
    ASSUME IInv, SizedInv, NEW o \in Orders, NEW ord \in Recs, NEW r \in Reports,
           Sized(ord), Sized(r.ord), stored' = [stored EXCEPT ![o] = ord],
           reports' = Append(reports, r), raptor' = Idle,
           UNCHANGED <<loaded, prev, zmq, cmds, ex, responses, told, used>>
    PROVE  SizedInv'
<1>1. UsedTyped /\ UsedTyped' /\ Cap' = Cap
  BY UsedStays DEF SizedInv
<1>2. TableSized'
  BY StoredSized
<1>3. ReportsSized'
  BY ReportSized
<1> QED
  BY <1>1, <1>2, <1>3, SizedStay DEF SizedInv

LEMMA CancelRejectSized == ASSUME IInv, SizedInv, MinOrderCancelReject PROVE SizedInv'
<1>1. raptor \in Rejecting /\ raptor.pc = "cxlrej"
  BY DEF MinOrderCancelReject, IInv, Types, Idle, Reporting
<1>2. PICK o \in Orders : o = raptor.o
  BY <1>1 DEF Rejecting
<1>3. PICK status : status = IF raptor.old = NoEntry THEN StatusOf(raptor.pod) ELSE raptor.old.status
  OBVIOUS
<1>4. PICK ord : ord = [stored[o] EXCEPT !.status = status]
  OBVIOUS
<1>5. PICK r : r = [o |-> o, ord |-> ord, rejected |-> TRUE]
  OBVIOUS
<1>6. /\ stored' = [stored EXCEPT ![o] = ord] /\ reports' = Append(reports, r)
      /\ raptor' = Idle
      /\ UNCHANGED <<loaded, prev, zmq, cmds, ex, responses, told, used>>
  BY <1>2, <1>3, <1>4, <1>5 DEF MinOrderCancelReject, Report, Push
<1>7. raptor.pod.kind = "cxlrej" /\ (raptor.old = NoEntry \/ Sized(raptor.old))
  BY <1>1 DEF SizedInv, CallbackSized
<1>8. status \in Statuses /\ status # "CXL_REPL_REJECT"
  <2>1. CASE raptor.old = NoEntry
    <3>1. StatusOf(raptor.pod) = "CXL_REJECT"
      BY <1>7 DEF StatusOf
    <3> QED
      BY <1>3, <2>1, <3>1 DEF Statuses
  <2>2. CASE raptor.old # NoEntry
    BY <1>1, <1>3, <1>7, <2>2 DEF Sized, Rejecting, Recs
  <2> QED
    BY <2>1, <2>2
<1>9. ord \in Recs /\ Sized(ord)
  <2>1. stored[o] \in Recs /\ Sized(stored[o])
    BY DEF IInv, Types, SizedInv, TableSized
  <2> QED
    BY <1>4, <1>8, <2>1 DEF Recs, Sized
<1>10. r \in Reports /\ r.ord = ord
  BY <1>5, <1>9 DEF Reports
<1> QED
  BY <1>6, <1>9, <1>10, RejectionSized

LEMMA CancelReplaceRejectSized ==
    ASSUME IInv, SizedInv, MinOrderCancelReplaceReject
    PROVE  SizedInv'
<1>1. raptor \in Rejecting /\ raptor.pc = "replrej"
  BY DEF MinOrderCancelReplaceReject, IInv, Types, Idle, Reporting
<1>2. PICK o \in Orders : o = raptor.o
  BY <1>1 DEF Rejecting
<1>3. PICK old \in Recs : old = raptor.old
  BY <1>1 DEF Rejecting
<1>4. PICK ord : ord = [stored[o] EXCEPT !.leaves = old.leaves, !.status = old.status,
                                         !.state = old.state]
  OBVIOUS
<1>5. PICK shown : shown = [old EXCEPT !.fillType = "UNKNOWN", !.num = o]
  OBVIOUS
<1>6. PICK r : r = [o |-> o, ord |-> shown, rejected |-> FALSE]
  OBVIOUS
<1>7. stored' = [stored EXCEPT ![o] = ord]
  <2>1. stored' = [stored EXCEPT ![o].leaves = old.leaves, ![o].status = old.status,
                                 ![o].state = old.state]
    BY <1>2, <1>3 DEF MinOrderCancelReplaceReject
  <2> QED
    BY <1>4, <2>1 DEF IInv, Types
<1>8. /\ reports' = Append(reports, r) /\ raptor' = Idle
      /\ UNCHANGED <<loaded, prev, zmq, cmds, ex, responses, told, used>>
  BY <1>2, <1>3, <1>5, <1>6 DEF MinOrderCancelReplaceReject, Report, Push
<1>9. Sized(old)
  <2>1. old.status # "none"
    BY <1>1, <1>3 DEF IInv, KnownFirst
  <2>2. old # NoEntry
    BY <2>1 DEF NoEntry, NoPod
  <2> QED
    BY <1>1, <1>3, <2>2 DEF SizedInv, CallbackSized
<1>10. ord \in Recs /\ Sized(ord)
  <2>1. stored[o] \in Recs /\ Sized(stored[o])
    BY DEF IInv, Types, SizedInv, TableSized
  <2> QED
    BY <1>4, <1>9, <2>1 DEF Recs, Sized
<1>11. shown \in Recs /\ Sized(shown)
  BY <1>5, <1>9 DEF Recs, Sized, Names
<1>12. r \in Reports /\ r.ord = shown
  BY <1>6, <1>11 DEF Reports
<1> QED
  BY <1>7, <1>8, <1>10, <1>11, <1>12, RejectionSized

LEMMA RunSized == ASSUME IInv, SizedInv, Run PROVE SizedInv'
<1>1. /\ reports # <<>> /\ reports' = Tail(reports)
      /\ UNCHANGED <<loaded, stored, prev, zmq, cmds, ex, responses, raptor, used>>
  BY DEF Run
<1>2. PICK r \in Reports : r = Head(reports) /\ Sized(r.ord)
  <2>1. Head(reports) \in Reports /\ Head(reports) = reports[1] /\ 1 \in DOMAIN reports
    BY <1>1, TailShifts DEF IInv, Types
  <2> QED
    BY <2>1 DEF SizedInv, ReportsSized
<1>3. PICK o \in Orders : o = r.o
  BY DEF Reports
<1>4. /\ told'[o].leaves = IF r.rejected THEN stored[o].leaves ELSE r.ord.leaves
      /\ \A x \in Orders : x # o => told'[x] = told[x]
  BY <1>2, <1>3 DEF Run, IInv, Types
<1>5. UsedTyped /\ UsedTyped' /\ Cap' = Cap
  BY <1>1, UsedStays DEF SizedInv
<1>6. ClientSized'
  <2>1. told'[o].leaves \in 0 .. MaxLot
    BY <1>2, <1>4 DEF SizedInv, TableSized, Sized
  <2> QED
    BY <1>4, <2>1 DEF SizedInv, ClientSized
<1> QED
  BY <1>1, <1>5, <1>6, SizedStay DEF SizedInv

LEMMA SizedFirst == Init => SizedInv
<1> SUFFICES ASSUME Init PROVE SizedInv
  OBVIOUS
<1>1. /\ responses = <<>> /\ reports = <<>> /\ cmds = <<>> /\ zmq = Idle /\ raptor = Idle
      /\ prev = [o \in Orders |-> NoEntry]
      /\ stored = [o \in Orders |-> IF o \in loaded THEN LoadedRecord(o, ex[o]) ELSE NoPod]
      /\ \A o \in Orders : told[o].leaves = Open(o)
      /\ loaded \subseteq Orders
      /\ used = [requests |-> 0, resent |-> 0, refused |-> 0]
  BY DEF Init
<1>2. UsedTyped
  BY <1>1, OrderConstants DEF UsedTyped
<1>3. /\ Cap \in Nat /\ MaxLot \in Nat /\ MaxQty \in Nat /\ MaxQty <= Cap /\ Cap <= MaxLot
  BY <1>2, CapFacts
<1>4. DOMAIN responses = {} /\ DOMAIN reports = {} /\ DOMAIN cmds = {}
  BY <1>1
<1>5. ASSUME NEW o \in Orders
      PROVE  /\ ex[o].qty \in Nat /\ ex[o].qty <= MaxQty /\ ex[o].cum \in Nat
             /\ ex[o].cum <= ex[o].qty
             /\ ex[o].st = "live" => ex[o].cum < ex[o].qty
             /\ o \in loaded <=> ex[o].st = "live"
  <2>1. ex[o] \in Books \/ ex[o] = [st |-> "none", qty |-> 0, cum |-> 0]
    BY DEF Init
  <2>2. o \in loaded <=> ex[o].st = "live"
    BY DEF Init
  <2>3. CASE ex[o] \in Books
    BY <1>3, <2>2, <2>3 DEF Books
  <2>4. CASE ex[o] = [st |-> "none", qty |-> 0, cum |-> 0]
    BY <1>3, <2>2, <2>4
  <2> QED
    BY <2>1, <2>3, <2>4
<1>6. BooksSized
  BY <1>3, <1>5 DEF BooksSized
<1>7. TableSized
  <2> SUFFICES ASSUME NEW o \in Orders PROVE Sized(stored[o]) /\ prev[o] = NoEntry
    BY DEF TableSized
  <2>1. CASE o \in loaded
    <3>1. /\ stored[o].status \in {"NEW", "PARTIALLY_FILLED"} /\ stored[o].fill = ex[o].cum
          /\ stored[o].leaves = ex[o].qty - ex[o].cum /\ stored[o].last = 0
      BY <1>1, <2>1 DEF LoadedRecord
    <3> QED
      BY <1>1, <1>3, <1>5, <3>1 DEF Sized
  <2>2. CASE o \notin loaded
    BY <1>1, <2>2, NoPodSized
  <2> QED
    BY <2>1, <2>2
<1>8. ClientSized
  BY <1>1, <1>3, <1>5 DEF ClientSized, Open
<1>9. RequestSized /\ CommandsSized /\ PodsSized /\ ReportsSized /\ CallbackSized
  BY <1>1, <1>4 DEF RequestSized, CommandsSized, PodsSized, ReportsSized, CallbackSized,
     Rejecting, Idle
<1> QED
  BY <1>1, <1>2, <1>6, <1>7, <1>8, <1>9 DEF SizedInv

LEMMA SizedStep == IInv /\ IInv' /\ Shapes' /\ SizedInv /\ [Next]_vars => SizedInv'
<1> SUFFICES ASSUME IInv, IInv', Shapes', SizedInv, [Next]_vars PROVE SizedInv'
  OBVIOUS
<1>1. CASE \E o \in Orders : Client(o)
  <2>1. PICK o \in Orders : Client(o)
    BY <1>1
  <2>2. MaxQty \in Nat
    BY OrderConstants
  <2>3. ASSUME NEW q \in 1 .. MaxQty, HandleNewOrder(o, q) PROVE SizedInv'
    BY <2>3, NewOrderSized
  <2>4. ASSUME NEW q \in 1 .. MaxQty, HandleModifyOrder(o, q) PROVE SizedInv'
    <3>1. q \in 0 .. MaxQty
      BY <2>2
    <3> QED
      BY <2>4, <3>1, BeginSized DEF HandleModifyOrder
  <2>5. CASE HandleCancelOrder(o)
    <3>1. 0 \in 0 .. MaxQty
      BY <2>2
    <3> QED
      BY <2>5, <3>1, BeginSized DEF HandleCancelOrder
  <2> QED
    BY <2>1, <2>3, <2>4, <2>5 DEF Client
<1>2. CASE \E o \in Orders : Exchange(o)
  BY <1>2, ExchangeSized
<1>3. CASE ZmqThread
  BY <1>3, SnapshotSized, SendOrderSized DEF ZmqThread
<1>4. CASE Send \/ SendRefused
  BY <1>4, SendSized, SendRefusedSized
<1>5. CASE Raptor
  BY <1>5, DropSized, ApplySized, ProcessOrderSized, ForgetSized, MinOrderRejectSized,
     TakeSnapshotSized, CancelRejectSized, CancelReplaceRejectSized DEF Raptor
<1>6. CASE Run
  BY <1>6, RunSized
<1>7. CASE UNCHANGED vars
  <2>1. UNCHANGED <<loaded, stored, prev, zmq, cmds, ex, responses, raptor, reports, told, used>>
    BY <1>7 DEF vars
  <2>2. UsedTyped /\ UsedTyped' /\ Cap' = Cap
    BY <2>1, UsedStays DEF SizedInv
  <2> QED
    BY <2>1, <2>2, SizedStay DEF SizedInv
<1> QED
  BY <1>1, <1>2, <1>3, <1>4, <1>5, <1>6, <1>7 DEF Next

-----------------------------------------------------------------------------
(* The client's TypeOK.                                                    *)

LEMMA SeqWithin ==
    ASSUME NEW S, NEW T, NEW s \in Seq(S), \A i \in DOMAIN s : s[i] \in T
    PROVE  s \in Seq(T)
<1>1. Len(s) \in Nat /\ DOMAIN s = 1 .. Len(s) /\ s = [i \in 1 .. Len(s) |-> s[i]]
  BY LenProperties
<1>2. s \in [1 .. Len(s) -> T]
  BY <1>1
<1> QED
  BY <1>1, <1>2, SeqDef

LEMMA RecordOf ==
    ASSUME NEW r \in Recs, Sized(r), MaxLot \in Nat, MaxQty \in Nat
    PROVE  r \in Records
<1>1. r.fill \in 0 .. MaxLot /\ r.last \in 0 .. MaxQty /\ r.leaves \in 0 .. MaxLot
  BY DEF Recs, Sized
<1>2. r.status \in Statuses \ {"CXL_REPL_REJECT"}
  BY DEF Recs, Sized
<1> QED
  BY <1>1, <1>2 DEF Recs, Records, Statuses, States, Names

\* Every variable has its type, and a quantity is what was asked for and what was
\* traded before: a request adds what it may ask for at most once to what an order
\* may trade, for any number of orders, quantities, requests, retransmissions and
\* refusals, and however the threads overtake each other (ModifyOrderEncodeMan,
\* minOrderUpdate, minOrderExecution, the reject callbacks).
THEOREM SpecTypeOK == Spec => []TypeOK
<1>1. IInv /\ SpoiledType /\ SizedInv => TypeOK
  <2> SUFFICES ASSUME IInv, SpoiledType, SizedInv PROVE TypeOK
    OBVIOUS
  <2>1. /\ Cap \in Nat /\ MaxLot \in Nat /\ MaxQty \in Nat /\ Cap <= MaxLot
    BY CapFacts DEF SizedInv
  <2>2. Types
    BY DEF IInv
  <2>3. stored \in [Orders -> Records] /\ \A o \in Orders : prev[o] \in Records \cup {NoEntry}
    BY <2>1, <2>2, RecordOf DEF Types, SizedInv, TableSized
  <2>4. /\ zmq.pc \in {"idle", "snapshot", "send"} /\ zmq.o \in Orders \cup {None}
        /\ zmq # Idle => /\ zmq.ord \in Records
                         /\ zmq.kind \in {"mod", "cxl"} /\ zmq.asked \in 0 .. MaxQty
    <3>1. CASE zmq = Idle
      BY <3>1 DEF Idle
    <3>2. CASE zmq # Idle
      <4>1. zmq \in Requesting /\ Sized(zmq.ord) /\ zmq.asked \in 0 .. MaxQty
        BY <2>2, <3>2 DEF Types, SizedInv, RequestSized
      <4> QED
        BY <2>1, <3>2, <4>1, RecordOf DEF Requesting
    <3> QED
      BY <3>1, <3>2
  <2>5. \A o \in Orders : ex[o].cum \in Nat /\ ex[o].cum <= Cap /\ ex[o].cum \in 0 .. MaxLot
    BY <2>1, <2>2 DEF Types, ExBooks, SizedInv, BooksSized
  <2>6. ex \in [Orders -> [st : {"none", "live", "dead"}, qty : 0 .. MaxLot, cum : 0 .. MaxLot]]
    BY <2>1, <2>2, <2>5 DEF Types, ExBooks, SizedInv, BooksSized
  <2>7. cmds \in Seq([o : Orders, kind : {"new", "mod", "cxl"},
                      leaves : 0 .. MaxLot, fill : 0 .. MaxLot])
    <3>1. ASSUME NEW i \in DOMAIN cmds
          PROVE  cmds[i] \in [o : Orders, kind : {"new", "mod", "cxl"},
                              leaves : 0 .. MaxLot, fill : 0 .. MaxLot]
      <4>1. cmds[i] \in Commands
        BY <2>2, ElementOfSeq, LenProperties DEF Types
      <4>2. cmds[i].o \in Orders /\ cmds[i].fill \in Nat /\ cmds[i].fill <= ex[cmds[i].o].cum
        BY <4>1 DEF Commands, IInv, CountsUp, CommandCounts
      <4>3. cmds[i].fill \in 0 .. MaxLot
        BY <2>1, <2>5, <4>2
      <4>4. cmds[i].leaves \in 0 .. MaxLot
        BY DEF SizedInv, CommandsSized
      <4> QED
        BY <4>1, <4>3, <4>4 DEF Commands
    <3> QED
      BY <2>2, <3>1, SeqWithin DEF Types
  <2>8. responses \in Seq([kind : Answers \cup {"ack", "rej", "fill", "elim", "status"},
                           o : Orders, last : 0 .. MaxQty, cum : 0 .. MaxLot,
                           leaves : 0 .. MaxLot, num : Orders \cup {None},
                           again : {"no", "retransmit", "status"}])
    <3>1. ASSUME NEW i \in DOMAIN responses
          PROVE  responses[i] \in [kind : Answers \cup {"ack", "rej", "fill", "elim", "status"},
                           o : Orders, last : 0 .. MaxQty, cum : 0 .. MaxLot,
                           leaves : 0 .. MaxLot, num : Orders \cup {None},
                           again : {"no", "retransmit", "status"}]
      <4>1. responses[i] \in Pods
        BY <2>2, ElementOfSeq, LenProperties DEF Types
      <4>2. /\ responses[i].o \in Orders /\ responses[i].cum \in Nat
            /\ responses[i].cum <= ex[responses[i].o].cum
        BY <4>1 DEF Pods, IInv, CountsUp, MessageCounts
      <4>3. responses[i].cum \in 0 .. MaxLot
        BY <2>1, <2>5, <4>2
      <4>4. responses[i].leaves \in 0 .. MaxLot /\ responses[i].last <= MaxQty
        BY DEF SizedInv, PodsSized
      <4>5. responses[i].last \in 0 .. MaxQty
        BY <2>1, <4>1, <4>4 DEF Pods
      <4> QED
        BY <4>1, <4>3, <4>4, <4>5 DEF Pods, Names
    <3> QED
      BY <2>2, <3>1, SeqWithin DEF Types
  <2>9. reports \in Seq([o : Orders, ord : Records, rejected : BOOLEAN])
    <3>1. ASSUME NEW i \in DOMAIN reports
          PROVE  reports[i] \in [o : Orders, ord : Records, rejected : BOOLEAN]
      <4>1. reports[i] \in Reports
        BY <2>2, ElementOfSeq, LenProperties DEF Types
      <4>2. Sized(reports[i].ord) /\ reports[i].ord \in Recs
        BY <4>1 DEF SizedInv, ReportsSized, Reports
      <4>3. reports[i].ord \in Records
        BY <2>1, <4>2, RecordOf
      <4> QED
        BY <4>1, <4>3 DEF Reports
    <3> QED
      BY <2>2, <3>1, SeqWithin DEF Types
  <2>10. podNum \in Orders \cup {None}
    BY <2>2 DEF Types, Names
  <2>11. raptor.pc \in {"idle", "report", "forget", "cxlrej", "replrej"}
    BY <2>2 DEF Types, Idle, Reporting, Rejecting
  <2>12. \A o \in Orders : told[o].leaves \in 0 .. MaxLot /\ told[o].fills \in Nat
    BY <2>2 DEF Types, SizedInv, ClientSized
  <2> QED
    BY <2>3, <2>4, <2>6, <2>7, <2>8, <2>9, <2>10, <2>11, <2>12
    DEF TypeOK, SizedInv, UsedTyped, SpoiledType
<1>2. Init => FillsInv /\ ToldInv /\ SizedInv
  BY FillsFirst, ToldFirst, SizedFirst
<1>3. IInv /\ FillsInv /\ [Next]_vars => FillsInv'
  BY FillsStep
<1>4. IInv /\ IInv' /\ FillsInv /\ ToldInv /\ [Next]_vars => ToldInv'
  BY ToldStep
<1>5. IInv /\ IInv' /\ ToldInv' /\ SizedInv /\ [Next]_vars => SizedInv'
  BY SizedStep DEF ToldInv
<1>6. FillsInv => SpoiledType
  BY DEF FillsInv
<1> QED
  BY <1>1, <1>2, <1>3, <1>4, <1>5, <1>6, AlwaysIInv, PTL DEF Spec

=============================================================================
