--------------------------- MODULE OmnetBdxThread ---------------------------
(***************************************************************************)
(* OmnetBdxThread: the thread that reads the exchange's broadcasts from a  *)
(* session of its own and puts what ParseBO5 makes of them in its SPSC     *)
(* response queue.                                                         *)
(*                                                                         *)
(* A read returns a buffer with several broadcasts, parsed one by one.  A  *)
(* read that returns ALLEVTS leaves the length at that of the whole        *)
(* buffer, and what earlier reads left behind the new broadcasts is parsed *)
(* again.                                                                  *)
(* Broadcasts reach a session from its subscription on: those sent while   *)
(* the session is lost are not repeated.  Network events other than the    *)
(* forced logout BN4, BD6 (which is only logged) and the settlement        *)
(* broadcasts leave no trace in this state.                                *)
(***************************************************************************)
EXTENDS OmnetExchange, OmnetSession

CONSTANTS
  BdxSession,       \* the session of the BDX thread
  BdxQueueBound,    \* what _bdxResponseQueue holds
  MaxStale          \* no buffer is parsed again after this many broadcasts were

ASSUME BdxAssumption ==
  BdxSession \in Sessions /\ BdxQueueBound \in Nat \ {0} /\ MaxStale \in Nat

VARIABLES
  bpc,       \* where the thread is
  bactive,   \* _active
  next,      \* the next broadcast of the tape for this session
  unread,    \* how many new broadcasts of the buffer are not parsed yet
  evbuf,     \* evbuf: the broadcasts it may hold, named by their place on the tape
  again,     \* those of them that are parsed again after the new ones
  bdxQ,      \* _bdxResponseQueue, oldest first
  (* what happened, for the properties *)
  skipped,   \* the broadcasts this session was never given
  stale      \* the broadcasts that were parsed again, in order

bufferVars == <<evbuf, again, stale>>
bdxVars == <<bpc, bactive, next, unread, bdxQ, skipped, bufferVars>>

BdxTypeOK ==
  /\ bpc \in {"none", "run", "logout", "backoff", "ended", "joined"}
  /\ bactive \in BOOLEAN
  /\ next \in 1..(Len(tape) + 1)
  /\ unread \in 0..(Len(tape) + 1 - next)
  /\ Len(bdxQ) <= BdxQueueBound
  /\ skipped \subseteq 1..(next - 1)
  /\ evbuf \in Seq(DOMAIN tape) /\ again \in Seq(DOMAIN tape) /\ stale \in Seq(DOMAIN tape)

BdxInit ==
  /\ bpc = "none"
  /\ bactive = FALSE
  /\ next = 1
  /\ unread = 0
  /\ bdxQ = <<>>
  /\ skipped = {}
  /\ evbuf = <<>> /\ again = <<>> /\ stale = <<>>

Pending == Len(tape) + 1 - next

\* SubscribeAll(): from now on.
Subscribe ==
  /\ next' = Len(tape) + 1
  /\ skipped' = skipped \cup next..Len(tape)

\* _responseQueue.enqueue(ord), its result ignored: a full queue drops it.
Enqueued(q, ords) == IF Len(q) + Len(ords) <= BdxQueueBound THEN q \o ords ELSE q

-----------------------------------------------------------------------------
(* Start and Stop, in the thread that calls them. *)

BdxStart ==
  /\ bpc = "none"
  /\ \/ /\ LoginSucceeds(BdxSession)
        /\ Subscribe
        /\ bactive' = TRUE
        /\ bpc' = "run"
     \/ /\ LoginFails(BdxSession)
        /\ UNCHANGED <<next, skipped, bactive, bpc>>
  /\ UNCHANGED <<unread, bdxQ, bufferVars, exchVars>>

BdxRequestStop ==
  /\ bactive' = FALSE
  /\ UNCHANGED <<bpc, next, unread, bdxQ, skipped, bufferVars, exchVars, sessVars>>

BdxJoin ==
  /\ bpc = "ended"
  /\ ~bactive
  /\ Logout(BdxSession)
  /\ bpc' = "joined"
  /\ UNCHANGED <<bactive, next, unread, bdxQ, skipped, bufferVars, exchVars>>

-----------------------------------------------------------------------------
(* Run. *)

BufferDone == unread = 0 /\ again = <<>>
Polls == bpc = "run" /\ BufferDone /\ bactive

\* The old broadcasts evbuf may hold behind k new ones, which overwrite one at
\* least.
Behind(k) == IF k = 0 THEN evbuf ELSE SubSeq(evbuf, 2, Len(evbuf))

\* A read puts the next k broadcasts at the head of evbuf.  With SUCCESS the
\* parser stops there; with ALLEVTS it reads on, through the old ones that
\* neither these nor broadcasts of other kinds have overwritten.
Received(k) ==
  LET new == [i \in 1..k |-> next + i - 1]
      old == Behind(k)
  IN /\ unread' = k
     /\ \/ again' = <<>> /\ evbuf' = new \o old
        \/ /\ Len(stale) < MaxStale
           /\ \E first \in DOMAIN old : again' = SubSeq(old, first, Len(old))
           /\ evbuf' = new \o again'
     /\ UNCHANGED stale

\* A read that returns the first k pending broadcasts.
BdxRead ==
  /\ Polls
  /\ Connected(BdxSession)
  /\ \E k \in 0..Pending : Received(k)
  /\ UNCHANGED <<bpc, bactive, next, bdxQ, skipped, exchVars, sessVars>>

\* A read that returns OVERFLOW: broadcasts are gone, and Run reads on.
BdxOverflow ==
  /\ Polls
  /\ Connected(BdxSession)
  /\ \E k \in 1..Pending : /\ next' = next + k
                           /\ skipped' = skipped \cup next..(next + k - 1)
  /\ UNCHANGED <<bpc, bactive, unread, bdxQ, bufferVars, exchVars, sessVars>>

\* The gateway forces the session out and says so with BN4, somewhere in the
\* buffer: the thread finishes the buffer and ends.
BdxForcedLogout ==
  /\ Polls
  /\ Connected(BdxSession)
  /\ \E k \in 0..Pending : Received(k)
  /\ bactive' = FALSE
  /\ LinkLost(BdxSession, "out")
  /\ UNCHANGED <<bpc, next, bdxQ, skipped, exchVars>>

\* Mutant of BdxParse: a buffer is taken for one broadcast.
MutBdxParse ==
  /\ bpc = "run"
  /\ unread > 0
  /\ bdxQ' = Enqueued(bdxQ, ParseBO5(tape[next]))
  /\ next' = next + unread
  /\ unread' = 0
  /\ UNCHANGED <<bpc, bactive, skipped, bufferVars, exchVars, sessVars>>

\* One broadcast of the buffer.
BdxParse ==
  /\ bpc = "run"
  /\ unread > 0
  /\ bdxQ' = Enqueued(bdxQ, ParseBO5(tape[next]))
  /\ next' = next + 1
  /\ unread' = unread - 1
  /\ UNCHANGED <<bpc, bactive, skipped, bufferVars, exchVars, sessVars>>

\* One of the old broadcasts behind them.
BdxParseAgain ==
  /\ bpc = "run"
  /\ unread = 0
  /\ again # <<>>
  /\ bdxQ' = Enqueued(bdxQ, ParseBO5(tape[Head(again)]))
  /\ stale' = Append(stale, Head(again))
  /\ again' = Tail(again)
  /\ UNCHANGED <<bpc, bactive, next, unread, skipped, evbuf, exchVars, sessVars>>

\* A read that finds the session gone: MarkDead(), and Reconnect().
BdxSessionLost ==
  /\ Polls
  /\ ~Connected(BdxSession)
  /\ MarkDead(BdxSession)
  /\ bpc' = "logout"
  /\ UNCHANGED <<bactive, next, unread, bdxQ, skipped, bufferVars, exchVars>>

BdxReconnectLogout ==
  /\ bpc = "logout"
  /\ Logout(BdxSession)
  /\ bpc' = "backoff"
  /\ UNCHANGED <<bactive, next, unread, bdxQ, skipped, bufferVars, exchVars>>

\* The end of the backoff: stopped, logged in again, or not.
BdxRelogin ==
  /\ bpc = "backoff"
  /\ \/ /\ ~bactive
        /\ UNCHANGED <<next, skipped, sessVars>>
     \/ /\ bactive
        /\ LoginSucceeds(BdxSession)
        /\ Subscribe
     \/ /\ bactive
        /\ LoginFails(BdxSession)
        /\ UNCHANGED <<next, skipped>>
  /\ bpc' = "run"
  /\ UNCHANGED <<bactive, unread, bdxQ, bufferVars, exchVars>>

BdxLeave ==
  /\ bpc = "run"
  /\ BufferDone
  /\ ~bactive
  /\ bpc' = "ended"
  /\ UNCHANGED <<bactive, next, unread, bdxQ, skipped, bufferVars, exchVars, sessVars>>

BdxStep ==
  \/ BdxRead \/ BdxOverflow \/ BdxForcedLogout \/ BdxParse \/ BdxParseAgain
  \/ BdxSessionLost \/ BdxReconnectLogout \/ BdxRelogin \/ BdxLeave
=============================================================================
