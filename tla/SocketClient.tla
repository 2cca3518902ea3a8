---------------------------- MODULE SocketClient -----------------------------
(***************************************************************************)
(* client.Binance: all requests share one WebSocket connection and two     *)
(* unbuffered channels.  A call starts a waiting goroutine, hands its      *)
(* request to the writer through SocketWriter and waits on a channel of    *)
(* its own.  The connection's reader offers each message on Channel; the   *)
(* waiting goroutine that takes it keeps it if it is its own, or offers it *)
(* on the same Channel again.                                              *)
(*                                                                         *)
(* Go's runtime serves the goroutines blocked on a channel in the order    *)
(* they came: recvq and sendq.  The contents of requests and answers are   *)
(* left out; a call is made once, and names itself in its request.         *)
(***************************************************************************)
EXTENDS Naturals, Sequences, SequencesExt, FiniteSets

CONSTANTS
    Calls,          \* the calls made, each by a goroutine of its own
    Methods,        \* which of the client's methods each of them uses
    MaxLimits,      \* bound: requests refused for their weight
    MaxErrors,      \* bound: requests answered with any other error
    MaxDrops        \* bound: times the connection is lost

AllMethods == {"order.status", "order.cancel", "order.place", "openOrders.status", "depth",
               "klines", "klinesCached", "trades.aggregate", "exchangeInfo", "account.status",
               "myTrades", "userDataStream.start"}

ASSUME SocketAssumption ==
    /\ IsFiniteSet(Calls) /\ "reader" \notin Calls
    /\ Methods \in [Calls -> SUBSET AllMethods]
    /\ MaxLimits \in Nat /\ MaxErrors \in Nat /\ MaxDrops \in Nat

VARIABLES
    call,           \* call[c]: the calling goroutine
    waiter,         \* waiter[c]: the goroutine that waits for the answer of c
    reader,         \* the reader of the connection
    recvq, sendq,   \* the goroutines blocked on Channel
    writing,        \* the messages in the hands of the writers
    writers,        \* how many writers there are
    inflight,       \* requests on their way to the exchange
    wire,           \* messages on their way back
    alive,          \* the connection stands
    connected,      \* b.Connected
    waitMode,       \* b.WaitMode
    history,        \* the k-lines kept in Redis for a minute
    sent, served, lost,  \* per call: requests written, answers given, answers lost
    refused,        \* calls whose request was refused for its weight
    limits, errors, drops

channel == <<recvq, sendq>>
network == <<writing, writers, inflight, wire, alive, connected>>
counts == <<sent, served, lost, refused, limits, errors, drops>>
vars == <<call, waiter, reader, channel, network, waitMode, history, counts>>

Reader == "reader"
Message(c, kind) == [id |-> c, kind |-> kind]
NoMessage == [id |-> Reader, kind |-> "none"]
Reading == [pc |-> "read", msg |-> NoMessage]
Looping == [pc |-> "loop", msg |-> NoMessage]

Init ==
    /\ call = [c \in Calls |-> [pc |-> "idle", method |-> "none", result |-> "none"]]
    /\ waiter = [c \in Calls |-> [Looping EXCEPT !.pc = "none"]]
    /\ reader = Reading
    /\ recvq = << >> /\ sendq = << >>
    /\ writing = << >> /\ writers = 1
    /\ inflight = << >> /\ wire = << >> /\ alive = TRUE /\ connected = TRUE
    /\ waitMode = FALSE
    /\ history = "none"
    /\ sent = [c \in Calls |-> 0] /\ served = sent /\ lost = sent
    /\ refused = {}
    /\ limits = 0 /\ errors = 0 /\ drops = 0

-----------------------------------------------------------------------------
(***************************************************************************)
(* The callers                                                             *)
(***************************************************************************)
\* CheckWait lets the call pass; socketRequest starts the waiting goroutine and
\* offers the request to the writer.
CheckWait == ~waitMode
Request(c, m) ==
    /\ call[c].pc = "idle" /\ m \in Methods[c]
    /\ CheckWait
    /\ call' = [call EXCEPT ![c] = [pc |-> "sending", method |-> m, result |-> "none"]]
    /\ waiter' = [waiter EXCEPT ![c] = Looping]
    /\ UNCHANGED <<reader, channel, network, waitMode, history, counts>>

QueryOrder(c) == Request(c, "order.status")
CancelOrder(c) == Request(c, "order.cancel")
LimitOrder(c) == Request(c, "order.place")
GetOpenedOrders(c) == Request(c, "openOrders.status")
GetDepth(c) == Request(c, "depth")
GetKLines(c) == Request(c, "klines")
TradesAggregate(c) == Request(c, "trades.aggregate")
GetExchangeData(c) == Request(c, "exchangeInfo")
GetAccountStatus(c) == Request(c, "account.status")
GetTrades(c) == Request(c, "myTrades")
UserDataStreamStart(c) == Request(c, "userDataStream.start")

\* GetKLinesCached looks into Redis first.
GetKLinesCached(c) ==
    \/ history = "none" /\ Request(c, "klinesCached")
    \/ /\ history # "none"
       /\ call[c].pc = "idle" /\ "klinesCached" \in Methods[c]
       /\ call' = [call EXCEPT ![c] = [pc |-> "answered", method |-> "klinesCached", result |-> history]]
       /\ UNCHANGED <<waiter, reader, channel, network, waitMode, history, counts>>

\* The methods that return a list only turn an error into an empty list.
OfError(m) == IF m \in {"klines", "klinesCached", "trades.aggregate"} THEN "empty" ELSE "error"
ResultOf(m, reply) == IF reply.kind = "error" THEN OfError(m) ELSE "value"

\* channel <- msg: the caller takes it, whatever it is.
Deliver(c) ==
    LET m == call[c].method
    IN  /\ waiter[c].pc = "deliver" /\ call[c].pc = "waiting"
        /\ call' = [call EXCEPT ![c].pc = IF m = "klinesCached" THEN "store" ELSE "answered",
                                ![c].result = ResultOf(m, waiter[c].msg)]
        /\ waiter' = [waiter EXCEPT ![c].pc = "done"]
        /\ UNCHANGED <<reader, channel, network, waitMode, history, counts>>

\* GetKLinesCached keeps what GetKLines returned, for a minute.
Store(c) ==
    /\ call[c].pc = "store"
    /\ history' = call[c].result
    /\ call' = [call EXCEPT ![c].pc = "answered"]
    /\ UNCHANGED <<waiter, reader, channel, network, waitMode, counts>>

Expire ==
    /\ history # "none" /\ history' = "none"
    /\ UNCHANGED <<call, waiter, reader, channel, network, waitMode, counts>>

-----------------------------------------------------------------------------
(***************************************************************************)
(* The waiting goroutines, and Channel                                     *)
(***************************************************************************)
\* Mutant: any answer is taken for one's own.
IsAnyAnswer(c, m) == m.kind # "none"

\* What waiting goroutine c does with message m: a refusal for weight is taken by
\* whoever gets it.
IsOwn(c, m) == m.id = c
Got(c, m) ==
    [pc |-> CASE m.kind = "limit" -> "limited"
              [] m.kind # "limit" /\ IsOwn(c, m) -> "deliver"
              [] OTHER -> "pass",
     msg |-> m]

HeldBy(g) == IF g = Reader THEN reader.msg ELSE waiter[g].msg

\* Mutant: who hands a message over goes on holding it.
HandOverOnly(g, c) ==
    waiter' = [waiter EXCEPT ![c] = Got(c, HeldBy(g))] /\ UNCHANGED reader

\* Mutant: a waiting goroutine ends with the first message it passes on.
HandOverAndEnd(g, c) ==
    IF g = Reader
    THEN waiter' = [waiter EXCEPT ![c] = Got(c, HeldBy(g))] /\ reader' = Reading
    ELSE /\ waiter' = [waiter EXCEPT ![c] = Got(c, HeldBy(g)), ![g].pc = "done"]
         /\ UNCHANGED reader

\* Goroutine g has handed its message over to the waiting goroutine c.
HandOver(g, c) ==
    IF g = Reader
    THEN /\ waiter' = [waiter EXCEPT ![c] = Got(c, HeldBy(g))]
         /\ reader' = Reading
    ELSE /\ waiter' = [waiter EXCEPT ![c] = Got(c, HeldBy(g)), ![g] = Looping]
         /\ UNCHANGED reader

\* msg := <-b.Channel
Receive(c) ==
    /\ waiter[c].pc = "loop"
    /\ \/ /\ sendq # << >>
          /\ HandOver(Head(sendq), c)
          /\ sendq' = Tail(sendq) /\ UNCHANGED recvq
       \/ /\ sendq = << >>
          /\ waiter' = [waiter EXCEPT ![c].pc = "recv"]
          /\ recvq' = Append(recvq, c) /\ UNCHANGED <<sendq, reader>>
    /\ UNCHANGED <<call, network, waitMode, history, counts>>

\* Mutant: somebody else's message is dropped.
Discard(c) ==
    /\ waiter[c].pc = "pass"
    /\ waiter' = [waiter EXCEPT ![c] = Looping]
    /\ UNCHANGED <<call, reader, channel, network, waitMode, history, counts>>

\* b.Channel <- msg by a waiting goroutine, with somebody else's message
PassOn(c) ==
    /\ waiter[c].pc = "pass"
    /\ \/ /\ recvq # << >>
          /\ HandOver(c, Head(recvq))
          /\ recvq' = Tail(recvq) /\ UNCHANGED sendq
       \/ /\ recvq = << >>
          /\ waiter' = [waiter EXCEPT ![c].pc = "send"]
          /\ sendq' = Append(sendq, c) /\ UNCHANGED <<recvq, reader>>
    /\ UNCHANGED <<call, network, waitMode, history, counts>>

\* Mutant: the others are not held back.
BeginSilently(c) ==
    /\ waiter[c].pc = "limited"
    /\ waiter' = [waiter EXCEPT ![c] = [Looping EXCEPT !.pc = "sleep"]]
    /\ UNCHANGED <<call, reader, channel, network, waitMode, history, counts>>

\* The request was too much: wait a minute, then send one's own request again.
BeginWait(c) ==
    /\ waiter[c].pc = "limited"
    /\ waitMode' = TRUE
    /\ waiter' = [waiter EXCEPT ![c] = [Looping EXCEPT !.pc = "sleep"]]
    /\ UNCHANGED <<call, reader, channel, network, history, counts>>

\* Mutant: the wait mode is never lifted.
EndSilently(c) ==
    /\ waiter[c].pc = "sleep"
    /\ waiter' = [waiter EXCEPT ![c].pc = "resend"]
    /\ UNCHANGED <<call, reader, channel, network, waitMode, history, counts>>

EndWait(c) ==
    /\ waiter[c].pc = "sleep"
    /\ waitMode' = FALSE
    /\ waiter' = [waiter EXCEPT ![c].pc = "resend"]
    /\ UNCHANGED <<call, reader, channel, network, history, counts>>

-----------------------------------------------------------------------------
(***************************************************************************)
(* The connection: its reader and its writers                              *)
(***************************************************************************)
\* ReadMessage; an error is seen only here.
Read ==
    /\ reader.pc = "read" /\ wire # << >>
    /\ reader' = [pc |-> "pass", msg |-> Head(wire)]
    /\ wire' = Tail(wire)
    /\ UNCHANGED <<call, waiter, channel, writing, writers, inflight, alive, connected, waitMode,
                   history, counts>>

\* b.Channel <- message
Offer ==
    /\ reader.pc = "pass"
    /\ \/ /\ recvq # << >>
          /\ HandOver(Reader, Head(recvq))
          /\ recvq' = Tail(recvq) /\ UNCHANGED sendq
       \/ /\ recvq = << >>
          /\ reader' = [reader EXCEPT !.pc = "send"]
          /\ sendq' = Append(sendq, Reader) /\ UNCHANGED <<recvq, waiter>>
    /\ UNCHANGED <<call, network, waitMode, history, counts>>

ReadFails ==
    /\ reader.pc = "read" /\ wire = << >> /\ ~alive /\ connected
    /\ connected' = FALSE
    /\ UNCHANGED <<call, waiter, reader, channel, writing, writers, inflight, wire, alive, waitMode,
                   history, counts>>

\* Connect again: another reader, and one more writer beside the old ones.
Connect ==
    /\ ~connected
    /\ alive' = TRUE /\ connected' = TRUE
    /\ writers' = writers + 1
    /\ UNCHANGED <<call, waiter, reader, channel, writing, inflight, wire, waitMode, history, counts>>

\* serialized := <-b.SocketWriter, offered by a caller or by a waiting goroutine
TakeToWrite(c) ==
    /\ Len(writing) < writers
    /\ \/ /\ call[c].pc = "sending"
          /\ call' = [call EXCEPT ![c].pc = "waiting"]
          /\ UNCHANGED waiter
       \/ /\ waiter[c].pc = "resend"
          /\ waiter' = [waiter EXCEPT ![c].pc = "loop"]
          /\ UNCHANGED call
    /\ writing' = Append(writing, c)
    /\ UNCHANGED <<reader, channel, writers, inflight, wire, alive, connected, waitMode, history, counts>>

\* WriteMessage, its error ignored: on a broken connection the request is lost.  After a
\* reconnection there are two writers; should both be in WriteMessage at the same time,
\* the library may panic and the process ends, which is left out: each write is one step.
WriteMessage(n) ==
    LET c == writing[n]
    IN  /\ writing' = RemoveAt(writing, n)
        /\ inflight' = IF alive THEN Append(inflight, c) ELSE inflight
        /\ sent' = [sent EXCEPT ![c] = @ + 1]
        /\ UNCHANGED <<call, waiter, reader, channel, writers, wire, alive, connected, waitMode,
                       history, served, lost, refused, limits, errors, drops>>

-----------------------------------------------------------------------------
(***************************************************************************)
(* The exchange                                                            *)
(***************************************************************************)
\* It answers requests in any order; a request sent again may be answered again.
Serve(n) ==
    LET c == inflight[n]
        Answer(kind) == wire' = Append(wire, Message(c, kind))
    IN  /\ alive
        /\ inflight' = RemoveAt(inflight, n)
        /\ \/ /\ Answer("ok")
              /\ served' = [served EXCEPT ![c] = @ + 1]
              /\ UNCHANGED <<refused, limits, errors>>
           \/ /\ errors < MaxErrors /\ errors' = errors + 1
              /\ Answer("error")
              /\ served' = [served EXCEPT ![c] = @ + 1]
              /\ UNCHANGED <<refused, limits>>
           \/ /\ limits < MaxLimits /\ limits' = limits + 1
              /\ Answer("limit")
              /\ refused' = refused \cup {c}
              /\ UNCHANGED <<served, errors>>
        /\ UNCHANGED <<call, waiter, reader, channel, writing, writers, alive, connected, waitMode,
                       history, sent, lost, drops>>

\* How many of the messages s are answers to call c
AnswersTo(c) == [id : {c}, kind : {"ok", "error"}]
Count(kinds, s) == Cardinality({ i \in DOMAIN s : s[i] \in kinds })
Answers(c, s) == Count(AnswersTo(c), s)

\* The connection breaks: what is under way is lost, save what the reader's buffer
\* already holds.
Drop ==
    /\ alive /\ drops < MaxDrops
    /\ drops' = drops + 1
    /\ alive' = FALSE
    /\ inflight' = << >>
    /\ \E k \in 0..Len(wire) :
         /\ wire' = SubSeq(wire, 1, k)
         /\ lost' = [c \in Calls |-> lost[c] + Answers(c, wire) - Answers(c, wire')]
    /\ UNCHANGED <<call, waiter, reader, channel, writing, writers, connected, waitMode, history,
                   sent, served, refused, limits, errors>>

-----------------------------------------------------------------------------
Start(c) ==
    \/ QueryOrder(c) \/ CancelOrder(c) \/ LimitOrder(c) \/ GetOpenedOrders(c)
    \/ GetDepth(c) \/ GetKLines(c) \/ GetKLinesCached(c) \/ TradesAggregate(c)
    \/ GetExchangeData(c) \/ GetAccountStatus(c) \/ GetTrades(c) \/ UserDataStreamStart(c)

WaiterStep(c) == Receive(c) \/ PassOn(c) \/ BeginWait(c) \/ EndWait(c) \/ Deliver(c)
ReaderStep == Read \/ Offer \/ ReadFails \/ Connect
WriterStep == (\E c \in Calls : TakeToWrite(c)) \/ (\E n \in DOMAIN writing : WriteMessage(n))
ExchangeStep == \E n \in DOMAIN inflight : Serve(n)

Next ==
    \/ \E c \in Calls : Start(c) \/ Store(c) \/ WaiterStep(c)
    \/ ReaderStep \/ WriterStep \/ ExchangeStep
    \/ Expire \/ Drop

\* Every goroutine goes on, and the exchange answers what reaches it.
Spec ==
    /\ Init /\ [][Next]_vars
    /\ \A c \in Calls : WF_vars(WaiterStep(c)) /\ WF_vars(Store(c))
    /\ WF_vars(ReaderStep) /\ WF_vars(WriterStep) /\ WF_vars(ExchangeStep)

-----------------------------------------------------------------------------
(***************************************************************************)
(* Properties                                                              *)
(***************************************************************************)
Messages == [id : Calls, kind : {"ok", "error", "limit"}] \cup {NoMessage}

\* Every variable has its type; a goroutine is queued on Channel exactly while it is
\* blocked there, once, and never do senders and receivers wait for each other.
TypeOK ==
    /\ call \in [Calls -> [pc : {"idle", "sending", "waiting", "store", "answered"},
                           method : AllMethods \cup {"none"},
                           result : {"none", "value", "empty", "error"}]]
    /\ waiter \in [Calls -> [pc : {"none", "loop", "recv", "pass", "send", "limited", "sleep",
                                   "resend", "deliver", "done"}, msg : Messages]]
    /\ reader \in [pc : {"read", "pass", "send"}, msg : Messages]
    /\ IsInjective(recvq) /\ IsInjective(sendq)
    /\ ToSet(recvq) = { c \in Calls : waiter[c].pc = "recv" }
    /\ ToSet(sendq) = { c \in Calls : waiter[c].pc = "send" }
                        \cup (IF reader.pc = "send" THEN {Reader} ELSE {})
    /\ recvq = << >> \/ sendq = << >>
    /\ writing \in Seq(Calls) /\ inflight \in Seq(Calls) /\ wire \in Seq(Messages)
    /\ writers \in 1..(1 + MaxDrops)
    /\ history \in {"none", "value", "empty"}

Holders(c) == { g \in Calls \cup {Reader} :
                  /\ g # c \/ waiter[g].pc # "done"
                  /\ HeldBy(g) \in AnswersTo(c) }
Taken(c) == IF waiter[c].pc = "done" THEN 1 ELSE 0

\* Passing messages on from goroutine to goroutine (137) neither loses nor doubles
\* an answer: each one the exchange gave was taken by its caller, went with a lost
\* connection, or is on the wire or in one goroutine's hands.
AnswersConserved ==
    \A c \in Calls :
        served[c] = Taken(c) + lost[c] + Answers(c, wire) + Cardinality(Holders(c))

\* A call is on its way somewhere: its request or its answer exists, or it will be
\* sent again.
UnderWay(c) ==
    \/ call[c].pc = "sending" \/ waiter[c].pc \in {"limited", "sleep", "resend", "deliver"}
    \/ c \in ToSet(writing) \cup ToSet(inflight)
    \/ AnswersTo(c) \cap ToSet(wire) # {}
    \/ Holders(c) # {}

\* Nothing is left to answer a waiting call only after its own request was refused
\* for its weight, which another call's goroutine took for its own (112), or after
\* the connection was lost.
ForgottenForAReason ==
    \A c \in Calls :
        call[c].pc = "waiting" /\ ~UnderWay(c) => c \in refused \/ drops > 0

\* While a goroutine waits for its weight to be granted, new calls are held back
\* (b.WaitMode); a second refusal meanwhile is the only thing that lifts it early.
SleepingIsWaiting ==
    \A c \in Calls : waiter[c].pc = "sleep" => waitMode \/ limits > 1

\* CheckWait, which spins on WaitMode, lets every call pass in the end.
WaitModeEnds == waitMode ~> ~waitMode

\* Every waiting goroutine holds a message that is not its own and offers it to the
\* others, who do the same: nobody receives until another call is made.
Crossed ==
    /\ \E c \in Calls : waiter[c].pc = "send"
    /\ \A c \in Calls : waiter[c].pc \in {"none", "send", "done"}

\* While nothing is refused and the connection stands, a call is answered, unless
\* the waiting goroutines have crossed their messages.
AnsweredUnlessCrossed ==
    \A c \in Calls :
        (call[c].pc = "waiting") ~> (call[c].pc = "answered" \/ Crossed \/ refused # {} \/ drops > 0)

\* BinanceStatusOk: connected and not held back.  A call that waits meanwhile gets
\* its answer.
Healthy == connected /\ ~waitMode
HealthyAnswers ==
    \A c \in Calls : (call[c].pc = "waiting") ~> (call[c].pc = "answered" \/ ~Healthy)

\* "wait 1 min and retry..." (116): what is sent again is what was refused.
RetriesTheRefused == \A c \in Calls : sent[c] > 1 => c \in refused

\* "kline history cache invalid: Wrong length" (363): a history too short is not
\* taken from the cache.
CachedHistoryHasItsLength ==
    \A c \in Calls : call[c].method = "klinesCached" /\ waiter[c].pc = "none"
                        => call[c].result # "empty"
=============================================================================
