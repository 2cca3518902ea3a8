------------------------- MODULE SocketClientProofs -------------------------
(***************************************************************************)
(* Proofs about SocketClient, for any number of calls and any methods,     *)
(* and every number of refusals, errors and lost connections.              *)
(*                                                                         *)
(* One layer says what each goroutine holds where it is; conservation of   *)
(* the answers, the count of the refusals and what is left of a call that  *)
(* waits are proved on top of it, step by step.                            *)
(***************************************************************************)
EXTENDS SocketClient, FiniteSetTheorems, SequenceTheorems, TLAPS

USE SocketAssumption

-----------------------------------------------------------------------------
(***************************************************************************)
(* What every goroutine holds where it is.                                 *)
(***************************************************************************)
Goroutines == Calls \cup {Reader}
Replies == [id : Calls, kind : {"ok", "error", "limit"}]
Refusals == [id : Calls, kind : {"limit"}]
Others(c) == [id : Calls \ {c}, kind : {"ok", "error"}]

CallStates == [pc : {"idle", "sending", "waiting", "store", "answered"},
               method : AllMethods \cup {"none"},
               result : {"none", "value", "empty", "error"}]
WaiterStates == [pc : {"none", "loop", "recv", "pass", "send", "limited", "sleep",
                       "resend", "deliver", "done"}, msg : Messages]
ReaderStates == [pc : {"read", "pass", "send"}, msg : Messages]

\* A waiting goroutine passes on the answer of another call, keeps its own, and holds
\* nothing while it receives, sleeps or sends its request again.
WaiterHolds(w, c) ==
    /\ w.pc \in {"none", "loop", "recv", "sleep", "resend"} => w.msg = NoMessage
    /\ w.pc \in {"pass", "send"} => w.msg \in Others(c)
    /\ w.pc = "limited" => w.msg \in Refusals
    /\ w.pc \in {"deliver", "done"} => w.msg \in AnswersTo(c)

ReaderHolds(r) == IF r.pc = "read" THEN r.msg = NoMessage ELSE r.msg \in Replies

GoroutinesTyped ==
    /\ waiter \in [Calls -> WaiterStates] /\ \A c \in Calls : WaiterHolds(waiter[c], c)
    /\ reader \in ReaderStates /\ ReaderHolds(reader)

\* Where a call is, its goroutine is there too.
CallsTyped ==
    /\ call \in [Calls -> CallStates]
    /\ \A c \in Calls :
         /\ call[c].pc = "idle" => waiter[c].pc = "none"
         /\ call[c].pc \in {"sending", "waiting"} => waiter[c].pc \notin {"none", "done"}
         /\ call[c].pc = "store" => call[c].result \in {"value", "empty"}

Senders == { c \in Calls : waiter[c].pc = "send" }
             \cup (IF reader.pc = "send" THEN {Reader} ELSE {})

QueuesTyped ==
    /\ recvq \in Seq(Calls) /\ IsInjective(recvq)
    /\ ToSet(recvq) = { c \in Calls : waiter[c].pc = "recv" }
    /\ sendq \in Seq(Goroutines) /\ IsInjective(sendq)
    /\ ToSet(sendq) = Senders
    /\ recvq = << >> \/ sendq = << >>

\* Each lost connection brings one writer more.
NetworkTyped ==
    /\ writing \in Seq(Calls) /\ inflight \in Seq(Calls) /\ wire \in Seq(Replies)
    /\ drops \in 0..MaxDrops
    /\ writers = drops + (IF alive THEN 1 ELSE 0)
    /\ alive \in BOOLEAN /\ connected \in BOOLEAN
    /\ ~connected => ~alive
    /\ ~alive => drops > 0

StoresTyped ==
    /\ waitMode \in BOOLEAN /\ history \in {"none", "value", "empty"}
    /\ served \in [Calls -> Nat] /\ lost \in [Calls -> Nat]
    /\ refused \subseteq Calls /\ limits \in Nat

Typed == GoroutinesTyped /\ CallsTyped /\ QueuesTyped /\ NetworkTyped /\ StoresTyped

-----------------------------------------------------------------------------
(***************************************************************************)
(* Queues and counted messages.                                            *)
(***************************************************************************)
\* What is in a queue that grows or loses its head
LEMMA AppendSet ==
    ASSUME NEW S, NEW s \in Seq(S), NEW x \in S
    PROVE  ToSet(Append(s, x)) = ToSet(s) \cup {x}
<1> DEFINE t == Append(s, x)
<1>1. /\ t \in Seq(S) /\ Len(t) = Len(s) + 1 /\ Len(s) \in Nat
      /\ \A i \in 1..Len(s) : t[i] = s[i]
      /\ t[Len(s) + 1] = x
  BY AppendProperties, LenProperties
<1>2. DOMAIN s = 1..Len(s) /\ DOMAIN t = 1..(Len(s) + 1)
  BY <1>1, LenProperties
<1> HIDE DEF t
<1>3. \A y \in ToSet(t) : y \in ToSet(s) \cup {x}
  BY <1>1, <1>2 DEF ToSet
<1>4. \A y \in ToSet(s) \cup {x} : y \in ToSet(t)
  BY <1>1, <1>2 DEF ToSet
<1>5. ToSet(t) = ToSet(s) \cup {x}
  BY <1>3, <1>4
<1> QED
  BY <1>5 DEF t

LEMMA TailSet ==
    ASSUME NEW S, NEW s \in Seq(S), s # << >>, NEW x \in ToSet(s), x # Head(s)
    PROVE  x \in ToSet(Tail(s))
<1> DEFINE t == Tail(s)
<1>1. /\ t \in Seq(S) /\ Len(t) = Len(s) - 1 /\ Len(s) \in Nat \ {0}
      /\ \A i \in 1..Len(t) : t[i] = s[i + 1]
      /\ Head(s) = s[1]
  BY HeadTailProperties, LenProperties
<1>2. DOMAIN s = 1..Len(s) /\ DOMAIN t = 1..(Len(s) - 1)
  BY <1>1, LenProperties
<1> HIDE DEF t
<1>3. PICK i \in 1..Len(s) : x = s[i] /\ i # 1
  BY <1>1, <1>2 DEF ToSet
<1>4. i - 1 \in DOMAIN t /\ t[i - 1] = x
  BY <1>1, <1>2, <1>3
<1> QED
  BY <1>4 DEF ToSet, t

\* Who joins a queue is in it once if it was not there before.
LEMMA QueueAppend ==
    ASSUME NEW S, NEW s \in Seq(S), NEW x \in S, IsInjective(s), x \notin ToSet(s)
    PROVE  /\ Append(s, x) \in Seq(S) /\ Append(s, x) # << >>
           /\ IsInjective(Append(s, x)) /\ ToSet(Append(s, x)) = ToSet(s) \cup {x}
<1> DEFINE t == Append(s, x)
<1>1. /\ t \in Seq(S) /\ t # << >> /\ Len(t) = Len(s) + 1 /\ Len(s) \in Nat
      /\ \A i \in 1..Len(s) : t[i] = s[i]
      /\ t[Len(s) + 1] = x
  BY AppendProperties, LenProperties
<1>2. DOMAIN s = 1..Len(s) /\ DOMAIN t = 1..(Len(s) + 1)
  BY <1>1, LenProperties
<1> HIDE DEF t
<1>3. \A i \in DOMAIN s : s[i] # x
  BY DEF ToSet
<1>4. IsInjective(t)
  BY <1>1, <1>2, <1>3 DEF IsInjective
<1>5. ToSet(t) = ToSet(s) \cup {x}
  <2>1. \A y \in ToSet(t) : y \in ToSet(s) \cup {x}
    BY <1>1, <1>2 DEF ToSet
  <2>2. \A y \in ToSet(s) \cup {x} : y \in ToSet(t)
    BY <1>1, <1>2 DEF ToSet
  <2> QED
    BY <2>1, <2>2
<1> QED
  BY <1>1, <1>4, <1>5 DEF t

\* Who leaves a queue was in it once.
LEMMA QueueTail ==
    ASSUME NEW S, NEW s \in Seq(S), s # << >>, IsInjective(s)
    PROVE  /\ Tail(s) \in Seq(S) /\ IsInjective(Tail(s))
           /\ Head(s) \in ToSet(s) /\ ToSet(Tail(s)) = ToSet(s) \ {Head(s)}
<1> DEFINE t == Tail(s)
<1>1. /\ t \in Seq(S) /\ Len(t) = Len(s) - 1 /\ Len(s) \in Nat \ {0}
      /\ \A i \in 1..Len(t) : t[i] = s[i + 1]
      /\ Head(s) = s[1]
  BY HeadTailProperties, LenProperties
<1>2. DOMAIN s = 1..Len(s) /\ DOMAIN t = 1..(Len(s) - 1)
  BY <1>1, LenProperties
<1> HIDE DEF t
<1>3. IsInjective(t)
  <2> SUFFICES ASSUME NEW i \in 1..(Len(s) - 1), NEW j \in 1..(Len(s) - 1), t[i] = t[j]
               PROVE  i = j
    BY <1>2 DEF IsInjective
  <2>1. i + 1 \in 1..Len(s) /\ j + 1 \in 1..Len(s) /\ s[i + 1] = s[j + 1]
    BY <1>1
  <2>2. i + 1 = j + 1
    BY <1>2, <2>1 DEF IsInjective
  <2> QED
    BY <1>1, <2>2
<1>4. ToSet(t) = ToSet(s) \ {Head(s)}
  <2>1. ASSUME NEW y \in ToSet(t) PROVE y \in ToSet(s) \ {Head(s)}
    <3>1. PICK i \in 1..(Len(s) - 1) : y = t[i]
      BY <1>2 DEF ToSet
    <3>2. i + 1 \in 1..Len(s) /\ 1 \in 1..Len(s) /\ i + 1 # 1 /\ y = s[i + 1]
      BY <1>1, <3>1
    <3>3. s[i + 1] # s[1]
      BY <1>2, <3>2 DEF IsInjective
    <3> QED
      BY <1>1, <1>2, <3>2, <3>3 DEF ToSet
  <2>2. ASSUME NEW y \in ToSet(s) \ {Head(s)} PROVE y \in ToSet(t)
    <3>1. PICK i \in 1..Len(s) : y = s[i] /\ i # 1
      BY <1>1, <1>2 DEF ToSet
    <3>2. i - 1 \in DOMAIN t /\ t[i - 1] = y
      BY <1>1, <1>2, <3>1
    <3> QED
      BY <3>2 DEF ToSet
  <2> QED
    BY <2>1, <2>2
<1>5. Head(s) \in ToSet(s)
  BY <1>1, <1>2 DEF ToSet
<1> QED
  BY <1>1, <1>3, <1>4, <1>5 DEF t

LEMMA PlacesFinite ==
    ASSUME NEW S, NEW s \in Seq(S), NEW K
    PROVE  LET P == { i \in DOMAIN s : s[i] \in K } IN
           IsFiniteSet(P) /\ Cardinality(P) \in Nat
<1>1. DOMAIN s = 1..Len(s) /\ Len(s) \in Nat
  BY LenProperties
<1>2. IsFiniteSet(DOMAIN s)
  BY <1>1, FS_Interval
<1> QED
  BY <1>2, FS_Subset, FS_CardinalityType

LEMMA CountType ==
    ASSUME NEW S, NEW s \in Seq(S), NEW K
    PROVE  Count(K, s) \in Nat
BY PlacesFinite DEF Count

LEMMA CountEmpty ==
    ASSUME NEW K
    PROVE  Count(K, << >>) = 0
<1>1. { i \in DOMAIN << >> : << >>[i] \in K } = {}
  OBVIOUS
<1> QED
  BY <1>1, FS_EmptySet, Zenon DEF Count

LEMMA CountAppend ==
    ASSUME NEW S, NEW s \in Seq(S), NEW x \in S, NEW K
    PROVE  Count(K, Append(s, x)) = Count(K, s) + (IF x \in K THEN 1 ELSE 0)
<1> DEFINE t == Append(s, x)
           P == { i \in DOMAIN s : s[i] \in K }
           R == { i \in DOMAIN t : t[i] \in K }
<1>1. /\ t \in Seq(S) /\ Len(t) = Len(s) + 1 /\ Len(s) \in Nat
      /\ \A i \in 1..Len(s) : t[i] = s[i]
      /\ t[Len(s) + 1] = x
  BY AppendProperties, LenProperties
<1>2. DOMAIN s = 1..Len(s) /\ DOMAIN t = 1..(Len(s) + 1)
  BY <1>1, LenProperties
<1> HIDE DEF t
<1>3. IsFiniteSet(P) /\ Len(s) + 1 \notin P /\ Cardinality(P) \in Nat
  <2>1. IsFiniteSet(P) /\ Cardinality(P) \in Nat
    BY PlacesFinite
  <2> QED
    BY <1>1, <1>2, <2>1
<1>4. R = IF x \in K THEN P \cup {Len(s) + 1} ELSE P
  BY <1>1, <1>2
<1> HIDE DEF P, R
<1>5. Cardinality(P \cup {Len(s) + 1}) = Cardinality(P) + 1
  BY <1>3, FS_AddElement
<1>6. Cardinality(R) = Cardinality(P) + (IF x \in K THEN 1 ELSE 0)
  BY <1>3, <1>4, <1>5
<1> QED
  BY <1>6 DEF Count, P, R, t

LEMMA CountTail ==
    ASSUME NEW S, NEW s \in Seq(S), s # << >>, NEW K
    PROVE  Count(K, Tail(s)) = Count(K, s) - (IF Head(s) \in K THEN 1 ELSE 0)
<1> DEFINE t == Tail(s)
           P == { i \in DOMAIN s : s[i] \in K }
           Q == P \ {1}
           R == { i \in DOMAIN t : t[i] \in K }
           f == [i \in R |-> i + 1]
<1>1. /\ t \in Seq(S) /\ Len(t) = Len(s) - 1 /\ Len(s) \in Nat \ {0}
      /\ \A i \in 1..Len(t) : t[i] = s[i + 1]
      /\ Head(s) = s[1]
  BY HeadTailProperties, LenProperties
<1>2. DOMAIN s = 1..Len(s) /\ DOMAIN t = 1..(Len(s) - 1)
  BY <1>1, LenProperties
<1> HIDE DEF t
<1>3. IsFiniteSet(P) /\ IsFiniteSet(R) /\ Cardinality(P) \in Nat
  <2>1. IsFiniteSet(P) /\ Cardinality(P) \in Nat
    BY PlacesFinite
  <2>2. IsFiniteSet(R)
    BY <1>1, PlacesFinite
  <2> QED
    BY <2>1, <2>2
<1>4. f \in Bijection(R, Q)
  <2>1. \A i \in R : i + 1 \in Q
    BY <1>1, <1>2
  <2>2. \A j \in Q : \E i \in R : j = i + 1
    <3> SUFFICES ASSUME NEW j \in Q PROVE j - 1 \in R /\ j = (j - 1) + 1
      OBVIOUS
    <3> QED
      BY <1>1, <1>2
  <2>3. \A i, j \in R : i + 1 = j + 1 => i = j
    BY <1>2
  <2> HIDE DEF Q, R
  <2> QED
    BY <2>1, <2>2, <2>3 DEF Bijection, Injection, Surjection, IsInjective
<1>5. 1 \in P <=> Head(s) \in K
  BY <1>1, <1>2
<1> HIDE DEF P, Q, R, f
<1>6. Cardinality(Q) = Cardinality(R)
  BY <1>3, <1>4, FS_Bijection DEF ExistsBijection
<1>7. Cardinality(Q) = IF 1 \in P THEN Cardinality(P) - 1 ELSE Cardinality(P)
  BY <1>3, FS_RemoveElement DEF Q
<1>8. Cardinality(R) = Cardinality(P) - (IF Head(s) \in K THEN 1 ELSE 0)
  BY <1>3, <1>5, <1>6, <1>7
<1> QED
  BY <1>8 DEF Count, P, R, t

\* A prefix holds no more.
LEMMA CountPrefix ==
    ASSUME NEW S, NEW s \in Seq(S), NEW k \in 0..Len(s), NEW K
    PROVE  SubSeq(s, 1, k) \in Seq(S) /\ Count(K, SubSeq(s, 1, k)) <= Count(K, s)
<1> DEFINE t == SubSeq(s, 1, k)
           P == { i \in DOMAIN s : s[i] \in K }
           R == { i \in DOMAIN t : t[i] \in K }
<1>1. DOMAIN s = 1..Len(s) /\ Len(s) \in Nat
  BY LenProperties
<1>2. t \in Seq(S) /\ Len(t) = k /\ \A i \in 1..k : t[i] = s[i]
  BY <1>1, SubSeqProperties, ElementOfSeq
<1>3. DOMAIN t = 1..k
  BY <1>2, LenProperties
<1> HIDE DEF t
<1>4. R \subseteq P
  BY <1>1, <1>2, <1>3
<1>5. IsFiniteSet(P)
  BY PlacesFinite
<1> HIDE DEF P, R
<1>6. Cardinality(R) <= Cardinality(P)
  BY <1>4, <1>5, FS_Subset
<1> QED
  BY <1>2, <1>6 DEF Count, P, R, t

\* What is taken out of a sequence was in it, and the rest stays.
LEMMA RemoveAtProperties ==
    ASSUME NEW S, NEW s \in Seq(S), NEW n \in DOMAIN s
    PROVE  /\ RemoveAt(s, n) \in Seq(S)
           /\ ToSet(s) = ToSet(RemoveAt(s, n)) \cup {s[n]}
<1> DEFINE t == SubSeq(s, 1, n - 1)
           u == SubSeq(s, n + 1, Len(s))
           r == RemoveAt(s, n)
<1>1. DOMAIN s = 1..Len(s) /\ Len(s) \in Nat /\ n \in 1..Len(s)
  BY LenProperties
<1>2. t \in Seq(S) /\ Len(t) = n - 1 /\ \A i \in 1..(n - 1) : t[i] = s[i]
  BY <1>1, SubSeqProperties, ElementOfSeq
<1>3. u \in Seq(S) /\ Len(u) = Len(s) - n /\ \A i \in 1..(Len(s) - n) : u[i] = s[n + i]
  <2>1. \A i \in (n + 1)..Len(s) : s[i] \in S
    BY <1>1, ElementOfSeq
  <2>2. /\ u \in Seq(S)
        /\ Len(u) = IF n + 1 <= Len(s) THEN Len(s) - (n + 1) + 1 ELSE 0
        /\ \A i \in 1..(Len(s) - (n + 1) + 1) : u[i] = s[(n + 1) + i - 1]
    BY <1>1, <2>1, SubSeqProperties
  <2>3. Len(s) - (n + 1) + 1 = Len(s) - n /\ \A i \in 1..(Len(s) - n) : (n + 1) + i - 1 = n + i
    BY <1>1
  <2> QED
    BY <1>1, <2>2, <2>3
<1>4. /\ r \in Seq(S) /\ Len(r) = Len(s) - 1
      /\ \A i \in 1..(Len(s) - 1) : r[i] = IF i < n THEN s[i] ELSE s[i + 1]
  <2> DEFINE c == t \o u
  <2>1. /\ c \in Seq(S) /\ Len(c) = Len(t) + Len(u)
        /\ \A i \in 1..(Len(t) + Len(u)) : c[i] = IF i <= Len(t) THEN t[i] ELSE u[i - Len(t)]
    <3>1. t \in Seq(S) /\ u \in Seq(S)
      BY <1>2, <1>3
    <3> HIDE DEF t, u
    <3> QED
      BY <3>1, ConcatProperties
  <2>2. r = c
    BY DEF RemoveAt
  <2> HIDE DEF t, u, r, c
  <2>3. Len(t) + Len(u) = Len(s) - 1
    BY <1>1, <1>2, <1>3
  <2>4. ASSUME NEW i \in 1..(Len(s) - 1)
        PROVE  c[i] = IF i < n THEN s[i] ELSE s[i + 1]
    <3>1. CASE i < n
      BY <1>1, <1>2, <2>1, <2>3, <3>1
    <3>2. CASE ~(i < n)
      <4>1. c[i] = u[i - (n - 1)] /\ i - (n - 1) \in 1..(Len(s) - n)
        BY <1>1, <1>2, <2>1, <2>3, <3>2
      <4>2. n + (i - (n - 1)) = i + 1
        BY <1>1
      <4> QED
        BY <1>3, <3>2, <4>1, <4>2
    <3> QED
      BY <3>1, <3>2
  <2> QED
    BY <2>1, <2>2, <2>3, <2>4
<1>5. DOMAIN r = 1..(Len(s) - 1)
  BY <1>4, LenProperties
<1> HIDE DEF t, u, r
<1>6. ASSUME NEW y \in ToSet(r) \cup {s[n]} PROVE y \in ToSet(s)
  <2>1. s[n] \in ToSet(s)
    BY DEF ToSet
  <2>2. ASSUME NEW i \in DOMAIN r PROVE r[i] \in ToSet(s)
    <3>1. i \in 1..Len(s) /\ i + 1 \in 1..Len(s) /\ r[i] \in {s[i], s[i + 1]}
      BY <1>1, <1>4, <1>5
    <3> QED
      BY <1>1, <3>1 DEF ToSet
  <2> QED
    BY <2>1, <2>2 DEF ToSet
<1>7. ASSUME NEW y \in ToSet(s), y # s[n] PROVE y \in ToSet(r)
  <2>1. PICK i \in 1..Len(s) : y = s[i]
    BY <1>1 DEF ToSet
  <2>2. (i < n => i \in DOMAIN r /\ r[i] = y) /\ (n < i => i - 1 \in DOMAIN r /\ r[i - 1] = y)
    BY <1>1, <1>4, <1>5, <2>1
  <2>3. i < n \/ n < i
    BY <1>1, <1>7, <2>1
  <2> QED
    BY <2>2, <2>3 DEF ToSet
<1> QED
  BY <1>4, <1>6, <1>7 DEF r

-----------------------------------------------------------------------------
(***************************************************************************)
(* A message passes from one goroutine to another.                         *)
(***************************************************************************)
LEMMA ReaderIsNoCall == Reader \notin Calls
BY DEF Reader

LEMMA NoMessageIsNone ==
    NoMessage \in Messages /\ NoMessage \notin Replies /\ Replies \subseteq Messages
BY ReaderIsNoCall DEF NoMessage, Messages, Replies

\* What c does with a message it has received fits the message.
LEMMA GotHolds ==
    ASSUME NEW c \in Calls, NEW m \in Replies
    PROVE  /\ Got(c, m) \in WaiterStates /\ WaiterHolds(Got(c, m), c)
           /\ Got(c, m).msg = m /\ Got(c, m).pc \in {"limited", "deliver", "pass"}
<1>1. m \in Messages /\ m.id \in Calls /\ m.kind \in {"ok", "error", "limit"}
      /\ m = [id |-> m.id, kind |-> m.kind]
  BY NoMessageIsNone DEF Replies
<1>2. CASE m.kind = "limit"
  <2>1. Got(c, m) = [pc |-> "limited", msg |-> m] /\ m \in Refusals
    BY <1>1, <1>2 DEF Got, Refusals
  <2> QED
    BY <1>1, <2>1 DEF WaiterStates, WaiterHolds
<1>3. CASE m.kind # "limit" /\ m.id = c
  <2>1. Got(c, m) = [pc |-> "deliver", msg |-> m] /\ m \in AnswersTo(c)
    BY <1>1, <1>3 DEF Got, AnswersTo, IsOwn
  <2> QED
    BY <1>1, <2>1 DEF WaiterStates, WaiterHolds
<1>4. CASE m.kind # "limit" /\ m.id # c
  <2>1. Got(c, m) = [pc |-> "pass", msg |-> m] /\ m \in Others(c)
    BY <1>1, <1>4 DEF Got, Others, IsOwn
  <2> QED
    BY <1>1, <2>1 DEF WaiterStates, WaiterHolds
<1> QED
  BY <1>2, <1>3, <1>4

PcOf(g) == IF g = Reader THEN reader.pc ELSE waiter[g].pc
Offering(g) == PcOf(g) \in {"pass", "send"}

\* What handing a message over does: it goes from g to c, and nobody else moves.
Handed(g, c) ==
    /\ g \in Goroutines /\ c \in Calls /\ g # c
    /\ HeldBy(g) \in Replies /\ HeldBy(c) = NoMessage
    /\ HeldBy(c)' = HeldBy(g) /\ HeldBy(g)' = NoMessage
    /\ \A d \in Goroutines \ {g, c} : HeldBy(d)' = HeldBy(d) /\ PcOf(d)' = PcOf(d)
    /\ PcOf(g)' = IF g = Reader THEN "read" ELSE "loop"
    /\ PcOf(c)' \in {"limited", "deliver", "pass"}

LEMMA HandOverTyped ==
    ASSUME GoroutinesTyped, NEW g \in Goroutines, NEW c \in Calls, Offering(g),
           waiter[c].pc \in {"loop", "recv"}, HandOver(g, c)
    PROVE  GoroutinesTyped' /\ Handed(g, c)
<1>1. waiter \in [Calls -> WaiterStates] /\ reader \in ReaderStates
      /\ \A d \in Calls : WaiterHolds(waiter[d], d)
  BY DEF GoroutinesTyped
<1>2. g # c /\ c # Reader /\ waiter[c].msg = NoMessage /\ HeldBy(c) = NoMessage
  BY <1>1, ReaderIsNoCall DEF Offering, PcOf, WaiterHolds, HeldBy
<1>3. HeldBy(g) \in Replies
  BY <1>1 DEF GoroutinesTyped, Goroutines, Offering, PcOf, HeldBy, WaiterHolds, ReaderHolds, Others, Replies
<1> DEFINE m == HeldBy(g)
           w == Got(c, m)
<1>4. w \in WaiterStates /\ WaiterHolds(w, c) /\ w.msg = m /\ w.pc \in {"limited", "deliver", "pass"}
  BY <1>3, GotHolds
<1>5. /\ Looping \in WaiterStates /\ Looping.pc = "loop" /\ Looping.msg = NoMessage
      /\ Reading \in ReaderStates /\ Reading.pc = "read" /\ Reading.msg = NoMessage
      /\ \A d \in Calls : WaiterHolds(Looping, d)
  BY NoMessageIsNone DEF Looping, Reading, WaiterStates, ReaderStates, WaiterHolds
<1> HIDE DEF w, m
<1>6. CASE g = Reader
  <2>1. waiter' = [waiter EXCEPT ![c] = w] /\ reader' = Reading
    BY <1>6 DEF HandOver, w, m
  <2>2. waiter' \in [Calls -> WaiterStates] /\ waiter'[c] = w
        /\ \A d \in Calls \ {c} : waiter'[d] = waiter[d]
    BY <1>1, <1>4, <2>1
  <2>3. GoroutinesTyped'
    BY <1>1, <1>4, <1>5, <2>1, <2>2 DEF GoroutinesTyped, ReaderHolds
  <2>4. Handed(g, c)
    BY <1>2, <1>3, <1>4, <1>5, <1>6, <2>1, <2>2 DEF Handed, HeldBy, PcOf, Goroutines, m
  <2> QED
    BY <2>3, <2>4
<1>7. CASE g # Reader
  <2>1. waiter' = [waiter EXCEPT ![c] = w, ![g] = Looping] /\ reader' = reader /\ g \in Calls
    BY <1>7 DEF HandOver, w, m, Goroutines
  <2>2. waiter' \in [Calls -> WaiterStates] /\ waiter'[c] = w /\ waiter'[g] = Looping
        /\ \A d \in Calls \ {c, g} : waiter'[d] = waiter[d]
    BY <1>1, <1>2, <1>4, <1>5, <2>1
  <2>3. GoroutinesTyped'
    BY <1>1, <1>4, <1>5, <2>1, <2>2 DEF GoroutinesTyped, ReaderHolds
  <2>4. Handed(g, c)
    BY <1>2, <1>3, <1>4, <1>5, <1>7, <2>1, <2>2, ReaderIsNoCall DEF Handed, HeldBy, PcOf, Goroutines, m
  <2> QED
    BY <2>3, <2>4
<1> QED
  BY <1>6, <1>7

-----------------------------------------------------------------------------
(***************************************************************************)
(* The queues of Channel.                                                  *)
(***************************************************************************)
\* The goroutines blocked in the queues, by where they are
LEMMA QueuedAre ==
    ASSUME GoroutinesTyped, QueuesTyped
    PROVE  /\ recvq # << >> => /\ Head(recvq) \in Calls /\ waiter[Head(recvq)].pc = "recv"
           /\ sendq # << >> => /\ Head(sendq) \in Goroutines /\ PcOf(Head(sendq)) = "send"
<1>1. ASSUME recvq # << >> PROVE Head(recvq) \in Calls /\ waiter[Head(recvq)].pc = "recv"
  <2>1. Head(recvq) \in ToSet(recvq)
    BY <1>1, QueueTail DEF QueuesTyped
  <2> QED
    BY <2>1 DEF QueuesTyped
<1>2. ASSUME sendq # << >> PROVE Head(sendq) \in Goroutines /\ PcOf(Head(sendq)) = "send"
  <2>1. Head(sendq) \in Senders
    BY <1>2, QueueTail DEF QueuesTyped
  <2> QED
    BY <2>1, ReaderIsNoCall DEF Senders, PcOf, Goroutines
<1> QED
  BY <1>1, <1>2

LEMMA SendersAre == Senders = { g \in Goroutines : PcOf(g) = "send" }
BY ReaderIsNoCall DEF Senders, Goroutines, PcOf

LEMMA SendersBecome == Senders' = { g \in Goroutines : PcOf(g)' = "send" }
BY ReaderIsNoCall DEF Senders, Goroutines, PcOf

LEMMA ReceiversAre == { c \in Calls : waiter[c].pc = "recv" } = { c \in Calls : PcOf(c) = "recv" }
BY ReaderIsNoCall DEF PcOf

LEMMA ReceiversBecome ==
    { c \in Calls : waiter[c].pc = "recv" }' = { c \in Calls : PcOf(c)' = "recv" }
BY ReaderIsNoCall DEF PcOf

\* Nobody joins or leaves the queues.
LEMMA QueuesStay ==
    ASSUME QueuesTyped, UNCHANGED channel,
           \A g \in Goroutines :
               \/ PcOf(g)' = PcOf(g)
               \/ PcOf(g) \notin {"send", "recv"} /\ PcOf(g)' \notin {"send", "recv"}
    PROVE  QueuesTyped'
<1>1. Senders' = Senders
  BY SendersAre, SendersBecome
<1>2. { c \in Calls : waiter[c].pc = "recv" }' = { c \in Calls : waiter[c].pc = "recv" }
  BY ReceiversAre, ReceiversBecome DEF Goroutines
<1> QED
  BY <1>1, <1>2 DEF QueuesTyped, channel

LEMMA HandedPlaces ==
    ASSUME NEW g, NEW c, Handed(g, c)
    PROVE  /\ g \in Goroutines /\ c \in Calls /\ c \in Goroutines /\ g # c
           /\ PcOf(g)' \notin {"send", "recv"} /\ PcOf(c)' \notin {"send", "recv"}
           /\ \A d \in Goroutines \ {g, c} : PcOf(d)' = PcOf(d)
BY DEF Handed, Goroutines

\* The first receiver gets a message of somebody who has not blocked.
LEMMA FirstReceives ==
    ASSUME QueuesTyped, recvq # << >>, NEW g, Handed(g, Head(recvq)), PcOf(g) = "pass",
           recvq' = Tail(recvq), UNCHANGED sendq
    PROVE  QueuesTyped'
<1> DEFINE c == Head(recvq)
<1>1. /\ Tail(recvq) \in Seq(Calls) /\ IsInjective(Tail(recvq))
      /\ ToSet(Tail(recvq)) = ToSet(recvq) \ {c} /\ c \in ToSet(recvq)
  BY QueueTail DEF QueuesTyped
<1>2. PcOf(c) = "recv"
  BY <1>1, ReceiversAre DEF QueuesTyped
<1> HIDE DEF c
<1>3. Handed(g, c) /\ sendq = << >>
  BY DEF c, QueuesTyped
<1>4. Senders' = Senders
  BY <1>2, <1>3, HandedPlaces, SendersAre, SendersBecome
<1>5. { d \in Calls : waiter[d].pc = "recv" }' = { d \in Calls : waiter[d].pc = "recv" } \ {c}
  BY <1>2, <1>3, HandedPlaces, ReceiversAre, ReceiversBecome DEF Goroutines
<1> QED
  BY <1>1, <1>3, <1>4, <1>5 DEF QueuesTyped

\* A goroutine that comes to receive gets the message of the first sender.
LEMMA FirstSends ==
    ASSUME QueuesTyped, sendq # << >>, NEW c, Handed(Head(sendq), c), PcOf(c) = "loop",
           sendq' = Tail(sendq), UNCHANGED recvq
    PROVE  QueuesTyped'
<1> DEFINE g == Head(sendq)
<1>1. /\ Tail(sendq) \in Seq(Goroutines) /\ IsInjective(Tail(sendq))
      /\ ToSet(Tail(sendq)) = ToSet(sendq) \ {g} /\ g \in ToSet(sendq)
  BY QueueTail DEF QueuesTyped
<1>2. PcOf(g) = "send"
  BY <1>1, SendersAre DEF QueuesTyped
<1> HIDE DEF g
<1>3. Handed(g, c) /\ recvq = << >>
  BY DEF g, QueuesTyped
<1>4. Senders' = Senders \ {g}
  BY <1>2, <1>3, HandedPlaces, SendersAre, SendersBecome
<1>5. { d \in Calls : waiter[d].pc = "recv" }' = { d \in Calls : waiter[d].pc = "recv" }
  BY <1>2, <1>3, HandedPlaces, ReceiversAre, ReceiversBecome DEF Goroutines
<1> QED
  BY <1>1, <1>3, <1>4, <1>5 DEF QueuesTyped

\* A goroutine blocks, to receive or to send.
LEMMA JoinsReceivers ==
    ASSUME QueuesTyped, sendq = << >>, NEW c \in Calls, PcOf(c) # "recv", PcOf(c) # "send",
           PcOf(c)' = "recv", \A g \in Goroutines \ {c} : PcOf(g)' = PcOf(g),
           recvq' = Append(recvq, c), UNCHANGED sendq
    PROVE  QueuesTyped'
<1>1. c \notin ToSet(recvq)
  BY ReceiversAre DEF QueuesTyped
<1>2. /\ recvq' \in Seq(Calls) /\ IsInjective(recvq') /\ ToSet(recvq') = ToSet(recvq) \cup {c}
  BY <1>1, QueueAppend DEF QueuesTyped
<1>3. Senders' = Senders
  BY SendersAre, SendersBecome
<1>4. { d \in Calls : waiter[d].pc = "recv" }' = { d \in Calls : waiter[d].pc = "recv" } \cup {c}
  BY ReceiversAre, ReceiversBecome DEF Goroutines
<1> QED
  BY <1>2, <1>3, <1>4 DEF QueuesTyped

LEMMA JoinsSenders ==
    ASSUME QueuesTyped, recvq = << >>, NEW g \in Goroutines, PcOf(g) # "recv", PcOf(g) # "send",
           PcOf(g)' = "send", \A d \in Goroutines \ {g} : PcOf(d)' = PcOf(d),
           sendq' = Append(sendq, g), UNCHANGED recvq
    PROVE  QueuesTyped'
<1>1. g \notin ToSet(sendq)
  BY SendersAre DEF QueuesTyped
<1>2. /\ sendq' \in Seq(Goroutines) /\ IsInjective(sendq') /\ ToSet(sendq') = ToSet(sendq) \cup {g}
  BY <1>1, QueueAppend DEF QueuesTyped
<1>3. Senders' = Senders \cup {g}
  BY SendersAre, SendersBecome
<1>4. { d \in Calls : waiter[d].pc = "recv" }' = { d \in Calls : waiter[d].pc = "recv" }
  BY ReceiversAre, ReceiversBecome DEF Goroutines
<1> QED
  BY <1>2, <1>3, <1>4 DEF QueuesTyped

-----------------------------------------------------------------------------
(***************************************************************************)
(* Every step keeps the types.  Most are quiet: nobody gets or loses a     *)
(* message, falls asleep or wakes up.                                      *)
(***************************************************************************)
Asking(c) == PcOf(c) \in {"limited", "sleep", "resend", "deliver"}

Quiet ==
    /\ \A g \in Goroutines : HeldBy(g)' = HeldBy(g) /\ (PcOf(g)' = "done" <=> PcOf(g) = "done")
    /\ \A c \in Calls : PcOf(c)' = "sleep" <=> PcOf(c) = "sleep"
    /\ \A c \in Calls : Asking(c) => Asking(c)' \/ c \in ToSet(writing')
    /\ UNCHANGED <<wire, served, lost, refused, limits, drops, waitMode>>

\* The same step for the goroutines alone
StandStill ==
    \A g \in Goroutines : HeldBy(g)' = HeldBy(g) /\ PcOf(g)' = PcOf(g)

LEMMA NobodyMoves ==
    ASSUME GoroutinesTyped, UNCHANGED <<waiter, reader>>
    PROVE  GoroutinesTyped' /\ StandStill
<1>1. GoroutinesTyped'
  BY DEF GoroutinesTyped
<1>2. \A g \in Goroutines : HeldBy(g)' = HeldBy(g) /\ PcOf(g)' = PcOf(g)
  BY DEF HeldBy, PcOf
<1> QED
  BY <1>1, <1>2 DEF StandStill

\* Waiting goroutine c moves alone.
MovesTo(c, w) ==
    /\ HeldBy(c)' = w.msg /\ PcOf(c)' = w.pc
    /\ \A g \in Goroutines \ {c} : HeldBy(g)' = HeldBy(g) /\ PcOf(g)' = PcOf(g)

LEMMA WaiterMoves ==
    ASSUME GoroutinesTyped, NEW c \in Calls, NEW w \in WaiterStates, WaiterHolds(w, c),
           waiter' = [waiter EXCEPT ![c] = w], UNCHANGED reader
    PROVE  GoroutinesTyped' /\ MovesTo(c, w) /\ HeldBy(c) = waiter[c].msg /\ PcOf(c) = waiter[c].pc
<1>1. waiter \in [Calls -> WaiterStates] /\ c # Reader
  BY ReaderIsNoCall DEF GoroutinesTyped
<1>2. waiter' \in [Calls -> WaiterStates] /\ waiter'[c] = w
      /\ \A d \in Calls \ {c} : waiter'[d] = waiter[d]
  BY <1>1
<1>3. GoroutinesTyped'
  BY <1>2 DEF GoroutinesTyped
<1>4. MovesTo(c, w)
  BY <1>1, <1>2 DEF MovesTo, HeldBy, PcOf, Goroutines
<1> QED
  BY <1>1, <1>3, <1>4 DEF HeldBy, PcOf

LEMMA ReaderMoves ==
    ASSUME GoroutinesTyped, reader' \in ReaderStates, ReaderHolds(reader'), UNCHANGED waiter
    PROVE  /\ GoroutinesTyped'
           /\ HeldBy(Reader) = reader.msg /\ HeldBy(Reader)' = reader'.msg
           /\ PcOf(Reader) = reader.pc /\ PcOf(Reader)' = reader'.pc
           /\ \A c \in Calls : HeldBy(c)' = HeldBy(c) /\ PcOf(c)' = PcOf(c)
<1>1. GoroutinesTyped'
  BY DEF GoroutinesTyped
<1>2. /\ HeldBy(Reader) = reader.msg /\ HeldBy(Reader)' = reader'.msg
      /\ PcOf(Reader) = reader.pc /\ PcOf(Reader)' = reader'.pc
  BY DEF HeldBy, PcOf
<1>3. \A c \in Calls : HeldBy(c)' = HeldBy(c) /\ PcOf(c)' = PcOf(c)
  BY ReaderIsNoCall DEF HeldBy, PcOf
<1> QED
  BY <1>1, <1>2, <1>3

LEMMA PcOfCall ==
    \A c \in Calls : /\ PcOf(c) = waiter[c].pc /\ PcOf(c)' = waiter'[c].pc
                     /\ HeldBy(c) = waiter[c].msg /\ HeldBy(c)' = waiter'[c].msg
BY ReaderIsNoCall DEF PcOf, HeldBy

\* A call's goroutine neither begins nor ends.
LEMMA CallsStay ==
    ASSUME CallsTyped, UNCHANGED call,
           \A c \in Calls : \/ PcOf(c)' = PcOf(c)
                            \/ PcOf(c) # "none" /\ PcOf(c)' \notin {"none", "done"}
    PROVE  CallsTyped'
BY PcOfCall DEF CallsTyped

LEMMA NetworkStays ==
    ASSUME NetworkTyped, UNCHANGED <<network, drops>>
    PROVE  NetworkTyped'
BY DEF NetworkTyped, network

LEMMA StoresStay ==
    ASSUME StoresTyped, UNCHANGED <<waitMode, history, served, lost, refused, limits>>
    PROVE  StoresTyped'
BY DEF StoresTyped

LEMMA TypedParts ==
    /\ Typed <=> GoroutinesTyped /\ CallsTyped /\ QueuesTyped /\ NetworkTyped /\ StoresTyped
    /\ Typed' <=> GoroutinesTyped' /\ CallsTyped' /\ QueuesTyped' /\ NetworkTyped' /\ StoresTyped'
BY DEF Typed

LEMMA WaiterTypes ==
    ASSUME Typed, NEW c \in Calls
    PROVE  /\ waiter[c] \in WaiterStates /\ WaiterHolds(waiter[c], c)
           /\ call[c] \in CallStates /\ waiter[c].msg \in Messages
           /\ waiter[c] = [pc |-> waiter[c].pc, msg |-> waiter[c].msg]
<1>1. waiter[c] \in WaiterStates /\ WaiterHolds(waiter[c], c) /\ call[c] \in CallStates
  BY DEF Typed, GoroutinesTyped, CallsTyped
<1> QED
  BY <1>1 DEF WaiterStates

\* A call is made.
LEMMA RequestTyped ==
    ASSUME Typed, NEW c \in Calls, NEW m \in AllMethods, Request(c, m)
    PROVE  Typed' /\ Quiet
<1>1. /\ call[c].pc = "idle" /\ waiter[c].pc = "none" /\ waiter[c].msg = NoMessage
      /\ call' = [call EXCEPT ![c] = [pc |-> "sending", method |-> m, result |-> "none"]]
      /\ waiter' = [waiter EXCEPT ![c] = Looping]
      /\ UNCHANGED <<reader, channel, network, waitMode, history, counts>>
  BY WaiterTypes DEF Request, Typed, CallsTyped, WaiterHolds
<1>2. Looping \in WaiterStates /\ WaiterHolds(Looping, c) /\ Looping.pc = "loop" /\ Looping.msg = NoMessage
  BY NoMessageIsNone DEF Looping, WaiterStates, WaiterHolds
<1>3. GoroutinesTyped' /\ MovesTo(c, Looping) /\ PcOf(c) = "none" /\ HeldBy(c) = NoMessage
  BY <1>1, <1>2, WaiterMoves, TypedParts
<1>4. QueuesTyped'
  BY <1>1, <1>2, <1>3, QueuesStay, TypedParts DEF MovesTo
<1>5. CallsTyped'
  <2>1. call' \in [Calls -> CallStates] /\ call'[c].pc = "sending"
        /\ \A d \in Calls \ {c} : call'[d] = call[d]
    BY <1>1, TypedParts DEF CallsTyped, CallStates
  <2>2. waiter'[c].pc = "loop" /\ \A d \in Calls \ {c} : waiter'[d].pc = waiter[d].pc
    BY <1>2, <1>3, PcOfCall DEF MovesTo, Goroutines
  <2> QED
    BY <2>1, <2>2, TypedParts DEF CallsTyped
<1>6. NetworkTyped' /\ StoresTyped'
  BY <1>1, NetworkStays, StoresStay, TypedParts DEF counts
<1>7. Quiet
  BY <1>1, <1>2, <1>3 DEF Quiet, Asking, MovesTo, network, counts, Goroutines
<1> QED
  BY <1>3, <1>4, <1>5, <1>6, <1>7, TypedParts

\* A call is answered from Redis, or keeps its answer there.
LEMMA CallMoves ==
    ASSUME Typed, NEW c \in Calls, NEW k \in CallStates, call' = [call EXCEPT ![c] = k],
           k.pc = "answered", history' \in {"none", "value", "empty"},
           UNCHANGED <<waiter, reader, channel, network, waitMode, counts>>
    PROVE  Typed' /\ Quiet
<1>1. GoroutinesTyped' /\ StandStill
  BY NobodyMoves, TypedParts
<1>2. QueuesTyped'
  BY <1>1, QueuesStay, TypedParts DEF StandStill
<1>3. CallsTyped'
  <2>1. call' \in [Calls -> CallStates] /\ call'[c].pc = "answered"
        /\ \A d \in Calls \ {c} : call'[d] = call[d]
    BY TypedParts DEF CallsTyped
  <2> QED
    BY <2>1, TypedParts DEF CallsTyped
<1>4. NetworkTyped' /\ StoresTyped'
  BY NetworkStays, TypedParts DEF counts, StoresTyped
<1>5. Quiet
  BY <1>1 DEF Quiet, Asking, StandStill, network, counts, Goroutines
<1> QED
  BY <1>1, <1>2, <1>3, <1>4, <1>5, TypedParts

LEMMA StartTyped ==
    ASSUME Typed, NEW c \in Calls, Start(c)
    PROVE  Typed' /\ Quiet
<1>1. CASE \E m \in AllMethods : Request(c, m)
  BY <1>1, RequestTyped
<1>2. CASE /\ history # "none" /\ call[c].pc = "idle"
           /\ call' = [call EXCEPT ![c] = [pc |-> "answered", method |-> "klinesCached", result |-> history]]
           /\ UNCHANGED <<waiter, reader, channel, network, waitMode, history, counts>>
  <2>1. [pc |-> "answered", method |-> "klinesCached", result |-> history] \in CallStates
        /\ history \in {"none", "value", "empty"}
    BY TypedParts DEF CallStates, StoresTyped, AllMethods
  <2> QED
    BY <1>2, <2>1, CallMoves
<1> QED
  BY <1>1, <1>2 DEF Start, QueryOrder, CancelOrder, LimitOrder, GetOpenedOrders, GetDepth, GetKLines,
     GetKLinesCached, TradesAggregate, GetExchangeData, GetAccountStatus, GetTrades,
     UserDataStreamStart, AllMethods

LEMMA StoreTyped ==
    ASSUME Typed, NEW c \in Calls, Store(c)
    PROVE  Typed' /\ Quiet
<1> DEFINE k == [call[c] EXCEPT !.pc = "answered"]
<1>1. k \in CallStates /\ k.pc = "answered" /\ call' = [call EXCEPT ![c] = k]
  BY WaiterTypes DEF Store, CallStates
<1>2. history' \in {"none", "value", "empty"}
  BY TypedParts DEF Store, CallsTyped
<1> QED
  BY <1>1, <1>2, CallMoves DEF Store

LEMMA ExpireTyped ==
    ASSUME Typed, Expire
    PROVE  Typed' /\ Quiet
<1>1. GoroutinesTyped' /\ StandStill
  BY NobodyMoves, TypedParts DEF Expire
<1>2. QueuesTyped' /\ CallsTyped'
  BY <1>1, QueuesStay, CallsStay, TypedParts DEF StandStill, Expire, Goroutines
<1>3. NetworkTyped' /\ StoresTyped'
  BY NetworkStays, TypedParts DEF Expire, counts, StoresTyped
<1>4. Quiet
  BY <1>1 DEF Quiet, Asking, StandStill, network, counts, Goroutines, Expire
<1> QED
  BY <1>1, <1>2, <1>3, <1>4, TypedParts

LEMMA GoesTo ==
    ASSUME NEW r \in WaiterStates, NEW pc
    PROVE  [r EXCEPT !.pc = pc] = [pc |-> pc, msg |-> r.msg]
BY DEF WaiterStates

\* A message is handed over, and nothing else is new.
Passes ==
    \E g \in Goroutines, c \in Calls :
        /\ Handed(g, c) /\ Offering(g) /\ PcOf(c) \in {"loop", "recv"}
        /\ UNCHANGED <<wire, served, lost, refused, limits, drops, waitMode>>

LEMMA PassTyped ==
    ASSUME Typed, NEW g \in Goroutines, NEW c \in Calls, Offering(g), PcOf(c) \in {"loop", "recv"},
           HandOver(g, c), Handed(g, c) => QueuesTyped',
           UNCHANGED <<call, network, waitMode, history, counts>>
    PROVE  Typed' /\ Passes
<1>1. GoroutinesTyped' /\ Handed(g, c)
  BY HandOverTyped, PcOfCall, TypedParts
<1>2. \A d \in Calls : \/ PcOf(d)' = PcOf(d)
                       \/ PcOf(d) # "none" /\ PcOf(d)' \notin {"none", "done"}
  <2>1. /\ PcOf(g) # "none" /\ PcOf(c) # "none"
        /\ PcOf(g)' \notin {"none", "done"} /\ PcOf(c)' \notin {"none", "done"}
        /\ \A d \in Goroutines \ {g, c} : PcOf(d)' = PcOf(d)
    BY <1>1 DEF Handed, Offering
  <2> QED
    BY <2>1 DEF Goroutines
<1>3. CallsTyped'
  BY <1>2, CallsStay, TypedParts
<1>4. NetworkTyped' /\ StoresTyped'
  BY NetworkStays, StoresStay, TypedParts DEF counts
<1>5. Passes
  BY <1>1 DEF Passes, network, counts
<1> QED
  BY <1>1, <1>3, <1>4, <1>5, TypedParts

LEMMA BlockTyped ==
    ASSUME Typed, GoroutinesTyped', QueuesTyped', NEW g \in Goroutines,
           HeldBy(g)' = HeldBy(g), PcOf(g) \in {"loop", "pass"}, PcOf(g)' \in {"recv", "send"},
           \A d \in Goroutines \ {g} : HeldBy(d)' = HeldBy(d) /\ PcOf(d)' = PcOf(d),
           UNCHANGED <<call, network, waitMode, history, counts>>
    PROVE  Typed' /\ Quiet
<1>1. CallsTyped'
  <2>1. PcOf(g) # "none" /\ PcOf(g)' \notin {"none", "done"}
    OBVIOUS
  <2> QED
    BY <2>1, CallsStay, TypedParts DEF Goroutines
<1>2. NetworkTyped' /\ StoresTyped'
  BY NetworkStays, StoresStay, TypedParts DEF counts
<1>3. Quiet
  <2>1. PcOf(g) \notin {"done", "sleep"} /\ PcOf(g)' \notin {"done", "sleep"}
    OBVIOUS
  <2>2. \A c \in Calls : Asking(c) => Asking(c)'
    BY DEF Asking, Goroutines
  <2> QED
    BY <2>1, <2>2 DEF Quiet, network, counts, Goroutines
<1> QED
  BY <1>1, <1>2, <1>3, TypedParts

LEMMA ReceiveTyped ==
    ASSUME Typed, NEW c \in Calls, Receive(c)
    PROVE  Typed' /\ (Quiet \/ Passes)
<1>1. /\ waiter[c].pc = "loop" /\ PcOf(c) = "loop" /\ c \in Goroutines
      /\ UNCHANGED <<call, network, waitMode, history, counts>>
  BY PcOfCall DEF Receive, Goroutines
<1>2. CASE /\ sendq # << >> /\ HandOver(Head(sendq), c)
           /\ sendq' = Tail(sendq) /\ UNCHANGED recvq
  <2>1. Head(sendq) \in Goroutines /\ PcOf(Head(sendq)) = "send"
    BY <1>2, QueuedAre, TypedParts
  <2>2. Handed(Head(sendq), c) => QueuesTyped'
    BY <1>1, <1>2, FirstSends, TypedParts
  <2> QED
    BY <1>1, <1>2, <2>1, <2>2, PassTyped DEF Offering
<1>3. CASE /\ sendq = << >> /\ waiter' = [waiter EXCEPT ![c].pc = "recv"]
           /\ recvq' = Append(recvq, c) /\ UNCHANGED <<sendq, reader>>
  <2> DEFINE w == [pc |-> "recv", msg |-> waiter[c].msg]
  <2>1. w \in WaiterStates /\ WaiterHolds(w, c) /\ waiter' = [waiter EXCEPT ![c] = w]
        /\ w.pc = "recv" /\ w.msg = waiter[c].msg
    <3>1. [waiter[c] EXCEPT !.pc = "recv"] = w /\ waiter[c].msg \in Messages
      BY WaiterTypes, GoesTo
    <3>2. w \in WaiterStates /\ WaiterHolds(w, c)
      BY <1>1, <3>1, WaiterTypes DEF WaiterStates, WaiterHolds
    <3> QED
      BY <1>3, <3>1, <3>2
  <2> HIDE DEF w
  <2>2. GoroutinesTyped' /\ MovesTo(c, w) /\ HeldBy(c) = waiter[c].msg
    BY <1>3, <2>1, WaiterMoves, TypedParts
  <2>3. QueuesTyped'
    BY <1>1, <1>3, <2>1, <2>2, JoinsReceivers, TypedParts DEF MovesTo
  <2> QED
    BY <1>1, <2>1, <2>2, <2>3, BlockTyped DEF MovesTo
<1> QED
  BY <1>2, <1>3 DEF Receive

LEMMA PassOnTyped ==
    ASSUME Typed, NEW c \in Calls, PassOn(c)
    PROVE  Typed' /\ (Quiet \/ Passes)
<1>1. /\ waiter[c].pc = "pass" /\ PcOf(c) = "pass" /\ c \in Goroutines
      /\ UNCHANGED <<call, network, waitMode, history, counts>>
  BY PcOfCall DEF PassOn, Goroutines
<1>2. CASE /\ recvq # << >> /\ HandOver(c, Head(recvq))
           /\ recvq' = Tail(recvq) /\ UNCHANGED sendq
  <2>1. Head(recvq) \in Calls /\ PcOf(Head(recvq)) = "recv"
    BY <1>2, QueuedAre, PcOfCall, TypedParts
  <2>2. Handed(c, Head(recvq)) => QueuesTyped'
    BY <1>1, <1>2, FirstReceives, TypedParts
  <2> QED
    BY <1>1, <1>2, <2>1, <2>2, PassTyped DEF Offering
<1>3. CASE /\ recvq = << >> /\ waiter' = [waiter EXCEPT ![c].pc = "send"]
           /\ sendq' = Append(sendq, c) /\ UNCHANGED <<recvq, reader>>
  <2> DEFINE w == [pc |-> "send", msg |-> waiter[c].msg]
  <2>1. w \in WaiterStates /\ WaiterHolds(w, c) /\ waiter' = [waiter EXCEPT ![c] = w]
        /\ w.pc = "send" /\ w.msg = waiter[c].msg
    <3>1. [waiter[c] EXCEPT !.pc = "send"] = w /\ waiter[c].msg \in Messages
      BY WaiterTypes, GoesTo
    <3>2. w \in WaiterStates /\ WaiterHolds(w, c)
      BY <1>1, <3>1, WaiterTypes DEF WaiterStates, WaiterHolds
    <3> QED
      BY <1>3, <3>1, <3>2
  <2> HIDE DEF w
  <2>2. GoroutinesTyped' /\ MovesTo(c, w) /\ HeldBy(c) = waiter[c].msg
    BY <1>3, <2>1, WaiterMoves, TypedParts
  <2>3. QueuesTyped'
    BY <1>1, <1>3, <2>1, <2>2, JoinsSenders, TypedParts DEF MovesTo
  <2> QED
    BY <1>1, <2>1, <2>2, <2>3, BlockTyped DEF MovesTo
<1> QED
  BY <1>2, <1>3 DEF PassOn

LEMMA OfferTyped ==
    ASSUME Typed, Offer
    PROVE  Typed' /\ (Quiet \/ Passes)
<1>1. /\ reader.pc = "pass" /\ PcOf(Reader) = "pass" /\ Reader \in Goroutines
      /\ UNCHANGED <<call, network, waitMode, history, counts>>
  BY DEF Offer, Goroutines, PcOf
<1>2. CASE /\ recvq # << >> /\ HandOver(Reader, Head(recvq))
           /\ recvq' = Tail(recvq) /\ UNCHANGED sendq
  <2>1. Head(recvq) \in Calls /\ PcOf(Head(recvq)) = "recv"
    BY <1>2, QueuedAre, PcOfCall, TypedParts
  <2>2. Handed(Reader, Head(recvq)) => QueuesTyped'
    BY <1>1, <1>2, FirstReceives, TypedParts
  <2> QED
    BY <1>1, <1>2, <2>1, <2>2, PassTyped DEF Offering
<1>3. CASE /\ recvq = << >> /\ reader' = [reader EXCEPT !.pc = "send"]
           /\ sendq' = Append(sendq, Reader) /\ UNCHANGED <<recvq, waiter>>
  <2>1. reader' \in ReaderStates /\ ReaderHolds(reader') /\ reader'.pc = "send"
        /\ reader'.msg = reader.msg
    BY <1>1, <1>3, TypedParts DEF GoroutinesTyped, ReaderStates, ReaderHolds
  <2>2. /\ GoroutinesTyped' /\ PcOf(Reader)' = "send" /\ HeldBy(Reader)' = HeldBy(Reader)
        /\ \A d \in Goroutines \ {Reader} : HeldBy(d)' = HeldBy(d) /\ PcOf(d)' = PcOf(d)
    BY <1>3, <2>1, ReaderMoves, TypedParts DEF Goroutines
  <2>3. QueuesTyped'
    BY <1>1, <1>3, <2>2, JoinsSenders, TypedParts
  <2> QED
    BY <1>1, <2>2, <2>3, BlockTyped
<1> QED
  BY <1>2, <1>3 DEF Offer

\* One waiting goroutine moves, outside the queues.
LEMMA AloneTyped ==
    ASSUME Typed, NEW c \in Calls, NEW w \in WaiterStates, WaiterHolds(w, c),
           waiter' = [waiter EXCEPT ![c] = w], UNCHANGED <<reader, channel>>,
           waiter[c].pc \notin {"send", "recv"}, w.pc \notin {"send", "recv"},
           CallsTyped', NetworkTyped', StoresTyped'
    PROVE  Typed' /\ MovesTo(c, w)
<1>1. GoroutinesTyped' /\ MovesTo(c, w) /\ PcOf(c) = waiter[c].pc
  BY WaiterMoves, TypedParts
<1>2. QueuesTyped'
  BY <1>1, QueuesStay, TypedParts DEF MovesTo
<1> QED
  BY <1>1, <1>2, TypedParts

LEMMA BeginWaitTyped ==
    ASSUME Typed, NEW c \in Calls, BeginWait(c)
    PROVE  /\ Typed' /\ MovesTo(c, [Looping EXCEPT !.pc = "sleep"]) /\ HeldBy(c) \in Refusals
           /\ PcOf(c) = "limited"
<1> DEFINE w == [Looping EXCEPT !.pc = "sleep"]
<1>1. w \in WaiterStates /\ WaiterHolds(w, c) /\ w.pc = "sleep"
  BY NoMessageIsNone DEF Looping, WaiterStates, WaiterHolds
<1>2. /\ waiter[c].pc = "limited" /\ PcOf(c) = "limited" /\ HeldBy(c) \in Refusals
      /\ waiter' = [waiter EXCEPT ![c] = w]
      /\ waitMode' = TRUE /\ UNCHANGED <<call, reader, channel, network, history, counts>>
  BY WaiterTypes, PcOfCall DEF BeginWait, WaiterHolds
<1> HIDE DEF w
<1>3. CallsTyped'
  <2>1. waiter' \in [Calls -> WaiterStates] /\ waiter'[c] = w
        /\ \A d \in Calls \ {c} : waiter'[d] = waiter[d]
    BY <1>1, <1>2, TypedParts DEF GoroutinesTyped
  <2> QED
    BY <1>1, <1>2, <2>1, TypedParts DEF CallsTyped
<1>4. NetworkTyped' /\ StoresTyped'
  BY <1>2, NetworkStays, TypedParts DEF counts, StoresTyped
<1>5. Typed' /\ MovesTo(c, w)
  BY <1>1, <1>2, <1>3, <1>4, AloneTyped
<1> QED
  BY <1>2, <1>5 DEF w

LEMMA EndWaitTyped ==
    ASSUME Typed, NEW c \in Calls, EndWait(c)
    PROVE  /\ Typed' /\ HeldBy(c)' = HeldBy(c) /\ PcOf(c) = "sleep" /\ PcOf(c)' = "resend"
           /\ \A g \in Goroutines \ {c} : HeldBy(g)' = HeldBy(g) /\ PcOf(g)' = PcOf(g)
<1> DEFINE w == [pc |-> "resend", msg |-> waiter[c].msg]
<1>1. /\ waiter[c].pc = "sleep" /\ PcOf(c) = "sleep" /\ HeldBy(c) = waiter[c].msg
      /\ waiter' = [waiter EXCEPT ![c].pc = "resend"]
      /\ waitMode' = FALSE /\ UNCHANGED <<call, reader, channel, network, history, counts>>
  BY PcOfCall DEF EndWait
<1>2. w \in WaiterStates /\ WaiterHolds(w, c) /\ waiter' = [waiter EXCEPT ![c] = w]
      /\ w.pc = "resend" /\ w.msg = waiter[c].msg
  <2>1. [waiter[c] EXCEPT !.pc = "resend"] = w /\ waiter[c].msg \in Messages
    BY WaiterTypes, GoesTo
  <2>2. w \in WaiterStates /\ WaiterHolds(w, c)
    BY <1>1, <2>1, WaiterTypes DEF WaiterStates, WaiterHolds
  <2> QED
    BY <1>1, <2>1, <2>2
<1> HIDE DEF w
<1>3. CallsTyped'
  <2>1. waiter' \in [Calls -> WaiterStates] /\ waiter'[c] = w
        /\ \A d \in Calls \ {c} : waiter'[d] = waiter[d]
    BY <1>1, <1>2, TypedParts DEF GoroutinesTyped
  <2> QED
    BY <1>1, <1>2, <2>1, TypedParts DEF CallsTyped
<1>4. NetworkTyped' /\ StoresTyped'
  BY <1>1, NetworkStays, TypedParts DEF counts, StoresTyped
<1>5. Typed' /\ MovesTo(c, w)
  BY <1>1, <1>2, <1>3, <1>4, AloneTyped
<1> QED
  BY <1>1, <1>2, <1>5 DEF MovesTo

LEMMA DeliverTyped ==
    ASSUME Typed, NEW c \in Calls, Deliver(c)
    PROVE  /\ Typed' /\ HeldBy(c)' = HeldBy(c) /\ PcOf(c) = "deliver" /\ PcOf(c)' = "done"
           /\ HeldBy(c) \in AnswersTo(c)
           /\ \A g \in Goroutines \ {c} : HeldBy(g)' = HeldBy(g) /\ PcOf(g)' = PcOf(g)
<1> DEFINE w == [pc |-> "done", msg |-> waiter[c].msg]
           k == [call[c] EXCEPT !.pc = IF call[c].method = "klinesCached" THEN "store" ELSE "answered",
                                !.result = ResultOf(call[c].method, waiter[c].msg)]
<1>1. /\ waiter[c].pc = "deliver" /\ PcOf(c) = "deliver" /\ HeldBy(c) = waiter[c].msg
      /\ HeldBy(c) \in AnswersTo(c)
      /\ waiter' = [waiter EXCEPT ![c].pc = "done"]
      /\ UNCHANGED <<reader, channel, network, waitMode, history, counts>>
  BY PcOfCall, WaiterTypes DEF Deliver, WaiterHolds
<1>2. w \in WaiterStates /\ WaiterHolds(w, c) /\ waiter' = [waiter EXCEPT ![c] = w]
      /\ w.pc = "done" /\ w.msg = waiter[c].msg
  <2>1. [waiter[c] EXCEPT !.pc = "done"] = w /\ waiter[c].msg \in Messages
    BY WaiterTypes, GoesTo
  <2>2. w \in WaiterStates /\ WaiterHolds(w, c)
    BY <1>1, <2>1, WaiterTypes DEF WaiterStates, WaiterHolds
  <2> QED
    BY <1>1, <2>1, <2>2
<1> HIDE DEF w
<1>3. CallsTyped'
  <2>1. k \in CallStates /\ k.pc \in {"store", "answered"}
        /\ (k.pc = "store" => k.result \in {"value", "empty"})
    BY WaiterTypes DEF CallStates, ResultOf, OfError
  <2>2. call' = [call EXCEPT ![c] = k]
    BY DEF Deliver
  <2> HIDE DEF k
  <2>3. call' \in [Calls -> CallStates] /\ call'[c] = k
        /\ \A d \in Calls \ {c} : call'[d] = call[d]
    BY <2>1, <2>2, TypedParts DEF CallsTyped
  <2>4. waiter'[c] = w /\ \A d \in Calls \ {c} : waiter'[d] = waiter[d]
    BY <1>1, <1>2, TypedParts DEF GoroutinesTyped
  <2> QED
    BY <2>1, <2>3, <2>4, TypedParts DEF CallsTyped
<1>4. NetworkTyped' /\ StoresTyped'
  BY <1>1, NetworkStays, StoresStay, TypedParts DEF counts
<1>5. Typed' /\ MovesTo(c, w)
  BY <1>1, <1>2, <1>3, <1>4, AloneTyped
<1> QED
  BY <1>1, <1>2, <1>5 DEF MovesTo

LEMMA ReadTyped ==
    ASSUME Typed, Read
    PROVE  /\ Typed' /\ wire # << >> /\ wire' = Tail(wire)
           /\ HeldBy(Reader) = NoMessage /\ HeldBy(Reader)' = Head(wire) /\ Head(wire) \in Replies
           /\ \A c \in Calls : HeldBy(c)' = HeldBy(c) /\ PcOf(c)' = PcOf(c)
<1> DEFINE r == [pc |-> "pass", msg |-> Head(wire)]
<1>1. /\ reader.pc = "read" /\ reader.msg = NoMessage
      /\ wire \in Seq(Replies) /\ wire # << >> /\ wire' = Tail(wire) /\ reader' = r
      /\ UNCHANGED <<call, waiter, channel, writing, writers, inflight, alive, connected, waitMode,
                     history, counts>>
  BY TypedParts DEF Read, GoroutinesTyped, ReaderHolds, NetworkTyped
<1>2. Head(wire) \in Replies /\ Tail(wire) \in Seq(Replies)
  BY <1>1, HeadTailProperties
<1>3. r \in ReaderStates /\ ReaderHolds(r) /\ r.pc = "pass" /\ r.msg = Head(wire)
  BY <1>2, NoMessageIsNone DEF ReaderStates, ReaderHolds
<1> HIDE DEF r
<1>4. /\ GoroutinesTyped'
      /\ HeldBy(Reader) = NoMessage /\ HeldBy(Reader)' = Head(wire)
      /\ PcOf(Reader) = "read" /\ PcOf(Reader)' = "pass"
      /\ \A c \in Calls : HeldBy(c)' = HeldBy(c) /\ PcOf(c)' = PcOf(c)
  BY <1>1, <1>3, ReaderMoves, TypedParts
<1>5. QueuesTyped'
  BY <1>1, <1>4, QueuesStay, TypedParts DEF Goroutines
<1>6. CallsTyped'
  BY <1>1, <1>4, CallsStay, TypedParts
<1>7. NetworkTyped' /\ StoresTyped'
  BY <1>1, <1>2, TypedParts, StoresStay DEF NetworkTyped, counts
<1> QED
  BY <1>1, <1>2, <1>4, <1>5, <1>6, <1>7, TypedParts

\* The goroutines that wait, the reader and the callers take no part.
LEMMA OutsideTyped ==
    ASSUME Typed, UNCHANGED <<call, waiter, reader, channel>>, NetworkTyped', StoresTyped'
    PROVE  Typed' /\ StandStill
<1>1. GoroutinesTyped' /\ StandStill
  BY NobodyMoves, TypedParts
<1>2. QueuesTyped' /\ CallsTyped'
  BY <1>1, QueuesStay, CallsStay, TypedParts DEF StandStill, Goroutines
<1> QED
  BY <1>1, <1>2, TypedParts

LEMMA ConnectionTyped ==
    ASSUME Typed, ReadFails \/ Connect
    PROVE  Typed' /\ Quiet
<1>1. NetworkTyped'
  <2>1. NetworkTyped
    BY TypedParts
  <2>2. CASE ReadFails
    BY <2>1, <2>2 DEF ReadFails, NetworkTyped, counts
  <2>3. CASE Connect
    <3>1. writers = drops /\ writers' = drops + 1 /\ alive' = TRUE /\ connected' = TRUE
          /\ UNCHANGED <<writing, inflight, wire, drops>>
      BY <2>1, <2>3 DEF Connect, NetworkTyped, counts
    <3> QED
      BY <2>1, <3>1 DEF NetworkTyped
  <2> QED
    BY <2>2, <2>3
<1>3. StoresTyped'
  BY TypedParts, StoresStay DEF ReadFails, Connect, counts
<1>2. Typed' /\ StandStill
  BY <1>1, <1>3, OutsideTyped DEF ReadFails, Connect
<1> QED
  BY <1>2 DEF Quiet, Asking, StandStill, counts, Goroutines, ReadFails, Connect

LEMMA TakeTyped ==
    ASSUME Typed, NEW c \in Calls, TakeToWrite(c)
    PROVE  Typed' /\ Quiet
<1>1. /\ writing' = Append(writing, c)
      /\ UNCHANGED <<reader, channel, writers, inflight, wire, alive, connected, waitMode, history, counts>>
  BY DEF TakeToWrite
<1>2. NetworkTyped' /\ StoresTyped'
  <2>1. writing' \in Seq(Calls)
    BY <1>1, AppendProperties, TypedParts DEF NetworkTyped
  <2> QED
    BY <1>1, <2>1, TypedParts, StoresStay DEF NetworkTyped, counts
<1>3. CASE /\ call[c].pc = "sending" /\ call' = [call EXCEPT ![c].pc = "waiting"] /\ UNCHANGED waiter
  <2>1. GoroutinesTyped' /\ StandStill
    BY <1>1, <1>3, NobodyMoves, TypedParts
  <2>2. CallsTyped'
    <3> DEFINE k == [call[c] EXCEPT !.pc = "waiting"]
    <3>1. k \in CallStates /\ k.pc = "waiting" /\ call' = [call EXCEPT ![c] = k]
      BY <1>3, WaiterTypes DEF CallStates
    <3> HIDE DEF k
    <3>2. call' \in [Calls -> CallStates] /\ call'[c].pc = "waiting"
          /\ \A d \in Calls \ {c} : call'[d] = call[d]
      BY <3>1, TypedParts DEF CallsTyped
    <3> QED
      BY <1>3, <3>2, TypedParts DEF CallsTyped
  <2>3. QueuesTyped'
    BY <1>1, <2>1, QueuesStay, TypedParts DEF StandStill
  <2>4. Quiet
    BY <1>1, <2>1 DEF Quiet, Asking, StandStill, counts, Goroutines
  <2> QED
    BY <1>2, <2>1, <2>2, <2>3, <2>4, TypedParts
<1>4. CASE /\ waiter[c].pc = "resend" /\ waiter' = [waiter EXCEPT ![c].pc = "loop"] /\ UNCHANGED call
  <2> DEFINE w == [pc |-> "loop", msg |-> waiter[c].msg]
  <2>1. w \in WaiterStates /\ WaiterHolds(w, c) /\ waiter' = [waiter EXCEPT ![c] = w]
        /\ w.pc = "loop" /\ w.msg = waiter[c].msg
    <3>1. [waiter[c] EXCEPT !.pc = "loop"] = w /\ waiter[c].msg \in Messages
      BY WaiterTypes, GoesTo
    <3>2. w \in WaiterStates /\ WaiterHolds(w, c)
      BY <1>4, <3>1, WaiterTypes DEF WaiterStates, WaiterHolds
    <3> QED
      BY <1>4, <3>1, <3>2
  <2> HIDE DEF w
  <2>2. CallsTyped'
    <3>1. waiter'[c] = w /\ \A d \in Calls \ {c} : waiter'[d] = waiter[d]
      BY <2>1, TypedParts DEF GoroutinesTyped
    <3> QED
      BY <1>4, <2>1, <3>1, TypedParts DEF CallsTyped
  <2>3. Typed' /\ MovesTo(c, w)
    BY <1>1, <1>2, <1>4, <2>1, <2>2, AloneTyped
  <2>4. PcOf(c) = "resend" /\ HeldBy(c) = waiter[c].msg
    BY <1>4, PcOfCall
  <2>5. c \in ToSet(writing')
    BY <1>1, AppendSet, TypedParts DEF NetworkTyped
  <2>6. Quiet
    BY <1>1, <2>1, <2>3, <2>4, <2>5 DEF Quiet, Asking, MovesTo, counts, Goroutines
  <2> QED
    BY <2>3, <2>6
<1> QED
  BY <1>3, <1>4 DEF TakeToWrite

LEMMA WriteTyped ==
    ASSUME Typed, NEW n \in DOMAIN writing, WriteMessage(n)
    PROVE  Typed' /\ Quiet
<1> DEFINE c == writing[n]
<1>1. c \in Calls /\ writing' = RemoveAt(writing, n) /\ inflight' \in {inflight, Append(inflight, c)}
  BY TypedParts, ElementOfSeq, LenProperties DEF WriteMessage, NetworkTyped
<1> HIDE DEF c
<1>2. writing' \in Seq(Calls) /\ inflight' \in Seq(Calls)
  <2>1. writing \in Seq(Calls) /\ inflight \in Seq(Calls)
    BY TypedParts DEF NetworkTyped
  <2>2. RemoveAt(writing, n) \in Seq(Calls)
    BY <2>1, RemoveAtProperties
  <2>3. Append(inflight, c) \in Seq(Calls)
    BY <1>1, <2>1, AppendProperties
  <2> QED
    BY <1>1, <2>1, <2>2, <2>3
<1>3. UNCHANGED <<call, waiter, reader, channel, writers, wire, alive, connected, waitMode,
                  history, served, lost, refused, limits, errors, drops>>
  BY DEF WriteMessage
<1>4. NetworkTyped' /\ StoresTyped'
  BY <1>2, <1>3, TypedParts, StoresStay DEF NetworkTyped
<1>5. Typed' /\ StandStill
  BY <1>3, <1>4, OutsideTyped
<1> QED
  BY <1>3, <1>5 DEF Quiet, Asking, StandStill, Goroutines

Serves(c, kind) ==
    /\ c \in Calls /\ kind \in {"ok", "error", "limit"}
    /\ wire' = Append(wire, Message(c, kind))
    /\ IF kind = "limit"
       THEN limits' = limits + 1 /\ refused' = refused \cup {c} /\ UNCHANGED served
       ELSE served' = [served EXCEPT ![c] = @ + 1] /\ UNCHANGED <<limits, refused>>
    /\ UNCHANGED <<lost, drops, waitMode>>

LEMMA ServeTyped ==
    ASSUME Typed, NEW n \in DOMAIN inflight, Serve(n)
    PROVE  /\ Typed' /\ StandStill /\ inflight' = RemoveAt(inflight, n)
           /\ \E kind : Serves(inflight[n], kind)
<1> DEFINE c == inflight[n]
<1>1. inflight \in Seq(Calls) /\ wire \in Seq(Replies) /\ c \in Calls
  BY TypedParts, ElementOfSeq, LenProperties DEF NetworkTyped
<1>2. /\ UNCHANGED <<call, waiter, reader, channel, writing, writers, alive, connected, waitMode,
                     history, sent, lost, drops>>
      /\ inflight' = RemoveAt(inflight, n)
  BY DEF Serve
<1>3. PICK kind : Serves(c, kind)
  BY <1>1, <1>2 DEF Serve, Serves
<1> HIDE DEF c
<1>4. Message(c, kind) \in Replies
  BY <1>3 DEF Serves, Message, Replies
<1>5. wire' \in Seq(Replies)
  BY <1>1, <1>3, <1>4, AppendProperties DEF Serves
<1>6. inflight' \in Seq(Calls)
  BY <1>1, <1>2, RemoveAtProperties
<1>7. NetworkTyped'
  BY <1>2, <1>5, <1>6, TypedParts DEF NetworkTyped
<1>8. StoresTyped'
  <2>1. served' \in [Calls -> Nat] /\ refused' \subseteq Calls /\ limits' \in Nat
    BY <1>3, TypedParts DEF StoresTyped, Serves
  <2> QED
    BY <1>2, <2>1, TypedParts DEF StoresTyped
<1>9. Typed' /\ StandStill
  BY <1>2, <1>7, <1>8, OutsideTyped
<1> QED
  BY <1>2, <1>3, <1>9 DEF c

LEMMA DropTyped ==
    ASSUME Typed, Drop
    PROVE  /\ Typed' /\ StandStill /\ drops' > 0
           /\ \A c \in Calls :
                /\ lost'[c] = lost[c] + Answers(c, wire) - Answers(c, wire')
                /\ Answers(c, wire') \in Nat
           /\ Count(Refusals, wire') <= Count(Refusals, wire)
           /\ UNCHANGED <<served, refused, limits, waitMode>>
<1>1. PICK k \in 0..Len(wire) :
         /\ wire' = SubSeq(wire, 1, k)
         /\ lost' = [c \in Calls |-> lost[c] + Answers(c, wire) - Answers(c, wire')]
  BY DEF Drop
<1>2. /\ UNCHANGED <<call, waiter, reader, channel, writing, writers, connected, waitMode, history,
                     sent, served, refused, limits, errors>>
      /\ alive /\ alive' = FALSE /\ drops < MaxDrops /\ drops' = drops + 1 /\ inflight' = << >>
  BY DEF Drop
<1>3. /\ wire \in Seq(Replies) /\ drops \in 0..MaxDrops /\ lost \in [Calls -> Nat]
      /\ writing \in Seq(Calls) /\ writers = drops + 1 /\ connected \in BOOLEAN
  BY <1>2, TypedParts DEF NetworkTyped, StoresTyped
<1>4. wire' \in Seq(Replies) /\ \A K : Count(K, wire') <= Count(K, wire)
  BY <1>1, <1>3, CountPrefix
<1>5. \A K : Count(K, wire') \in Nat /\ Count(K, wire) \in Nat
  BY <1>3, <1>4, CountType
<1>6. \A c \in Calls : /\ Answers(c, wire) \in Nat /\ Answers(c, wire') \in Nat
                       /\ Answers(c, wire') <= Answers(c, wire)
  BY <1>4, <1>5 DEF Answers
<1>7. \A c \in Calls : lost'[c] = lost[c] + Answers(c, wire) - Answers(c, wire')
  BY <1>1
<1>8. lost' \in [Calls -> Nat]
  <2>1. \A c \in Calls : lost[c] + Answers(c, wire) - Answers(c, wire') \in Nat
    BY <1>3, <1>6
  <2> QED
    BY <1>1, <2>1
<1>9. NetworkTyped'
  <2>1. writing' \in Seq(Calls) /\ inflight' \in Seq(Calls) /\ wire' \in Seq(Replies)
    BY <1>2, <1>3, <1>4
  <2>2. /\ drops' \in 0..MaxDrops /\ drops' > 0 /\ writers' = drops' + (IF alive' THEN 1 ELSE 0)
        /\ alive' \in BOOLEAN /\ ~alive' /\ connected' \in BOOLEAN
    <3>1. drops' = drops + 1 /\ drops < MaxDrops /\ writers' = drops + 1
      BY <1>2, <1>3
    <3>2. drops' \in 0..MaxDrops /\ drops' > 0 /\ writers' = drops' + 0
      BY <1>3, <3>1
    <3>3. alive' = FALSE /\ connected' = connected
      BY <1>2
    <3> QED
      BY <1>3, <3>2, <3>3
  <2> QED
    BY <2>1, <2>2, Zenon DEF NetworkTyped
<1>10. StoresTyped'
  BY <1>2, <1>8, TypedParts DEF StoresTyped
<1>11. Typed' /\ StandStill
  BY <1>2, <1>9, <1>10, OutsideTyped
<1> QED
  BY <1>2, <1>3, <1>4, <1>6, <1>7, <1>11

\* What a step may do to the messages, the refusals and the wait mode
Step ==
    \/ Quiet
    \/ Passes
    \/ \E c \in Calls :
         \/ BeginWait(c) /\ MovesTo(c, [Looping EXCEPT !.pc = "sleep"])
              /\ HeldBy(c) \in Refusals /\ PcOf(c) = "limited"
         \/ EndWait(c) /\ HeldBy(c)' = HeldBy(c) /\ PcOf(c) = "sleep" /\ PcOf(c)' = "resend"
              /\ \A g \in Goroutines \ {c} : HeldBy(g)' = HeldBy(g) /\ PcOf(g)' = PcOf(g)
         \/ Deliver(c) /\ HeldBy(c)' = HeldBy(c) /\ PcOf(c) = "deliver" /\ PcOf(c)' = "done"
              /\ HeldBy(c) \in AnswersTo(c)
              /\ \A g \in Goroutines \ {c} : HeldBy(g)' = HeldBy(g) /\ PcOf(g)' = PcOf(g)
    \/ /\ Read /\ wire # << >> /\ wire' = Tail(wire)
       /\ HeldBy(Reader) = NoMessage /\ HeldBy(Reader)' = Head(wire) /\ Head(wire) \in Replies
       /\ \A c \in Calls : HeldBy(c)' = HeldBy(c) /\ PcOf(c)' = PcOf(c)
    \/ StandStill /\ \E c, kind : Serves(c, kind)
    \/ /\ StandStill /\ drops' > 0
       /\ \A c \in Calls :
            /\ lost'[c] = lost[c] + Answers(c, wire) - Answers(c, wire')
            /\ Answers(c, wire') \in Nat
       /\ Count(Refusals, wire') <= Count(Refusals, wire)
       /\ UNCHANGED <<served, refused, limits, waitMode>>

LEMMA TypedStep ==
    ASSUME Typed, [Next]_vars
    PROVE  Typed' /\ Step
<1>1. CASE UNCHANGED vars
  <2>1. GoroutinesTyped' /\ StandStill
    BY <1>1, NobodyMoves, TypedParts DEF vars
  <2>2. QueuesTyped' /\ CallsTyped'
    BY <1>1, <2>1, QueuesStay, CallsStay, TypedParts DEF StandStill, Goroutines, vars
  <2>3. NetworkTyped' /\ StoresTyped'
    BY <1>1, NetworkStays, StoresStay, TypedParts DEF vars, counts
  <2>4. Quiet
    BY <1>1, <2>1 DEF Quiet, Asking, StandStill, Goroutines, vars, network, counts
  <2> QED
    BY <2>1, <2>2, <2>3, <2>4, TypedParts DEF Step
<1>2. ASSUME NEW c \in Calls, Start(c) \/ Store(c) PROVE Typed' /\ Step
  BY <1>2, StartTyped, StoreTyped DEF Step
<1>3. ASSUME NEW c \in Calls, WaiterStep(c) PROVE Typed' /\ Step
  <2>1. CASE Receive(c) \/ PassOn(c)
    BY <2>1, ReceiveTyped, PassOnTyped DEF Step
  <2>2. CASE BeginWait(c)
    BY <2>2, BeginWaitTyped DEF Step
  <2>3. CASE EndWait(c)
    BY <2>3, EndWaitTyped DEF Step
  <2>4. CASE Deliver(c)
    BY <2>4, DeliverTyped DEF Step
  <2> QED
    BY <1>3, <2>1, <2>2, <2>3, <2>4 DEF WaiterStep
<1>4. ASSUME ReaderStep PROVE Typed' /\ Step
  <2>1. CASE Read
    BY <2>1, ReadTyped DEF Step
  <2>2. CASE Offer
    BY <2>2, OfferTyped DEF Step
  <2>3. CASE ReadFails \/ Connect
    BY <2>3, ConnectionTyped DEF Step
  <2> QED
    BY <1>4, <2>1, <2>2, <2>3 DEF ReaderStep
<1>5. ASSUME WriterStep PROVE Typed' /\ Step
  BY <1>5, TakeTyped, WriteTyped DEF WriterStep, Step
<1>6. ASSUME ExchangeStep PROVE Typed' /\ Step
  BY <1>6, ServeTyped DEF ExchangeStep, Step
<1>7. ASSUME Expire PROVE Typed' /\ Step
  BY <1>7, ExpireTyped DEF Step
<1>8. ASSUME Drop PROVE Typed' /\ Step
  BY <1>8, DropTyped DEF Step
<1> QED
  BY <1>1, <1>2, <1>3, <1>4, <1>5, <1>6, <1>7, <1>8 DEF Next

LEMMA InitTyped == Init => Typed
<1> SUFFICES ASSUME Init PROVE Typed
  OBVIOUS
<1>1. GoroutinesTyped
  BY NoMessageIsNone DEF Init, GoroutinesTyped, WaiterStates, ReaderStates, WaiterHolds, ReaderHolds,
     Looping, Reading
<1>2. CallsTyped
  BY DEF Init, CallsTyped, CallStates, Looping
<1>3. QueuesTyped
  <2>1. recvq = << >> /\ sendq = << >> /\ reader.pc = "read" /\ \A c \in Calls : waiter[c].pc = "none"
    BY DEF Init, Reading, Looping
  <2>2. << >> \in Seq(Calls) /\ << >> \in Seq(Goroutines) /\ IsInjective(<< >>) /\ ToSet(<< >>) = {}
    BY DEF IsInjective, ToSet
  <2> QED
    BY <2>1, <2>2 DEF QueuesTyped, Senders
<1>4. NetworkTyped
  BY DEF Init, NetworkTyped
<1>5. StoresTyped
  BY DEF Init, StoresTyped
<1> QED
  BY <1>1, <1>2, <1>3, <1>4, <1>5 DEF Typed

LEMMA TypedIsTypeOK == Typed => TypeOK
<1> SUFFICES ASSUME Typed PROVE TypeOK
  OBVIOUS
<1>1. wire \in Seq(Messages)
  BY NoMessageIsNone, SeqMonotonic DEF Typed, NetworkTyped
<1>2. writers \in 1..(1 + MaxDrops) /\ writing \in Seq(Calls) /\ inflight \in Seq(Calls)
  BY DEF Typed, NetworkTyped
<1>3. call \in [Calls -> CallStates] /\ waiter \in [Calls -> WaiterStates] /\ reader \in ReaderStates
  BY DEF Typed, CallsTyped, GoroutinesTyped
<1>4. history \in {"none", "value", "empty"}
  BY DEF Typed, StoresTyped
<1> QED
  BY <1>1, <1>2, <1>3, <1>4
  DEF TypeOK, Typed, QueuesTyped, Senders, CallStates, WaiterStates, ReaderStates

\* Where each goroutine is and what it then holds, in every state
THEOREM ClientTyped == Spec => []Typed
<1>1. Typed /\ [Next]_vars => Typed'
  BY TypedStep
<1> QED
  BY InitTyped, <1>1, PTL DEF Spec

\* The queues of Channel hold exactly the blocked goroutines, each once, and senders and
\* receivers never wait for each other, however many calls are made (socketRequest
\* 108-139, Connect 75-91).
THEOREM ClientTypeCorrect == Spec => []TypeOK
BY ClientTyped, TypedIsTypeOK, PTL

-----------------------------------------------------------------------------
(***************************************************************************)
(* Every answer is somewhere: passing it on moves it, and only its own     *)
(* caller or a lost connection takes it away.                              *)
(***************************************************************************)
Keeps(g, c) == HeldBy(g) \in AnswersTo(c) /\ (g = c => PcOf(g) # "done")

LEMMA HoldersAre ==
    ASSUME NEW c \in Calls
    PROVE  /\ Holders(c) = { g \in Goroutines : Keeps(g, c) }
           /\ Holders(c)' = { g \in Goroutines : Keeps(g, c)' }
BY ReaderIsNoCall DEF Holders, Goroutines, Keeps, PcOf

LEMMA GroupsFinite ==
    ASSUME NEW S, S \subseteq Goroutines
    PROVE  IsFiniteSet(S) /\ Cardinality(S) \in Nat
<1>1. IsFiniteSet(Goroutines)
  BY FS_AddElement DEF Goroutines
<1> QED
  BY <1>1, FS_Subset, FS_CardinalityType

LEMMA TakenIs ==
    ASSUME NEW c \in Calls
    PROVE  /\ Taken(c) = IF PcOf(c) = "done" THEN 1 ELSE 0
           /\ Taken(c)' = IF PcOf(c)' = "done" THEN 1 ELSE 0
BY PcOfCall DEF Taken

LEMMA NotAnAnswer ==
    ASSUME NEW c \in Calls
    PROVE  /\ NoMessage \notin AnswersTo(c)
           /\ \A m \in Refusals : m \notin AnswersTo(c)
           /\ AnswersTo(c) \subseteq Replies
           /\ \A d \in Calls \ {c}, m \in AnswersTo(c) : m \notin AnswersTo(d)
BY ReaderIsNoCall DEF NoMessage, AnswersTo, Refusals, Replies

LEMMA Numbers ==
    ASSUME Typed, NEW c \in Calls
    PROVE  /\ served[c] \in Nat /\ lost[c] \in Nat /\ Answers(c, wire) \in Nat
           /\ Cardinality(Holders(c)) \in Nat /\ Taken(c) \in {0, 1}
<1>1. served[c] \in Nat /\ lost[c] \in Nat
  BY TypedParts DEF StoresTyped
<1>2. Answers(c, wire) \in Nat
  BY TypedParts, CountType DEF NetworkTyped, Answers
<1>3. Cardinality(Holders(c)) \in Nat
  BY HoldersAre, GroupsFinite
<1>4. Taken(c) \in {0, 1}
  BY TakenIs
<1> QED
  BY <1>1, <1>2, <1>3, <1>4

\* What joins and what leaves the two sides of the equation for c is the same.
LEMMA Balanced ==
    ASSUME Typed, Typed', AnswersConserved, NEW c \in Calls,
           served'[c] - served[c]
             = (Taken(c)' - Taken(c)) + (lost'[c] - lost[c])
                 + (Answers(c, wire') - Answers(c, wire))
                 + (Cardinality(Holders(c))' - Cardinality(Holders(c)))
    PROVE  served'[c] = Taken(c)' + lost'[c] + Answers(c, wire') + Cardinality(Holders(c))'
<1>1. served[c] = Taken(c) + lost[c] + Answers(c, wire) + Cardinality(Holders(c))
  BY DEF AnswersConserved
<1>2. /\ served[c] \in Nat /\ lost[c] \in Nat /\ Answers(c, wire) \in Nat
      /\ Cardinality(Holders(c)) \in Nat /\ Taken(c) \in {0, 1}
  BY Numbers
<1>3. served'[c] \in Nat /\ lost'[c] \in Nat
  BY TypedParts DEF StoresTyped
<1>4. Answers(c, wire') \in Nat
  BY TypedParts, CountType DEF NetworkTyped, Answers
<1>5. Cardinality(Holders(c))' \in Nat /\ Taken(c)' \in {0, 1}
  BY HoldersAre, GroupsFinite, TakenIs
<1> QED
  BY <1>1, <1>2, <1>3, <1>4, <1>5

\* Nobody gets or loses an answer to c.
LEMMA HoldersKept ==
    ASSUME NEW c \in Calls, \A g \in Goroutines : Keeps(g, c)' <=> Keeps(g, c)
    PROVE  Cardinality(Holders(c))' = Cardinality(Holders(c))
<1>1. Holders(c)' = Holders(c)
  BY HoldersAre
<1> QED
  BY <1>1

\* The answer to c passes from g to d.
LEMMA HoldersSwap ==
    ASSUME NEW c \in Calls, NEW g \in Goroutines, NEW d \in Goroutines, g # d,
           Keeps(g, c), ~Keeps(d, c), ~Keeps(g, c)', Keeps(d, c)',
           \A e \in Goroutines \ {g, d} : Keeps(e, c)' <=> Keeps(e, c)
    PROVE  Cardinality(Holders(c))' = Cardinality(Holders(c))
<1> DEFINE H == Holders(c)
           R == H \ {g}
<1>1. H \subseteq Goroutines /\ g \in H /\ d \notin R /\ Holders(c)' = R \cup {d} /\ R \subseteq Goroutines
  BY HoldersAre
<1>2. IsFiniteSet(H) /\ IsFiniteSet(R) /\ Cardinality(H) \in Nat /\ Cardinality(R) \in Nat
  BY <1>1, GroupsFinite
<1> HIDE DEF H
<1>3. Cardinality(R) = Cardinality(H) - 1
  BY <1>1, <1>2, FS_RemoveElement
<1>4. Cardinality(R \cup {d}) = Cardinality(R) + 1
  BY <1>1, <1>2, FS_AddElement
<1>5. Cardinality(R \cup {d}) = Cardinality(H)
  BY <1>2, <1>3, <1>4
<1> QED
  BY <1>1, <1>5 DEF H

\* One goroutine gets or loses the answer to c.
LEMMA HoldersGrow ==
    ASSUME NEW c \in Calls, NEW g \in Goroutines, ~Keeps(g, c), Keeps(g, c)',
           \A e \in Goroutines \ {g} : Keeps(e, c)' <=> Keeps(e, c)
    PROVE  Cardinality(Holders(c))' = Cardinality(Holders(c)) + 1
<1>1. Holders(c) \subseteq Goroutines /\ g \notin Holders(c) /\ Holders(c)' = Holders(c) \cup {g}
  BY HoldersAre
<1>2. Cardinality(Holders(c) \cup {g}) = Cardinality(Holders(c)) + 1
  BY <1>1, GroupsFinite, FS_AddElement
<1> QED
  BY <1>1, <1>2

LEMMA HoldersShrink ==
    ASSUME NEW c \in Calls, NEW g \in Goroutines, Keeps(g, c), ~Keeps(g, c)',
           \A e \in Goroutines \ {g} : Keeps(e, c)' <=> Keeps(e, c)
    PROVE  Cardinality(Holders(c))' = Cardinality(Holders(c)) - 1
<1>1. Holders(c) \subseteq Goroutines /\ g \in Holders(c) /\ Holders(c)' = Holders(c) \ {g}
  BY HoldersAre
<1>2. Cardinality(Holders(c) \ {g}) = Cardinality(Holders(c)) - 1
  BY <1>1, GroupsFinite, FS_RemoveElement
<1> QED
  BY <1>1, <1>2

\* A step in which the messages stay where they are
LEMMA StayConserves ==
    ASSUME Typed, Typed', AnswersConserved, NEW c \in Calls,
           \A g \in Goroutines : Keeps(g, c)' <=> Keeps(g, c),
           PcOf(c)' = "done" <=> PcOf(c) = "done", UNCHANGED <<wire, served, lost>>
    PROVE  served'[c] = Taken(c)' + lost'[c] + Answers(c, wire') + Cardinality(Holders(c))'
<1>1. Cardinality(Holders(c))' = Cardinality(Holders(c))
  BY HoldersKept
<1>2. Taken(c)' = Taken(c)
  BY TakenIs
<1> QED
  BY <1>1, <1>2, AnswersConserved DEF AnswersConserved

LEMMA PassesConserves ==
    ASSUME Typed, Typed', AnswersConserved, Passes, NEW c \in Calls
    PROVE  served'[c] = Taken(c)' + lost'[c] + Answers(c, wire') + Cardinality(Holders(c))'
<1>1. PICK g \in Goroutines, d \in Calls :
        /\ Handed(g, d) /\ Offering(g) /\ PcOf(d) \in {"loop", "recv"}
        /\ UNCHANGED <<wire, served, lost, refused, limits, drops, waitMode>>
  BY DEF Passes
<1>2. /\ d \in Goroutines /\ g # d /\ HeldBy(g) \in Replies /\ HeldBy(d) = NoMessage
      /\ HeldBy(d)' = HeldBy(g) /\ HeldBy(g)' = NoMessage
      /\ PcOf(g) # "done" /\ PcOf(g)' # "done" /\ PcOf(d) # "done" /\ PcOf(d)' # "done"
      /\ \A e \in Goroutines \ {g, d} : HeldBy(e)' = HeldBy(e) /\ PcOf(e)' = PcOf(e)
  BY <1>1 DEF Handed, Offering, Goroutines
<1>3. \A e \in Goroutines \ {g, d} : Keeps(e, c)' <=> Keeps(e, c)
  BY <1>2 DEF Keeps
<1>4. ~Keeps(d, c) /\ ~Keeps(g, c)' /\ (Keeps(g, c) <=> Keeps(d, c)')
  BY <1>2, NotAnAnswer DEF Keeps
<1>5. Cardinality(Holders(c))' = Cardinality(Holders(c))
  <2>1. CASE Keeps(g, c)
    BY <1>2, <1>3, <1>4, <2>1, HoldersSwap
  <2>2. CASE ~Keeps(g, c)
    BY <1>3, <1>4, <2>2, HoldersKept
  <2> QED
    BY <2>1, <2>2
<1>6. Taken(c)' = Taken(c)
  BY <1>2, TakenIs DEF Goroutines
<1> QED
  BY <1>1, <1>5, <1>6 DEF AnswersConserved

LEMMA DeliverConserves ==
    ASSUME Typed, Typed', AnswersConserved, NEW c \in Calls, NEW d \in Calls, Deliver(d),
           HeldBy(d)' = HeldBy(d), PcOf(d) = "deliver", PcOf(d)' = "done",
           HeldBy(d) \in AnswersTo(d),
           \A g \in Goroutines \ {d} : HeldBy(g)' = HeldBy(g) /\ PcOf(g)' = PcOf(g)
    PROVE  served'[c] = Taken(c)' + lost'[c] + Answers(c, wire') + Cardinality(Holders(c))'
<1>1. UNCHANGED <<wire, served, lost>>
  BY DEF Deliver, network, counts
<1>2. d \in Goroutines /\ c \in Goroutines
  BY DEF Goroutines
<1>3. \A g \in Goroutines \ {d} : Keeps(g, c)' <=> Keeps(g, c)
  BY DEF Keeps
<1>4. CASE d = c
  <2>1. Keeps(d, c) /\ ~Keeps(d, c)'
    BY <1>4 DEF Keeps
  <2>2. Cardinality(Holders(c))' = Cardinality(Holders(c)) - 1
    BY <1>2, <1>3, <2>1, HoldersShrink
  <2>3. Taken(c) = 0 /\ Taken(c)' = 1
    BY <1>4, TakenIs
  <2>4. Cardinality(Holders(c)) \in Nat /\ Answers(c, wire) \in Nat /\ lost[c] \in Nat /\ served[c] \in Nat
    BY Numbers
  <2> QED
    BY <1>1, <2>2, <2>3, <2>4, Balanced
<1>5. CASE d # c
  <2>1. \A g \in Goroutines : Keeps(g, c)' <=> Keeps(g, c)
    BY <1>3, <1>5 DEF Keeps
  <2>2. PcOf(c)' = PcOf(c)
    BY <1>2, <1>5
  <2> QED
    BY <1>1, <2>1, <2>2, StayConserves
<1> QED
  BY <1>4, <1>5

LEMMA ReadConserves ==
    ASSUME Typed, Typed', AnswersConserved, NEW c \in Calls, Read, wire # << >>, wire' = Tail(wire),
           HeldBy(Reader) = NoMessage, HeldBy(Reader)' = Head(wire),
           \A d \in Calls : HeldBy(d)' = HeldBy(d) /\ PcOf(d)' = PcOf(d)
    PROVE  served'[c] = Taken(c)' + lost'[c] + Answers(c, wire') + Cardinality(Holders(c))'
<1>1. UNCHANGED <<served, lost>>
  BY DEF Read, counts
<1>2. Reader \in Goroutines /\ Reader # c
  BY ReaderIsNoCall DEF Goroutines
<1>3. Answers(c, wire') = Answers(c, wire) - (IF Head(wire) \in AnswersTo(c) THEN 1 ELSE 0)
  BY CountTail, TypedParts DEF Answers, NetworkTyped
<1>4. /\ \A g \in Goroutines \ {Reader} : Keeps(g, c)' <=> Keeps(g, c)
      /\ ~Keeps(Reader, c)
      /\ Keeps(Reader, c)' <=> Head(wire) \in AnswersTo(c)
  BY <1>2, NotAnAnswer DEF Keeps, Goroutines
<1>5. Cardinality(Holders(c))' = Cardinality(Holders(c)) + (IF Head(wire) \in AnswersTo(c) THEN 1 ELSE 0)
  <2>1. Cardinality(Holders(c)) \in Nat
    BY HoldersAre, GroupsFinite
  <2>2. CASE Head(wire) \in AnswersTo(c)
    BY <1>2, <1>4, <2>1, <2>2, HoldersGrow
  <2>3. CASE Head(wire) \notin AnswersTo(c)
    BY <1>4, <2>1, <2>3, HoldersKept
  <2> QED
    BY <2>2, <2>3
<1>6. Taken(c)' = Taken(c)
  BY TakenIs
<1>7. /\ Cardinality(Holders(c)) \in Nat /\ Answers(c, wire) \in Nat /\ Taken(c) \in {0, 1}
      /\ lost[c] \in Nat /\ served[c] \in Nat
  BY Numbers
<1> DEFINE n == IF Head(wire) \in AnswersTo(c) THEN 1 ELSE 0
<1>8. Answers(c, wire') = Answers(c, wire) - n /\ n \in Nat
      /\ Cardinality(Holders(c))' = Cardinality(Holders(c)) + n
  BY <1>3, <1>5
<1> HIDE DEF n
<1>9. served'[c] - served[c]
        = (Taken(c)' - Taken(c)) + (lost'[c] - lost[c])
            + (Answers(c, wire') - Answers(c, wire))
            + (Cardinality(Holders(c))' - Cardinality(Holders(c)))
  BY <1>1, <1>6, <1>7, <1>8
<1> QED
  BY <1>9, Balanced

\* Nobody takes part, but the wire changes.
LEMMA StandStillKeeps ==
    ASSUME StandStill, NEW c \in Calls
    PROVE  Cardinality(Holders(c))' = Cardinality(Holders(c)) /\ Taken(c)' = Taken(c)
<1>1. \A g \in Goroutines : Keeps(g, c)' <=> Keeps(g, c)
  BY DEF StandStill, Keeps
<1>2. PcOf(c)' = PcOf(c)
  BY DEF StandStill, Goroutines
<1> QED
  BY <1>1, <1>2, HoldersKept, TakenIs

LEMMA ServeConserves ==
    ASSUME Typed, Typed', AnswersConserved, NEW c \in Calls, StandStill,
           NEW d, NEW kind, Serves(d, kind)
    PROVE  served'[c] = Taken(c)' + lost'[c] + Answers(c, wire') + Cardinality(Holders(c))'
<1>1. /\ d \in Calls /\ kind \in {"ok", "error", "limit"} /\ UNCHANGED lost
      /\ wire' = Append(wire, Message(d, kind))
      /\ IF kind = "limit" THEN UNCHANGED served ELSE served' = [served EXCEPT ![d] = @ + 1]
  BY DEF Serves
<1>2. Message(d, kind) \in Replies /\ wire \in Seq(Replies) /\ served \in [Calls -> Nat]
      /\ (Message(d, kind) \in AnswersTo(c) <=> d = c /\ kind # "limit")
  BY <1>1, TypedParts DEF Message, Replies, AnswersTo, NetworkTyped, StoresTyped
<1> DEFINE n == IF Message(d, kind) \in AnswersTo(c) THEN 1 ELSE 0
<1>3. Answers(c, wire') = Answers(c, wire) + n
  BY <1>1, <1>2, CountAppend DEF Answers
<1>4. served'[c] = served[c] + n /\ n \in Nat
  BY <1>1, <1>2
<1> HIDE DEF n
<1>5. Cardinality(Holders(c))' = Cardinality(Holders(c)) /\ Taken(c)' = Taken(c)
  BY StandStillKeeps
<1>6. /\ Cardinality(Holders(c)) \in Nat /\ Answers(c, wire) \in Nat /\ Taken(c) \in {0, 1}
      /\ lost[c] \in Nat /\ served[c] \in Nat
  BY Numbers
<1>7. served'[c] - served[c]
        = (Taken(c)' - Taken(c)) + (lost'[c] - lost[c])
            + (Answers(c, wire') - Answers(c, wire))
            + (Cardinality(Holders(c))' - Cardinality(Holders(c)))
  BY <1>1, <1>3, <1>4, <1>5, <1>6
<1> QED
  BY <1>7, Balanced

LEMMA DropConserves ==
    ASSUME Typed, Typed', AnswersConserved, NEW c \in Calls, StandStill, UNCHANGED served,
           lost'[c] = lost[c] + Answers(c, wire) - Answers(c, wire'), Answers(c, wire') \in Nat
    PROVE  served'[c] = Taken(c)' + lost'[c] + Answers(c, wire') + Cardinality(Holders(c))'
<1>1. Cardinality(Holders(c))' = Cardinality(Holders(c)) /\ Taken(c)' = Taken(c)
  BY StandStillKeeps
<1>2. /\ Cardinality(Holders(c)) \in Nat /\ Answers(c, wire) \in Nat /\ Taken(c) \in {0, 1}
      /\ lost[c] \in Nat /\ served[c] \in Nat
  BY Numbers
<1>3. served'[c] - served[c]
        = (Taken(c)' - Taken(c)) + (lost'[c] - lost[c])
            + (Answers(c, wire') - Answers(c, wire))
            + (Cardinality(Holders(c))' - Cardinality(Holders(c)))
  BY <1>1, <1>2
<1> QED
  BY <1>3, Balanced

LEMMA ConservedStep ==
    ASSUME Typed, AnswersConserved, [Next]_vars
    PROVE  AnswersConserved'
<1>1. Typed' /\ Step
  BY TypedStep
<1>2. SUFFICES ASSUME NEW c \in Calls
               PROVE  served'[c] = Taken(c)' + lost'[c] + Answers(c, wire') + Cardinality(Holders(c))'
  BY DEF AnswersConserved
<1>3. CASE Quiet
  <2>1. UNCHANGED <<wire, served, lost>> /\ (PcOf(c)' = "done" <=> PcOf(c) = "done")
        /\ \A g \in Goroutines : Keeps(g, c)' <=> Keeps(g, c)
    BY <1>3 DEF Quiet, Keeps, Goroutines
  <2> QED
    BY <1>1, <2>1, StayConserves
<1>4. CASE Passes
  BY <1>1, <1>4, PassesConserves
<1>5. ASSUME NEW d \in Calls, BeginWait(d), MovesTo(d, [Looping EXCEPT !.pc = "sleep"]),
             HeldBy(d) \in Refusals, PcOf(d) = "limited"
      PROVE  served'[c] = Taken(c)' + lost'[c] + Answers(c, wire') + Cardinality(Holders(c))'
  <2>1. UNCHANGED <<wire, served, lost>>
    BY <1>5 DEF BeginWait, network, counts
  <2>2. HeldBy(d)' = NoMessage /\ PcOf(d)' = "sleep"
        /\ \A g \in Goroutines \ {d} : HeldBy(g)' = HeldBy(g) /\ PcOf(g)' = PcOf(g)
    BY <1>5 DEF MovesTo, Looping
  <2>3. \A g \in Goroutines : Keeps(g, c)' <=> Keeps(g, c)
    BY <1>5, <2>2, NotAnAnswer DEF Keeps
  <2>4. PcOf(c)' = "done" <=> PcOf(c) = "done"
    BY <1>5, <2>2 DEF Goroutines
  <2> QED
    BY <1>1, <2>1, <2>3, <2>4, StayConserves
<1>6. ASSUME NEW d \in Calls, EndWait(d), HeldBy(d)' = HeldBy(d), PcOf(d) = "sleep",
             PcOf(d)' = "resend",
             \A g \in Goroutines \ {d} : HeldBy(g)' = HeldBy(g) /\ PcOf(g)' = PcOf(g)
      PROVE  served'[c] = Taken(c)' + lost'[c] + Answers(c, wire') + Cardinality(Holders(c))'
  <2>1. UNCHANGED <<wire, served, lost>>
    BY <1>6 DEF EndWait, network, counts
  <2>2. \A g \in Goroutines : Keeps(g, c)' <=> Keeps(g, c)
    BY <1>6 DEF Keeps
  <2>3. PcOf(c)' = "done" <=> PcOf(c) = "done"
    BY <1>6 DEF Goroutines
  <2> QED
    BY <1>1, <2>1, <2>2, <2>3, StayConserves
<1> QED
  BY <1>1, <1>3, <1>4, <1>5, <1>6, DeliverConserves, ReadConserves, ServeConserves, DropConserves
  DEF Step

LEMMA InitConserved == Init => AnswersConserved
<1> SUFFICES ASSUME Init, NEW c \in Calls
             PROVE  served[c] = Taken(c) + lost[c] + Answers(c, wire) + Cardinality(Holders(c))
  BY DEF AnswersConserved
<1>1. /\ wire = << >> /\ served[c] = 0 /\ lost[c] = 0
      /\ \A g \in Goroutines : HeldBy(g) = NoMessage
      /\ PcOf(c) = "none"
  BY ReaderIsNoCall DEF Init, HeldBy, Reading, Looping, Goroutines, PcOf
<1>2. Holders(c) = {}
  BY <1>1, HoldersAre, NotAnAnswer DEF Keeps
<1>3. Answers(c, wire) = 0
  BY <1>1, CountEmpty DEF Answers
<1>4. Cardinality(Holders(c)) = 0 /\ Taken(c) = 0
  BY <1>1, <1>2, FS_EmptySet, TakenIs
<1> QED
  BY <1>1, <1>3, <1>4

\* However many goroutines wait on Channel and however often a message is offered again
\* (133-138), no answer is lost or doubled: one served is taken by its caller, went with
\* a lost connection, is on the wire or in the hands of exactly one goroutine.
THEOREM ClientAnswersConserved == Spec => []AnswersConserved
<1>1. Typed /\ AnswersConserved /\ [Next]_vars => AnswersConserved'
  BY ConservedStep
<1> QED
  BY ClientTyped, InitConserved, <1>1, PTL DEF Spec

-----------------------------------------------------------------------------
(***************************************************************************)
(* Every refusal is on the wire, in one goroutine's hands, or one          *)
(* goroutine sleeps for it; those who sleep are no more than those.        *)
(***************************************************************************)
Refused == { g \in Goroutines : HeldBy(g) \in Refusals }
Sleepers == { c \in Calls : waiter[c].pc = "sleep" }

RefusalsCounted ==
    Count(Refusals, wire) + Cardinality(Refused) + Cardinality(Sleepers) <= limits

LEMMA RefusedAre == Refused' = { g \in Goroutines : HeldBy(g)' \in Refusals }
BY DEF Refused

LEMMA SleepersAre ==
    /\ Sleepers = { c \in Calls : PcOf(c) = "sleep" }
    /\ Sleepers' = { c \in Calls : PcOf(c)' = "sleep" }
BY PcOfCall DEF Sleepers

LEMMA RefusalNumbers ==
    ASSUME Typed
    PROVE  /\ Count(Refusals, wire) \in Nat /\ limits \in Nat
           /\ IsFiniteSet(Refused) /\ Cardinality(Refused) \in Nat
           /\ IsFiniteSet(Sleepers) /\ Cardinality(Sleepers) \in Nat
<1>1. Count(Refusals, wire) \in Nat /\ limits \in Nat
  BY TypedParts, CountType DEF NetworkTyped, StoresTyped
<1>2. Refused \subseteq Goroutines /\ Sleepers \subseteq Goroutines
  BY DEF Refused, Sleepers, Goroutines
<1> QED
  BY <1>1, <1>2, GroupsFinite

LEMMA NoMessageNoRefusal == NoMessage \notin Refusals /\ Refusals \subseteq Replies
BY ReaderIsNoCall DEF NoMessage, Refusals, Replies

\* A refusal that passes from one goroutine to another is counted once.
LEMMA PassesRefusals ==
    ASSUME Typed, Passes
    PROVE  Cardinality(Refused') = Cardinality(Refused) /\ Sleepers' = Sleepers
<1>1. PICK g \in Goroutines, d \in Calls :
        /\ Handed(g, d) /\ Offering(g) /\ PcOf(d) \in {"loop", "recv"}
  BY DEF Passes
<1>2. /\ d \in Goroutines /\ g # d /\ HeldBy(d) = NoMessage
      /\ HeldBy(d)' = HeldBy(g) /\ HeldBy(g)' = NoMessage
      /\ PcOf(g) # "sleep" /\ PcOf(g)' # "sleep" /\ PcOf(d) # "sleep" /\ PcOf(d)' # "sleep"
      /\ \A e \in Goroutines \ {g, d} : HeldBy(e)' = HeldBy(e) /\ PcOf(e)' = PcOf(e)
  BY <1>1 DEF Handed, Offering, Goroutines
<1>3. Sleepers' = Sleepers
  BY <1>2, SleepersAre DEF Goroutines
<1>4. CASE HeldBy(g) \in Refusals
  <2> DEFINE R == Refused \ {g}
  <2>1. g \in Refused /\ d \notin R /\ Refused' = R \cup {d}
    BY <1>2, <1>4, NoMessageNoRefusal, RefusedAre DEF Refused
  <2>2. IsFiniteSet(Refused) /\ Cardinality(Refused) \in Nat
    BY RefusalNumbers
  <2>3. IsFiniteSet(R) /\ Cardinality(R) = Cardinality(Refused) - 1
    BY <2>1, <2>2, FS_RemoveElement
  <2> HIDE DEF R
  <2>4. Cardinality(R \cup {d}) = Cardinality(R) + 1
    BY <2>1, <2>3, FS_AddElement
  <2>5. Cardinality(R \cup {d}) = Cardinality(Refused)
    BY <2>2, <2>3, <2>4
  <2> QED
    BY <1>3, <2>1, <2>5
<1>5. CASE HeldBy(g) \notin Refusals
  <2>1. Refused' = Refused
    BY <1>2, <1>5, NoMessageNoRefusal, RefusedAre DEF Refused
  <2> QED
    BY <1>3, <2>1
<1> QED
  BY <1>4, <1>5

\* Nobody gets or loses a refusal, falls asleep or wakes up.
LEMMA RefusalsKept ==
    ASSUME \A g \in Goroutines : HeldBy(g)' = HeldBy(g),
           \A c \in Calls : PcOf(c)' = "sleep" <=> PcOf(c) = "sleep"
    PROVE  Refused' = Refused /\ Sleepers' = Sleepers
BY RefusedAre, SleepersAre DEF Refused

LEMMA BeginWaitRefusals ==
    ASSUME Typed, NEW d \in Calls, MovesTo(d, [Looping EXCEPT !.pc = "sleep"]),
           HeldBy(d) \in Refusals, PcOf(d) = "limited"
    PROVE  /\ Cardinality(Refused') = Cardinality(Refused) - 1
           /\ Cardinality(Sleepers') = Cardinality(Sleepers) + 1
<1>1. HeldBy(d)' = NoMessage /\ PcOf(d)' = "sleep" /\ d \in Goroutines
      /\ \A g \in Goroutines \ {d} : HeldBy(g)' = HeldBy(g) /\ PcOf(g)' = PcOf(g)
  BY DEF MovesTo, Looping, Goroutines
<1>2. d \in Refused /\ Refused' = Refused \ {d}
  BY <1>1, NoMessageNoRefusal, RefusedAre DEF Refused
<1>3. d \notin Sleepers /\ Sleepers' = Sleepers \cup {d}
  BY <1>1, SleepersAre DEF Goroutines
<1>4. Cardinality(Refused \ {d}) = Cardinality(Refused) - 1
  BY <1>2, RefusalNumbers, FS_RemoveElement
<1>5. Cardinality(Sleepers \cup {d}) = Cardinality(Sleepers) + 1
  BY <1>3, RefusalNumbers, FS_AddElement
<1> QED
  BY <1>2, <1>3, <1>4, <1>5

LEMMA EndWaitRefusals ==
    ASSUME Typed, NEW d \in Calls, HeldBy(d)' = HeldBy(d), PcOf(d) = "sleep", PcOf(d)' = "resend",
           \A g \in Goroutines \ {d} : HeldBy(g)' = HeldBy(g) /\ PcOf(g)' = PcOf(g)
    PROVE  /\ Refused' = Refused
           /\ d \in Sleepers /\ Sleepers' = Sleepers \ {d}
           /\ Cardinality(Sleepers') = Cardinality(Sleepers) - 1
<1>1. Refused' = Refused
  BY RefusedAre DEF Refused
<1>2. d \in Sleepers /\ Sleepers' = Sleepers \ {d}
  BY SleepersAre DEF Goroutines
<1>3. Cardinality(Sleepers \ {d}) = Cardinality(Sleepers) - 1
  BY <1>2, RefusalNumbers, FS_RemoveElement
<1> QED
  BY <1>1, <1>2, <1>3

LEMMA ReadRefusals ==
    ASSUME Typed, wire # << >>, wire' = Tail(wire),
           HeldBy(Reader) = NoMessage, HeldBy(Reader)' = Head(wire),
           \A d \in Calls : HeldBy(d)' = HeldBy(d) /\ PcOf(d)' = PcOf(d)
    PROVE  /\ Count(Refusals, wire') + Cardinality(Refused')
                = Count(Refusals, wire) + Cardinality(Refused)
           /\ Sleepers' = Sleepers
<1>1. Sleepers' = Sleepers
  BY SleepersAre
<1>2. Count(Refusals, wire') = Count(Refusals, wire) - (IF Head(wire) \in Refusals THEN 1 ELSE 0)
  BY CountTail, TypedParts DEF NetworkTyped
<1>3. Reader \notin Refused
      /\ Refused' = IF Head(wire) \in Refusals THEN Refused \cup {Reader} ELSE Refused
  BY NoMessageNoRefusal, RefusedAre, ReaderIsNoCall DEF Refused, Goroutines
<1>4. Cardinality(Refused \cup {Reader}) = Cardinality(Refused) + 1
  BY <1>3, RefusalNumbers, FS_AddElement
<1> QED
  BY <1>1, <1>2, <1>3, <1>4, RefusalNumbers

LEMMA ServeRefusals ==
    ASSUME Typed, NEW d, NEW kind, Serves(d, kind)
    PROVE  /\ limits' \in Nat /\ limits' >= limits
           /\ Count(Refusals, wire') - limits' <= Count(Refusals, wire) - limits
<1>1. /\ d \in Calls /\ kind \in {"ok", "error", "limit"}
      /\ wire' = Append(wire, Message(d, kind))
      /\ IF kind = "limit" THEN limits' = limits + 1 ELSE UNCHANGED limits
  BY DEF Serves
<1>2. Message(d, kind) \in Replies /\ (Message(d, kind) \in Refusals <=> kind = "limit")
  BY <1>1 DEF Message, Replies, Refusals
<1>3. Count(Refusals, wire') = Count(Refusals, wire) + (IF kind = "limit" THEN 1 ELSE 0)
  BY <1>1, <1>2, CountAppend, TypedParts DEF NetworkTyped
<1> QED
  BY <1>1, <1>3, RefusalNumbers

LEMMA RefusalsStep ==
    ASSUME Typed, RefusalsCounted, [Next]_vars
    PROVE  RefusalsCounted'
<1>1. Typed' /\ Step
  BY TypedStep
<1>2. /\ Count(Refusals, wire) \in Nat /\ limits \in Nat
      /\ Cardinality(Refused) \in Nat /\ Cardinality(Sleepers) \in Nat
      /\ Count(Refusals, wire) + Cardinality(Refused) + Cardinality(Sleepers) <= limits
  BY RefusalNumbers DEF RefusalsCounted
<1>3. Count(Refusals, wire') \in Nat /\ limits' \in Nat
  BY <1>1, TypedParts, CountType DEF NetworkTyped, StoresTyped
<1>4. SUFFICES Count(Refusals, wire') + Cardinality(Refused') + Cardinality(Sleepers') <= limits'
  BY DEF RefusalsCounted
<1>5. CASE Quiet
  <2>1. Refused' = Refused /\ Sleepers' = Sleepers /\ wire' = wire /\ limits' = limits
    BY <1>5, RefusalsKept DEF Quiet
  <2> QED
    BY <1>2, <2>1
<1>6. CASE Passes
  <2>1. Cardinality(Refused') = Cardinality(Refused) /\ Sleepers' = Sleepers
        /\ wire' = wire /\ limits' = limits
    BY <1>6, PassesRefusals DEF Passes
  <2> QED
    BY <1>2, <2>1
<1>7. ASSUME NEW d \in Calls, BeginWait(d), MovesTo(d, [Looping EXCEPT !.pc = "sleep"]),
             HeldBy(d) \in Refusals, PcOf(d) = "limited"
      PROVE  Count(Refusals, wire') + Cardinality(Refused') + Cardinality(Sleepers') <= limits'
  <2>1. wire' = wire /\ limits' = limits
    BY <1>7 DEF BeginWait, network, counts
  <2>2. Cardinality(Refused') = Cardinality(Refused) - 1 /\ Cardinality(Sleepers') = Cardinality(Sleepers) + 1
    BY <1>7, BeginWaitRefusals
  <2> QED
    BY <1>2, <2>1, <2>2
<1>8. ASSUME NEW d \in Calls, EndWait(d), HeldBy(d)' = HeldBy(d), PcOf(d) = "sleep",
             PcOf(d)' = "resend",
             \A g \in Goroutines \ {d} : HeldBy(g)' = HeldBy(g) /\ PcOf(g)' = PcOf(g)
      PROVE  Count(Refusals, wire') + Cardinality(Refused') + Cardinality(Sleepers') <= limits'
  <2>1. wire' = wire /\ limits' = limits
    BY <1>8 DEF EndWait, network, counts
  <2>2. Refused' = Refused /\ Cardinality(Sleepers') = Cardinality(Sleepers) - 1
    BY <1>8, EndWaitRefusals
  <2> QED
    BY <1>2, <2>1, <2>2
<1>9. ASSUME NEW d \in Calls, Deliver(d), HeldBy(d)' = HeldBy(d), PcOf(d) = "deliver",
             PcOf(d)' = "done",
             \A g \in Goroutines \ {d} : HeldBy(g)' = HeldBy(g) /\ PcOf(g)' = PcOf(g)
      PROVE  Count(Refusals, wire') + Cardinality(Refused') + Cardinality(Sleepers') <= limits'
  <2>1. wire' = wire /\ limits' = limits
    BY <1>9 DEF Deliver, network, counts
  <2>2. Refused' = Refused /\ Sleepers' = Sleepers
    BY <1>9, RefusalsKept DEF Goroutines
  <2> QED
    BY <1>2, <2>1, <2>2
<1>10. ASSUME Read, wire # << >>, wire' = Tail(wire),
              HeldBy(Reader) = NoMessage, HeldBy(Reader)' = Head(wire),
              \A d \in Calls : HeldBy(d)' = HeldBy(d) /\ PcOf(d)' = PcOf(d)
       PROVE  Count(Refusals, wire') + Cardinality(Refused') + Cardinality(Sleepers') <= limits'
  <2>1. limits' = limits
    BY <1>10 DEF Read, counts
  <2>2. Count(Refusals, wire') + Cardinality(Refused') = Count(Refusals, wire) + Cardinality(Refused)
        /\ Sleepers' = Sleepers
    BY <1>10, ReadRefusals
  <2> QED
    BY <1>2, <1>3, <2>1, <2>2
<1>11. ASSUME StandStill PROVE Refused' = Refused /\ Sleepers' = Sleepers
  BY <1>11, RefusalsKept DEF StandStill, Goroutines
<1>12. ASSUME StandStill, NEW d, NEW kind, Serves(d, kind)
       PROVE  Count(Refusals, wire') + Cardinality(Refused') + Cardinality(Sleepers') <= limits'
  BY <1>2, <1>3, <1>11, <1>12, ServeRefusals
<1>13. ASSUME StandStill, Count(Refusals, wire') <= Count(Refusals, wire), UNCHANGED limits
       PROVE  Count(Refusals, wire') + Cardinality(Refused') + Cardinality(Sleepers') <= limits'
  BY <1>2, <1>3, <1>11, <1>13
<1> QED
  BY <1>1, <1>5, <1>6, <1>7, <1>8, <1>9, <1>10, <1>12, <1>13 DEF Step

LEMMA SleepingStep ==
    ASSUME Typed, RefusalsCounted, SleepingIsWaiting, [Next]_vars
    PROVE  SleepingIsWaiting'
<1>1. Step /\ limits \in Nat
  BY TypedStep, RefusalNumbers
<1>2. \A c \in Sleepers : waitMode \/ limits > 1
  BY DEF SleepingIsWaiting, Sleepers
<1>3. SUFFICES \A c \in Sleepers' : waitMode' \/ limits' > 1
  BY DEF SleepingIsWaiting, Sleepers
<1>4. ASSUME Sleepers' = Sleepers, UNCHANGED <<waitMode, limits>>
      PROVE  \A c \in Sleepers' : waitMode' \/ limits' > 1
  BY <1>2, <1>4
<1>5. CASE Quiet
  <2>1. Sleepers' = Sleepers /\ UNCHANGED <<waitMode, limits>>
    BY <1>5, RefusalsKept DEF Quiet
  <2> QED
    BY <1>4, <2>1
<1>6. CASE Passes
  <2>1. Sleepers' = Sleepers /\ UNCHANGED <<waitMode, limits>>
    BY <1>6, PassesRefusals DEF Passes
  <2> QED
    BY <1>4, <2>1
<1>7. ASSUME NEW d \in Calls, BeginWait(d) PROVE \A c \in Sleepers' : waitMode' \/ limits' > 1
  BY <1>7 DEF BeginWait
<1>8. ASSUME NEW d \in Calls, EndWait(d), HeldBy(d)' = HeldBy(d), PcOf(d) = "sleep",
             PcOf(d)' = "resend",
             \A g \in Goroutines \ {d} : HeldBy(g)' = HeldBy(g) /\ PcOf(g)' = PcOf(g),
             NEW c \in Sleepers'
      PROVE  limits' > 1
  <2>1. d \in Sleepers /\ c \in Sleepers /\ c # d
    BY <1>8, EndWaitRefusals
  <2>2. {c, d} \subseteq Sleepers /\ IsFiniteSet(Sleepers)
    BY <2>1, RefusalNumbers
  <2>3. Cardinality({c, d}) = 2
    <3> DEFINE S == {c}
    <3>1. IsFiniteSet(S) /\ Cardinality(S) = 1 /\ d \notin S /\ {c, d} = S \cup {d}
      BY <2>1, FS_Singleton
    <3> HIDE DEF S
    <3>2. Cardinality(S \cup {d}) = Cardinality(S) + 1
      BY <3>1, FS_AddElement
    <3> QED
      BY <3>1, <3>2
  <2>4. 2 <= Cardinality(Sleepers)
    BY <2>2, <2>3, FS_Subset
  <2>5. limits' = limits
    BY <1>8 DEF EndWait, counts
  <2> QED
    BY <2>4, <2>5, RefusalNumbers DEF RefusalsCounted
<1>9. ASSUME NEW d \in Calls, Deliver(d), HeldBy(d)' = HeldBy(d), PcOf(d) = "deliver",
             PcOf(d)' = "done",
             \A g \in Goroutines \ {d} : HeldBy(g)' = HeldBy(g) /\ PcOf(g)' = PcOf(g)
      PROVE  \A c \in Sleepers' : waitMode' \/ limits' > 1
  <2>1. Sleepers' = Sleepers
    BY <1>9, RefusalsKept DEF Goroutines
  <2>2. UNCHANGED <<waitMode, limits>>
    BY <1>9 DEF Deliver, counts
  <2> QED
    BY <1>4, <2>1, <2>2
<1>10. ASSUME Read, \A d \in Calls : HeldBy(d)' = HeldBy(d) /\ PcOf(d)' = PcOf(d)
       PROVE  \A c \in Sleepers' : waitMode' \/ limits' > 1
  <2>1. Sleepers' = Sleepers
    BY <1>10, SleepersAre
  <2>2. UNCHANGED <<waitMode, limits>>
    BY <1>10 DEF Read, counts
  <2> QED
    BY <1>4, <2>1, <2>2
<1>11. ASSUME StandStill PROVE Sleepers' = Sleepers
  BY <1>11, RefusalsKept DEF StandStill, Goroutines
<1>12. ASSUME StandStill, NEW d, NEW kind, Serves(d, kind)
       PROVE  \A c \in Sleepers' : waitMode' \/ limits' > 1
  <2>1. waitMode' = waitMode /\ limits' \in Nat /\ limits' >= limits
    BY <1>12, ServeRefusals DEF Serves
  <2> QED
    BY <1>1, <1>2, <1>11, <1>12, <2>1
<1>13. ASSUME StandStill, UNCHANGED <<waitMode, limits>>
       PROVE  \A c \in Sleepers' : waitMode' \/ limits' > 1
  BY <1>4, <1>11, <1>13
<1> QED
  BY <1>1, <1>5, <1>6, <1>7, <1>8, <1>9, <1>10, <1>12, <1>13 DEF Step

LEMMA InitRefusals == Init => RefusalsCounted /\ SleepingIsWaiting
<1> SUFFICES ASSUME Init PROVE RefusalsCounted /\ SleepingIsWaiting
  OBVIOUS
<1>1. /\ wire = << >> /\ limits = 0
      /\ \A g \in Goroutines : HeldBy(g) = NoMessage
      /\ \A c \in Calls : waiter[c].pc = "none"
  BY ReaderIsNoCall DEF Init, HeldBy, Reading, Looping, Goroutines
<1>2. Refused = {} /\ Sleepers = {}
  BY <1>1, NoMessageNoRefusal DEF Refused, Sleepers
<1>3. Count(Refusals, wire) = 0
  BY <1>1, CountEmpty
<1>4. RefusalsCounted
  BY <1>1, <1>2, <1>3, FS_EmptySet DEF RefusalsCounted
<1> QED
  BY <1>1, <1>4 DEF SleepingIsWaiting

\* While any goroutine waits out a refusal, new calls are held back, unless a second
\* request was refused meanwhile: the first to wake lifts the mode of all (112-117).
THEOREM ClientSleepingIsWaiting == Spec => []SleepingIsWaiting
<1>1. Typed /\ RefusalsCounted /\ SleepingIsWaiting /\ [Next]_vars
        => RefusalsCounted' /\ SleepingIsWaiting'
  BY RefusalsStep, SleepingStep
<1> QED
  BY ClientTyped, InitRefusals, <1>1, PTL DEF Spec

-----------------------------------------------------------------------------
(***************************************************************************)
(* While nothing is refused or lost, a call that waits is on its way       *)
(* somewhere: its request becomes its answer, which stays in hands until   *)
(* it is delivered.                                                        *)
(***************************************************************************)
Requested(c) == c \in ToSet(writing) \cup ToSet(inflight)
OnTheWire(c) == AnswersTo(c) \cap ToSet(wire) # {}
InHands(c) == \E g \in Goroutines : Keeps(g, c)
Going(c) == Asking(c) \/ Requested(c) \/ OnTheWire(c) \/ InHands(c)

LEMMA UnderWayIs ==
    ASSUME NEW c \in Calls
    PROVE  /\ UnderWay(c) <=> call[c].pc = "sending" \/ Going(c)
           /\ UnderWay(c)' <=> call'[c].pc = "sending" \/ Going(c)'
<1>1. (Holders(c) # {} <=> InHands(c)) /\ (Holders(c)' # {} <=> InHands(c)')
  BY HoldersAre DEF InHands
<1> QED
  BY <1>1, PcOfCall DEF UnderWay, Going, Asking, Requested, OnTheWire

\* A call that begins to wait has just given its request to a writer.
LEMMA WaitingBegins ==
    ASSUME Typed, [Next]_vars, NEW c \in Calls, call'[c].pc = "waiting"
    PROVE  call[c].pc = "waiting" \/ Requested(c)'
<1>1. call \in [Calls -> CallStates]
  BY TypedParts DEF CallsTyped
<1>2. CASE UNCHANGED call
  BY <1>2
<1>3. ASSUME NEW d \in Calls, NEW k, k.pc # "waiting", call' = [call EXCEPT ![d] = k]
      PROVE  call[c].pc = "waiting"
  BY <1>1, <1>3
<1>4. ASSUME NEW d \in Calls, Start(d) PROVE call[c].pc = "waiting"
  <2>1. \A m : [pc |-> "sending", method |-> m, result |-> "none"].pc # "waiting"
        /\ [pc |-> "answered", method |-> "klinesCached", result |-> m].pc # "waiting"
    OBVIOUS
  <2>2. \E k : k.pc # "waiting" /\ call' = [call EXCEPT ![d] = k]
    BY <1>4, <2>1 DEF Start, Request, QueryOrder, CancelOrder, LimitOrder, GetOpenedOrders, GetDepth,
       GetKLines, GetKLinesCached, TradesAggregate, GetExchangeData, GetAccountStatus, GetTrades,
       UserDataStreamStart
  <2> QED
    BY <1>3, <2>2
<1>5. ASSUME NEW d \in Calls, Store(d) PROVE call[c].pc = "waiting"
  BY <1>1, <1>5 DEF Store, CallStates
<1>6. ASSUME NEW d \in Calls, Deliver(d) PROVE call[c].pc = "waiting"
  BY <1>1, <1>6 DEF Deliver, CallStates
<1>7. ASSUME NEW d \in Calls, TakeToWrite(d) PROVE call[c].pc = "waiting" \/ Requested(c)'
  <2>1. d \in ToSet(writing')
    BY <1>7, AppendSet, TypedParts DEF TakeToWrite, NetworkTyped
  <2>2. c # d => call'[c] = call[c]
    BY <1>1, <1>7 DEF TakeToWrite
  <2> QED
    BY <2>1, <2>2 DEF Requested
<1>8. UNCHANGED vars \/ Read \/ Offer \/ ReadFails \/ Connect \/ Expire \/ Drop => UNCHANGED call
  BY DEF vars, Read, Offer, ReadFails, Connect, Expire, Drop
<1>9. (\E n \in DOMAIN writing : WriteMessage(n)) \/ ExchangeStep => UNCHANGED call
  BY DEF WriteMessage, ExchangeStep, Serve
<1>10. ASSUME NEW d \in Calls, WaiterStep(d), ~Deliver(d) PROVE UNCHANGED call
  BY <1>10 DEF WaiterStep, Receive, PassOn, BeginWait, EndWait
<1> QED
  BY <1>2, <1>4, <1>5, <1>6, <1>7, <1>8, <1>9, <1>10 DEF Next, WaiterStep, ReaderStep, WriterStep

\* A request stays with its writer or the exchange until it is answered or refused.
LEMMA RequestGoesOn ==
    ASSUME Typed, [Next]_vars, drops' = 0, NEW c \in Calls, Requested(c)
    PROVE  Requested(c)' \/ OnTheWire(c)' \/ c \in refused'
<1>1. writing \in Seq(Calls) /\ inflight \in Seq(Calls) /\ wire \in Seq(Replies)
      /\ drops \in 0..MaxDrops /\ (~alive => drops > 0)
  BY TypedParts DEF NetworkTyped
<1>2. CASE UNCHANGED <<writing, inflight>>
  BY <1>2 DEF Requested
<1>3. ASSUME NEW d \in Calls, TakeToWrite(d) PROVE Requested(c)'
  <2>1. ToSet(writing') = ToSet(writing) \cup {d} /\ inflight' = inflight
    BY <1>1, <1>3, AppendSet DEF TakeToWrite
  <2> QED
    BY <2>1 DEF Requested
<1>4. ASSUME NEW n \in DOMAIN writing, WriteMessage(n) PROVE Requested(c)'
  <2>1. /\ alive /\ writing' = RemoveAt(writing, n) /\ inflight' = Append(inflight, writing[n])
        /\ writing[n] \in Calls
    <3>1. drops' = drops /\ drops = 0
      BY <1>4 DEF WriteMessage
    <3> QED
      BY <1>1, <1>4, <3>1, ElementOfSeq, LenProperties DEF WriteMessage
  <2>2. ToSet(writing) = ToSet(writing') \cup {writing[n]}
    BY <1>1, <2>1, RemoveAtProperties
  <2>3. ToSet(inflight') = ToSet(inflight) \cup {writing[n]}
    BY <1>1, <2>1, AppendSet
  <2> QED
    BY <2>2, <2>3 DEF Requested
<1>5. ASSUME NEW n \in DOMAIN inflight, Serve(n)
      PROVE  Requested(c)' \/ OnTheWire(c)' \/ c \in refused'
  <2>1. inflight' = RemoveAt(inflight, n) /\ UNCHANGED writing
    BY <1>5 DEF Serve
  <2>2. PICK kind : Serves(inflight[n], kind)
    BY <1>5, ServeTyped
  <2>3. ToSet(inflight) = ToSet(inflight') \cup {inflight[n]}
    BY <1>1, <2>1, RemoveAtProperties
  <2>4. CASE c # inflight[n]
    BY <2>1, <2>3, <2>4 DEF Requested
  <2>5. CASE c = inflight[n] /\ kind = "limit"
    BY <2>2, <2>5 DEF Serves
  <2>6. CASE c = inflight[n] /\ kind # "limit"
    <3>1. wire' = Append(wire, Message(c, kind)) /\ kind \in {"ok", "error"}
      BY <2>2, <2>6 DEF Serves
    <3>2. Message(c, kind) \in Replies /\ Message(c, kind) \in AnswersTo(c)
      BY <3>1 DEF Message, Replies, AnswersTo
    <3>3. ToSet(wire') = ToSet(wire) \cup {Message(c, kind)}
      BY <1>1, <3>1, <3>2, AppendSet
    <3> QED
      BY <3>2, <3>3 DEF OnTheWire
  <2> QED
    BY <2>4, <2>5, <2>6
<1>6. ~Drop
  BY <1>1 DEF Drop
<1>7. UNCHANGED vars \/ Read \/ Offer \/ ReadFails \/ Connect \/ Expire
        => UNCHANGED <<writing, inflight>>
  BY DEF vars, network, Read, Offer, ReadFails, Connect, Expire
<1>8. ASSUME NEW d \in Calls, WaiterStep(d) \/ Store(d) PROVE UNCHANGED <<writing, inflight>>
  BY <1>8 DEF WaiterStep, Receive, PassOn, BeginWait, EndWait, Deliver, Store, network
<1>9. ASSUME NEW d \in Calls, Start(d) PROVE UNCHANGED <<writing, inflight>>
  BY <1>9 DEF Start, Request, QueryOrder, CancelOrder, LimitOrder, GetOpenedOrders, GetDepth,
     GetKLines, GetKLinesCached, TradesAggregate, GetExchangeData, GetAccountStatus, GetTrades,
     UserDataStreamStart, network
<1> QED
  BY <1>2, <1>3, <1>4, <1>5, <1>6, <1>7, <1>8, <1>9 DEF Next, ReaderStep, WriterStep, ExchangeStep

\* An answer stays on the wire or in hands until it is delivered.
LEMMA AnswerGoesOn ==
    ASSUME Typed, Step, drops' = 0, NEW c \in Calls, PcOf(c)' # "done", OnTheWire(c) \/ InHands(c)
    PROVE  OnTheWire(c)' \/ InHands(c)'
<1>1. wire \in Seq(Replies)
  BY TypedParts DEF NetworkTyped
<1>2. ASSUME \A g \in Goroutines : Keeps(g, c)' <=> Keeps(g, c), wire' = wire
      PROVE  OnTheWire(c)' \/ InHands(c)'
  BY <1>2 DEF OnTheWire, InHands
<1>3. CASE Quiet
  BY <1>2, <1>3 DEF Quiet, Keeps, Goroutines
<1>4. CASE Passes
  <2>1. PICK g \in Goroutines, d \in Calls : Handed(g, d) /\ Offering(g) /\ wire' = wire
    BY <1>4 DEF Passes
  <2>2. d \in Goroutines /\ HeldBy(d) = NoMessage /\ HeldBy(d)' = HeldBy(g) /\ PcOf(d)' # "done"
        /\ \A e \in Goroutines \ {g, d} : HeldBy(e)' = HeldBy(e) /\ PcOf(e)' = PcOf(e)
    BY <2>1 DEF Handed, Goroutines
  <2>3. ~Keeps(d, c) /\ (Keeps(g, c) => Keeps(d, c)')
        /\ \A e \in Goroutines \ {g, d} : Keeps(e, c) => Keeps(e, c)'
    BY <2>2, NotAnAnswer DEF Keeps
  <2>4. InHands(c) => InHands(c)'
    BY <2>2, <2>3 DEF InHands
  <2> QED
    BY <2>1, <2>4 DEF OnTheWire
<1>5. ASSUME NEW d \in Calls, BeginWait(d), MovesTo(d, [Looping EXCEPT !.pc = "sleep"]),
             HeldBy(d) \in Refusals, PcOf(d) = "limited"
      PROVE  OnTheWire(c)' \/ InHands(c)'
  <2>1. wire' = wire /\ HeldBy(d)' = NoMessage
        /\ \A g \in Goroutines \ {d} : HeldBy(g)' = HeldBy(g) /\ PcOf(g)' = PcOf(g)
    BY <1>5 DEF BeginWait, network, MovesTo, Looping
  <2>2. \A g \in Goroutines : Keeps(g, c)' <=> Keeps(g, c)
    BY <1>5, <2>1, NotAnAnswer DEF Keeps
  <2> QED
    BY <1>2, <2>1, <2>2
<1>6. ASSUME NEW d \in Calls, EndWait(d), HeldBy(d)' = HeldBy(d), PcOf(d) = "sleep",
             PcOf(d)' = "resend",
             \A g \in Goroutines \ {d} : HeldBy(g)' = HeldBy(g) /\ PcOf(g)' = PcOf(g)
      PROVE  OnTheWire(c)' \/ InHands(c)'
  <2>1. wire' = wire /\ \A g \in Goroutines : Keeps(g, c)' <=> Keeps(g, c)
    BY <1>6 DEF EndWait, network, Keeps
  <2> QED
    BY <1>2, <2>1
<1>7. ASSUME NEW d \in Calls, Deliver(d), HeldBy(d)' = HeldBy(d), PcOf(d)' = "done",
             \A g \in Goroutines \ {d} : HeldBy(g)' = HeldBy(g) /\ PcOf(g)' = PcOf(g)
      PROVE  OnTheWire(c)' \/ InHands(c)'
  <2>1. wire' = wire /\ d # c
    BY <1>7 DEF Deliver, network
  <2>2. \A g \in Goroutines : Keeps(g, c)' <=> Keeps(g, c)
    BY <1>7, <2>1 DEF Keeps
  <2> QED
    BY <1>2, <2>1, <2>2
<1>8. ASSUME wire # << >>, wire' = Tail(wire), HeldBy(Reader) = NoMessage,
             HeldBy(Reader)' = Head(wire),
             \A d \in Calls : HeldBy(d)' = HeldBy(d) /\ PcOf(d)' = PcOf(d)
      PROVE  OnTheWire(c)' \/ InHands(c)'
  <2>1. CASE InHands(c)
    <3>1. PICK g \in Goroutines : Keeps(g, c)
      BY <2>1 DEF InHands
    <3>2. g # Reader
      BY <1>8, <3>1, NotAnAnswer DEF Keeps
    <3>3. Keeps(g, c)'
      BY <1>8, <3>1, <3>2 DEF Keeps, Goroutines
    <3> QED
      BY <3>3 DEF InHands
  <2>2. CASE OnTheWire(c)
    <3>1. PICK m \in ToSet(wire) : m \in AnswersTo(c)
      BY <2>2 DEF OnTheWire
    <3>2. CASE m = Head(wire)
      <4>1. Reader \in Goroutines /\ Keeps(Reader, c)'
        BY <1>8, <3>1, <3>2, ReaderIsNoCall DEF Keeps, Goroutines
      <4> QED
        BY <4>1 DEF InHands
    <3>3. CASE m # Head(wire)
      <4>1. m \in ToSet(wire')
        BY <1>1, <1>8, <3>1, <3>3, TailSet
      <4> QED
        BY <3>1, <4>1 DEF OnTheWire
    <3> QED
      BY <3>2, <3>3
  <2> QED
    BY <2>1, <2>2
<1>9. ASSUME StandStill, NEW d, NEW kind, Serves(d, kind)
      PROVE  OnTheWire(c)' \/ InHands(c)'
  <2>1. \A g \in Goroutines : Keeps(g, c)' <=> Keeps(g, c)
    BY <1>9 DEF StandStill, Keeps
  <2>2. wire' = Append(wire, Message(d, kind)) /\ Message(d, kind) \in Replies
    BY <1>9 DEF Serves, Message, Replies
  <2>3. ToSet(wire) \subseteq ToSet(wire')
    BY <1>1, <2>2, AppendSet
  <2> QED
    BY <2>1, <2>3 DEF OnTheWire, InHands
<1> QED
  BY <1>3, <1>4, <1>5, <1>6, <1>7, <1>8, <1>9 DEF Step

\* Who took a refusal for his own waits, and then writes his request again.
LEMMA AskingGoesOn ==
    ASSUME Typed, Step, NEW c \in Calls, PcOf(c)' # "done", Asking(c)
    PROVE  Asking(c)' \/ c \in ToSet(writing')
<1>1. CASE Quiet
  BY <1>1 DEF Quiet
<1>2. CASE Passes
  BY <1>2 DEF Passes, Handed, Offering, Asking, Goroutines
<1>3. ASSUME NEW d \in Calls, MovesTo(d, [Looping EXCEPT !.pc = "sleep"])
      PROVE  Asking(c)'
  <2>1. PcOf(d)' = "sleep" /\ \A g \in Goroutines \ {d} : PcOf(g)' = PcOf(g)
    BY <1>3 DEF MovesTo, Looping
  <2> QED
    BY <2>1 DEF Asking, Goroutines
<1>4. ASSUME NEW d \in Calls, PcOf(d)' \in {"resend", "done"},
             \A g \in Goroutines \ {d} : HeldBy(g)' = HeldBy(g) /\ PcOf(g)' = PcOf(g)
      PROVE  Asking(c)'
  BY <1>4 DEF Asking, Goroutines
<1>5. CASE \A d \in Calls : HeldBy(d)' = HeldBy(d) /\ PcOf(d)' = PcOf(d)
  BY <1>5 DEF Asking
<1>6. CASE StandStill
  BY <1>6 DEF StandStill, Asking, Goroutines
<1> QED
  BY <1>1, <1>2, <1>3, <1>4, <1>5, <1>6 DEF Step

\* What was refused stays refused, and a lost connection is not forgotten.
LEMMA ReasonsStay ==
    ASSUME Typed, Step
    PROVE  refused \subseteq refused' /\ (drops > 0 => drops' > 0)
<1>1. CASE Quiet \/ Passes
  BY <1>1 DEF Quiet, Passes
<1>2. ASSUME NEW d \in Calls, BeginWait(d) \/ EndWait(d) \/ Deliver(d)
      PROVE  UNCHANGED <<refused, drops>>
  BY <1>2 DEF BeginWait, EndWait, Deliver, counts
<1>3. Read => UNCHANGED <<refused, drops>>
  BY DEF Read, counts
<1>4. ASSUME NEW d, NEW kind, Serves(d, kind)
      PROVE  refused \subseteq refused' /\ UNCHANGED drops
  BY <1>4 DEF Serves
<1> QED
  BY <1>1, <1>2, <1>3, <1>4 DEF Step

LEMMA RememberedStep ==
    ASSUME Typed, ForgottenForAReason, [Next]_vars
    PROVE  ForgottenForAReason'
<1>1. Typed' /\ Step
  BY TypedStep
<1>2. SUFFICES ASSUME NEW c \in Calls, call'[c].pc = "waiting", c \notin refused', ~(drops' > 0)
               PROVE  UnderWay(c)'
  BY DEF ForgottenForAReason
<1>3. drops' = 0 /\ PcOf(c)' # "done"
  BY <1>1, <1>2, TypedParts, PcOfCall DEF NetworkTyped, CallsTyped
<1>4. CASE Requested(c)'
  BY <1>4, UnderWayIs DEF Going
<1>5. CASE call[c].pc = "waiting"
  <2>1. UnderWay(c)
    BY <1>1, <1>2, <1>5, ReasonsStay DEF ForgottenForAReason
  <2>2. Going(c)
    BY <1>5, <2>1, UnderWayIs
  <2>3. CASE Asking(c)
    BY <1>1, <1>3, <2>3, AskingGoesOn, UnderWayIs DEF Going, Requested
  <2>4. CASE Requested(c)
    BY <1>2, <1>3, <2>4, RequestGoesOn, UnderWayIs DEF Going
  <2>5. CASE OnTheWire(c) \/ InHands(c)
    BY <1>1, <1>3, <2>5, AnswerGoesOn, UnderWayIs DEF Going
  <2> QED
    BY <2>2, <2>3, <2>4, <2>5 DEF Going
<1> QED
  BY <1>2, <1>4, <1>5, WaitingBegins

LEMMA InitRemembered == Init => ForgottenForAReason
BY DEF Init, ForgottenForAReason

\* A call is left with nothing that could answer it only after its own request was refused
\* for its weight, or after a connection was lost: in a connection that stands, passing the
\* messages around forgets nobody (108-139).
THEOREM ClientForgottenForAReason == Spec => []ForgottenForAReason
<1>1. Typed /\ ForgottenForAReason /\ [Next]_vars => ForgottenForAReason'
  BY RememberedStep
<1> QED
  BY ClientTyped, InitRemembered, <1>1, PTL DEF Spec
=============================================================================
