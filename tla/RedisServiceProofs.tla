------------------------- MODULE RedisServiceProofs -------------------------
(***************************************************************************)
(* Proofs about the commands to Redis, for any calls, any number of them   *)
(* under way, and any order in which they are posted, written, answered    *)
(* and fail: the types, and all the safety properties of RedisService.     *)
(***************************************************************************)
EXTENDS RedisService, TLAPS, SequenceTheorems

-----------------------------------------------------------------------------
(* Sequences of calls, each of them once. *)

Injective(s) == \A i, j \in DOMAIN s : s[i] = s[j] => i = j

(* What a sequence has after a call is appended. *)
LEMMA AppendFacts ==
  ASSUME NEW S, NEW s \in Seq(S), NEW x \in S
  PROVE  /\ \A c : Waits(Append(s, x), c) <=> Waits(s, c) \/ c = x
         /\ Injective(s) /\ ~Waits(s, x) => Injective(Append(s, x))
<1>1. /\ Len(s) \in Nat /\ DOMAIN s = 1..Len(s) /\ DOMAIN Append(s, x) = 1..(Len(s) + 1)
      /\ Append(s, x)[Len(s) + 1] = x
      /\ \A i \in 1..Len(s) : Append(s, x)[i] = s[i]
      /\ \A i \in 1..(Len(s) + 1) : i \in 1..Len(s) \/ i = Len(s) + 1
      /\ Len(s) + 1 \in 1..(Len(s) + 1)
      /\ \A i \in 1..Len(s) : i \in 1..(Len(s) + 1)
  OBVIOUS
<1>2. \A c : Waits(Append(s, x), c) <=> Waits(s, c) \/ c = x
  <2> TAKE c
  <2> HIDE <1>1
  <2>1. ASSUME Waits(s, c) PROVE Waits(Append(s, x), c)
    BY <1>1, <2>1 DEF Waits
  <2>2. ASSUME c = x PROVE Waits(Append(s, x), c)
    BY <1>1, <2>2 DEF Waits
  <2>3. ASSUME Waits(Append(s, x), c) PROVE Waits(s, c) \/ c = x
    BY <1>1, <2>3 DEF Waits
  <2> QED BY <2>1, <2>2, <2>3
<1>3. ASSUME Injective(s), ~Waits(s, x) PROVE Injective(Append(s, x))
  <2> SUFFICES ASSUME NEW i \in DOMAIN Append(s, x), NEW j \in DOMAIN Append(s, x),
                      Append(s, x)[i] = Append(s, x)[j]
               PROVE  i = j
    BY DEF Injective
  <2>1. CASE i \in 1..Len(s) /\ j \in 1..Len(s)
    BY <1>1, <1>3, <2>1 DEF Injective
  <2>2. CASE i \in 1..Len(s) /\ j = Len(s) + 1
    BY <1>1, <1>3, <2>2 DEF Waits
  <2>3. CASE i = Len(s) + 1 /\ j \in 1..Len(s)
    BY <1>1, <1>3, <2>3 DEF Waits
  <2> QED BY <1>1, <2>1, <2>2, <2>3
<1> QED BY <1>2, <1>3

(* What a sequence has after its first call is taken. *)
LEMMA TailFacts ==
  ASSUME NEW S, NEW s \in Seq(S), s # <<>>
  PROVE  /\ Tail(s) \in Seq(S) /\ Head(s) \in S
         /\ \A c : Waits(s, c) <=> Waits(Tail(s), c) \/ c = Head(s)
         /\ Injective(s) => Injective(Tail(s)) /\ ~Waits(Tail(s), Head(s))
<1>1. /\ Len(s) \in Nat /\ Len(s) > 0
      /\ DOMAIN s = 1..Len(s) /\ DOMAIN Tail(s) = 1..(Len(s) - 1)
      /\ Head(s) = s[1] /\ Tail(s) \in Seq(S) /\ Head(s) \in S
      /\ \A i \in 1..(Len(s) - 1) : Tail(s)[i] = s[i + 1] /\ i + 1 \in 1..Len(s) /\ i + 1 # 1
      /\ \A i \in 1..Len(s) : i = 1 \/ (i - 1 \in 1..(Len(s) - 1) /\ Tail(s)[i - 1] = s[i])
      /\ 1 \in 1..Len(s)
  OBVIOUS
<1>2. \A c : Waits(s, c) <=> Waits(Tail(s), c) \/ c = Head(s)
  <2> TAKE c
  <2>1. ASSUME Waits(s, c) PROVE Waits(Tail(s), c) \/ c = Head(s)
    BY <1>1, <2>1 DEF Waits
  <2>2. ASSUME Waits(Tail(s), c) PROVE Waits(s, c)
    BY <1>1, <2>2 DEF Waits
  <2>3. ASSUME c = Head(s) PROVE Waits(s, c)
    BY <1>1, <2>3 DEF Waits
  <2> QED BY <2>1, <2>2, <2>3
<1>3. ASSUME Injective(s) PROVE Injective(Tail(s))
  <2> SUFFICES ASSUME NEW i \in DOMAIN Tail(s), NEW j \in DOMAIN Tail(s), Tail(s)[i] = Tail(s)[j]
               PROVE  i = j
    BY DEF Injective
  <2>1. s[i + 1] = s[j + 1] /\ i + 1 \in DOMAIN s /\ j + 1 \in DOMAIN s /\ i \in Nat /\ j \in Nat
    BY <1>1
  <2>2. i + 1 = j + 1
    BY <1>3, <2>1 DEF Injective
  <2> QED BY <2>1, <2>2
<1>4. ASSUME Injective(s) PROVE ~Waits(Tail(s), Head(s))
  <2> SUFFICES ASSUME NEW i \in DOMAIN Tail(s), Tail(s)[i] = Head(s) PROVE FALSE
    BY DEF Waits
  <2> QED BY <1>1, <1>4 DEF Injective
<1> QED BY <1>1, <1>2, <1>3, <1>4

LEMMA EmptyFacts ==
  /\ \A c : ~Waits(<<>>, c)
  /\ Injective(<<>>)
BY DEF Waits, Injective

LEMMA JoinType ==
  ASSUME NEW S, NEW h \in Seq(S), NEW q \in Seq(S), NEW s \in Seq(S)
  PROVE  h \o q \o s \in Seq(S)
OBVIOUS

LEMMA MoveNone == <<>> \o <<>> \o <<>> = <<>>
OBVIOUS

(* t is the end of r. *)
Suffix(t, r) ==
  /\ Len(t) <= Len(r)
  /\ \A i \in DOMAIN t : t[i] = r[i + (Len(r) - Len(t))]

LEMMA SuffixFacts ==
  ASSUME NEW S, NEW t \in Seq(S), NEW r \in Seq(S), Suffix(t, r)
  PROVE  /\ \A x \in S : Suffix(Append(t, x), Append(r, x))
         /\ t # <<>> => /\ Suffix(Tail(t), r)
                        /\ r # <<>> /\ Suffix(Tail(t), Tail(r))
                        /\ Injective(r) => ~Waits(Tail(t), Head(r))
         /\ Len(t) = Len(r) => t = r
<1>1. ASSUME NEW x \in S PROVE Suffix(Append(t, x), Append(r, x))
  <2>1. /\ Len(t) \in Nat /\ Len(r) \in Nat /\ Len(t) <= Len(r)
        /\ Len(Append(t, x)) = Len(t) + 1 /\ DOMAIN Append(t, x) = 1..(Len(t) + 1)
        /\ Len(Append(r, x)) = Len(r) + 1
        /\ Append(t, x)[Len(t) + 1] = x /\ Append(r, x)[Len(r) + 1] = x
        /\ \A i \in 1..Len(t) : Append(t, x)[i] = t[i]
        /\ \A i \in 1..Len(r) : Append(r, x)[i] = r[i]
    BY <1>1 DEF Suffix
  <2>2. ASSUME NEW i \in 1..(Len(t) + 1)
        PROVE  Append(t, x)[i] = Append(r, x)[i + ((Len(r) + 1) - (Len(t) + 1))]
    <3>1. CASE i = Len(t) + 1
      <4>1. i + ((Len(r) + 1) - (Len(t) + 1)) = Len(r) + 1
        BY <2>1, <3>1
      <4> QED BY <2>1, <3>1, <4>1
    <3>2. CASE i \in 1..Len(t)
      <4>1. /\ i + ((Len(r) + 1) - (Len(t) + 1)) = i + (Len(r) - Len(t))
            /\ i + (Len(r) - Len(t)) \in 1..Len(r)
        BY <2>1, <3>2
      <4>2. t[i] = r[i + (Len(r) - Len(t))]
        BY <2>1, <3>2 DEF Suffix
      <4> QED BY <2>1, <3>2, <4>1, <4>2
    <3> QED BY <2>1, <3>1, <3>2
  <2>3. Len(Append(t, x)) <= Len(Append(r, x))
    BY <2>1
  <2> QED BY <2>1, <2>2, <2>3, Zenon DEF Suffix
<1>2. ASSUME t # <<>>
      PROVE  r # <<>> /\ Suffix(Tail(t), Tail(r)) /\ Suffix(Tail(t), r)
  <2>1. /\ Len(t) \in Nat /\ Len(r) \in Nat /\ Len(t) > 0 /\ Len(r) > 0 /\ r # <<>>
        /\ Len(t) <= Len(r)
        /\ Len(Tail(t)) = Len(t) - 1 /\ DOMAIN Tail(t) = 1..(Len(t) - 1)
        /\ Len(Tail(r)) = Len(r) - 1
    BY <1>2 DEF Suffix
  <2>2. ASSUME NEW i \in 1..(Len(t) - 1)
        PROVE  /\ Tail(t)[i] = r[i + (Len(r) - (Len(t) - 1))]
               /\ Tail(r)[i + (Len(r) - Len(t))] = r[i + (Len(r) - Len(t)) + 1]
    <3>1. Tail(t)[i] = t[i + 1] /\ i + 1 \in DOMAIN t
      BY <1>2, <2>1
    <3>2. t[i + 1] = r[i + 1 + (Len(r) - Len(t))]
      BY <3>1 DEF Suffix
    <3>3. i + (Len(r) - Len(t)) \in 1..(Len(r) - 1)
      BY <2>1
    <3>4. Tail(r)[i + (Len(r) - Len(t))] = r[i + (Len(r) - Len(t)) + 1]
      BY <2>1, <3>3
    <3>5. i + 1 + (Len(r) - Len(t)) = i + (Len(r) - (Len(t) - 1))
      BY <2>1
    <3> QED BY <3>1, <3>2, <3>4, <3>5
  <2> QED
    <3>1. Suffix(Tail(t), r)
      <4>1. Len(Tail(t)) <= Len(r)
        BY <2>1
      <4> QED BY <2>1, <2>2, <4>1, Zenon DEF Suffix
    <3>2. ASSUME NEW i \in 1..(Len(t) - 1)
          PROVE  Tail(t)[i] = Tail(r)[i + ((Len(r) - 1) - (Len(t) - 1))]
      <4>1. /\ (Len(r) - 1) - (Len(t) - 1) = Len(r) - Len(t)
            /\ i + (Len(r) - Len(t)) + 1 = i + (Len(r) - (Len(t) - 1))
        BY <2>1
      <4> QED BY <2>2, <4>1
    <3>3. Suffix(Tail(t), Tail(r))
      <4>1. Len(Tail(t)) <= Len(Tail(r))
        BY <2>1
      <4> QED BY <2>1, <3>2, <4>1, Zenon DEF Suffix
    <3> QED BY <2>1, <3>1, <3>3
<1>3. ASSUME t # <<>>, Injective(r) PROVE ~Waits(Tail(t), Head(r))
  <2>1. /\ Tail(t) \in Seq(S) /\ Tail(r) \in Seq(S) /\ r # <<>>
        /\ \A i \in DOMAIN Tail(t) : /\ i + (Len(Tail(r)) - Len(Tail(t))) \in DOMAIN Tail(r)
                                     /\ Tail(t)[i] = Tail(r)[i + (Len(Tail(r)) - Len(Tail(t)))]
    BY <1>2, <1>3 DEF Suffix
  <2>2. ~Waits(Tail(r), Head(r))
    BY <1>3, <2>1, TailFacts
  <2> QED BY <2>1, <2>2 DEF Waits
<1>4. ASSUME Len(t) = Len(r) PROVE t = r
  <2>1. \A i \in 1..Len(t) : t[i] = r[i]
    BY <1>4 DEF Suffix
  <2> QED BY <1>4, <2>1, SeqEqual
<1> QED BY <1>1, <1>2, <1>3, <1>4

-----------------------------------------------------------------------------
(* The types. *)

LEMMA OpenOrNot ==
  ASSUME NEW open \in BOOLEAN
  PROVE  /\ StateOf(open) \in {"NotConnected", "Connected"}
         /\ SignalOf(open) \in {"NO_SIGNAL", "SIG_CONNECTION"}
         /\ ~open => SignalOf(open) = "SIG_CONNECTION" /\ StateOf(open) = "NotConnected"
BY DEF StateOf, SignalOf

LEMMA InitType == Init => TypeOK
<1> SUFFICES ASSUME Init PROVE TypeOK
  OBVIOUS
<1>1. PICK open \in BOOLEAN : state = StateOf(open) /\ signal = SignalOf(open) /\ reading = open
  BY DEF Init
<1>2. reading \in BOOLEAN
  BY <1>1
<1>3. /\ state \in {"NotConnected", "Connected", "Subscribed"}
      /\ signal \in {"NO_SIGNAL", "SIG_CONNECTION"}
  BY <1>1, OpenOrNot
<1>4. /\ strand = <<>> /\ queue = <<>> /\ handlers = <<>> /\ wire = <<>>
      /\ posted = <<>> /\ item_queue = <<>> /\ confirmed = {} /\ called = {}
      /\ deliveries = 0 /\ messages = 0
      /\ answered = [c \in Calls |-> 0] /\ failed = [c \in Calls |-> 0]
  BY DEF Init
<1>5. /\ writing \in BOOLEAN /\ errored \in BOOLEAN /\ polling \in BOOLEAN
      /\ stale \in BOOLEAN /\ underflow \in BOOLEAN
  BY DEF Init
<1> QED BY <1>2, <1>3, <1>4, <1>5 DEF TypeOK

LEMMA PopType ==
  ASSUME TypeOK, PopItem
  PROVE  item_queue' \in Seq(Calls) /\ underflow' \in BOOLEAN
<1>1. CASE item_queue = <<>>
  BY <1>1 DEF PopItem, TypeOK
<1>2. CASE item_queue # <<>>
  <2>1. item_queue' = Tail(item_queue) /\ underflow' = underflow
    BY <1>2 DEF PopItem
  <2> QED BY <1>2, <2>1 DEF TypeOK
<1> QED BY <1>1, <1>2

LEMMA FailType ==
  ASSUME TypeOK, NEW items \in Seq(Calls), Fail(items)
  PROVE  item_queue' \in Seq(Calls) /\ failed' \in [Calls -> Nat]
BY DEF Fail, TypeOK

LEMMA HandlerType ==
  ASSUME TypeOK, handlers # <<>>, handler
  PROVE  /\ item_queue' \in Seq(Calls) /\ underflow' \in BOOLEAN
         /\ answered' \in [Calls -> Nat] /\ stale' \in BOOLEAN
<1>1. CASE Head(handlers) \in Commands
  <2>1. /\ PopItem
        /\ answered' = [answered EXCEPT ![Head(handlers)] = @ + 1]
        /\ stale' = (stale \/ errored)
    BY <1>1 DEF handler
  <2> QED BY <2>1, PopType DEF TypeOK
<1>2. CASE Head(handlers) \notin Commands
  BY <1>2 DEF handler, TypeOK
<1> QED BY <1>1, <1>2

LEMMA TypeStep ==
  ASSUME TypeOK, writing => queue # <<>>, [Next]_vars
  PROVE  TypeOK'
<1>1. CASE \E c \in Calls : invoke(c)
  BY <1>1 DEF invoke, TypeOK, service_vars, client_vars, redis_vars, history_vars
<1>2. CASE update
  BY <1>2 DEF update, TypeOK, service_vars, client_vars, redis_vars, history_vars
<1>3. CASE \E open \in BOOLEAN : connect(open)
  <2> PICK open \in BOOLEAN : connect(open)
    BY <1>3
  <2>1. item_queue' \in Seq(Calls) /\ failed' \in [Calls -> Nat]
    BY FailType DEF connect, TypeOK
  <2>2. /\ state' \in {"NotConnected", "Connected", "Subscribed"}
        /\ signal' \in {"NO_SIGNAL", "SIG_CONNECTION"}
    BY OpenOrNot DEF connect, NewClient
  <2>3. /\ reading' \in BOOLEAN /\ writing' \in BOOLEAN /\ errored' \in BOOLEAN
        /\ polling' \in BOOLEAN
    BY DEF connect, NewClient
  <2> QED BY <2>1, <2>2, <2>3 DEF connect, NewClient, TypeOK
<1>4. CASE PollReturns
  BY <1>4 DEF PollReturns, TypeOK, service_vars, client_vars, redis_vars, history_vars
<1>5. CASE ExecCommand
  <2>1. /\ Head(posted) \in Calls /\ Tail(posted) \in Seq(Calls)
        /\ Append(item_queue, Head(posted)) \in Seq(Calls)
    BY <1>5 DEF ExecCommand, TypeOK, Calls
  <2>2. CASE state = "Connected"
    <3>1. /\ item_queue' = Append(item_queue, Head(posted))
          /\ strand' = Append(strand, Head(posted))
          /\ UNCHANGED <<signal, errored, failed>>
      BY <1>5, <2>2 DEF ExecCommand
    <3>2. /\ posted' = Tail(posted)
          /\ UNCHANGED <<called, polling, state, queue, writing, handlers, reading, wire,
                         confirmed, deliveries, messages, answered, stale, underflow>>
      BY <1>5 DEF ExecCommand, redis_vars
    <3>3. strand' \in Seq(Calls)
      BY <2>1, <3>1 DEF TypeOK
    <3> QED BY <2>1, <3>1, <3>2, <3>3 DEF TypeOK
  <2>3. CASE state # "Connected"
    <3>a. errorHandle(Append(item_queue, Head(posted)))
      BY <1>5, <2>3, Zenon DEF ExecCommand
    <3>1. Fail(Append(item_queue, Head(posted))) /\ signal' = "SIG_CONNECTION" /\ errored' = TRUE
      BY <3>a, Zenon DEF errorHandle
    <3>2. item_queue' \in Seq(Calls) /\ failed' \in [Calls -> Nat]
      BY <2>1, <3>1, FailType
    <3>3. /\ posted' = Tail(posted)
          /\ UNCHANGED <<strand, called, polling, state, queue, writing, handlers, reading, wire,
                         confirmed, deliveries, messages, answered, stale, underflow>>
      BY <1>5, <2>3 DEF ExecCommand, redis_vars
    <3> QED BY <2>1, <3>1, <3>2, <3>3 DEF TypeOK
  <2> QED BY <2>2, <2>3
<1>6. CASE ExecSubscribe
  <2>1. /\ Head(posted) \in Calls /\ Tail(posted) \in Seq(Calls)
        /\ Append(item_queue, Head(posted)) \in Seq(Calls)
    BY <1>6 DEF ExecSubscribe, TypeOK, Calls
  <2>2. CASE state # "NotConnected"
    <3>1. /\ item_queue' = Append(item_queue, Head(posted))
          /\ strand' = Append(strand, Head(posted))
          /\ state' = "Subscribed"
          /\ UNCHANGED <<signal, errored, failed>>
      BY <1>6, <2>2 DEF ExecSubscribe
    <3>2. /\ posted' = Tail(posted)
          /\ UNCHANGED <<called, polling, queue, writing, handlers, reading, wire,
                         confirmed, deliveries, messages, answered, stale, underflow>>
      BY <1>6 DEF ExecSubscribe, redis_vars
    <3>3. strand' \in Seq(Calls)
      BY <2>1, <3>1 DEF TypeOK
    <3> QED BY <2>1, <3>1, <3>2, <3>3 DEF TypeOK
  <2>3. CASE state = "NotConnected"
    <3>a. errorHandle(Append(item_queue, Head(posted)))
      BY <1>6, <2>3, Zenon DEF ExecSubscribe
    <3>1. Fail(Append(item_queue, Head(posted))) /\ signal' = "SIG_CONNECTION" /\ errored' = TRUE
      BY <3>a, Zenon DEF errorHandle
    <3>2. item_queue' \in Seq(Calls) /\ failed' \in [Calls -> Nat]
      BY <2>1, <3>1, FailType
    <3>3. /\ posted' = Tail(posted)
          /\ UNCHANGED <<strand, called, polling, state, queue, writing, handlers, reading, wire,
                         confirmed, deliveries, messages, answered, stale, underflow>>
      BY <1>6, <2>3 DEF ExecSubscribe, redis_vars
    <3> QED BY <2>1, <3>1, <3>2, <3>3 DEF TypeOK
  <2> QED BY <2>2, <2>3
<1>7. CASE doCommand
  <2>1. strand' \in Seq(Calls) /\ queue' \in Seq(Calls)
    BY <1>7, TailFacts DEF doCommand, TypeOK
  <2>2. writing' \in BOOLEAN
    BY <1>7 DEF doCommand, TypeOK
  <2>3. UNCHANGED <<io_vars, service_vars, state, handlers, reading, errored, redis_vars, history_vars>>
    BY <1>7 DEF doCommand
  <2> QED BY <2>1, <2>2, <2>3 DEF TypeOK, io_vars, service_vars, redis_vars, history_vars
<1>8. CASE asyncWrite
  <2>1. Head(queue) \in Calls /\ Tail(queue) \in Seq(Calls)
    BY <1>8, TailFacts DEF asyncWrite, TypeOK
  <2>2. writing' \in BOOLEAN
    BY <1>8 DEF asyncWrite
  <2> QED BY <1>8, <2>1, <2>2 DEF asyncWrite, TypeOK, io_vars, service_vars, history_vars
<1>9. CASE asyncWriteError
  <2>1. Fail(item_queue) /\ signal' = "SIG_CONNECTION" /\ errored' = TRUE
    BY <1>9 DEF asyncWriteError, errorHandle
  <2>2. item_queue' \in Seq(Calls) /\ failed' \in [Calls -> Nat]
    BY <2>1, FailType DEF TypeOK
  <2> QED BY <1>9, <2>1, <2>2 DEF asyncWriteError, TypeOK, io_vars, redis_vars
<1>10. CASE asyncReadError
  <2>1. Fail(item_queue) /\ signal' = "SIG_CONNECTION" /\ errored' = TRUE
    BY <1>10 DEF asyncReadError, errorHandle
  <2>2. item_queue' \in Seq(Calls) /\ failed' \in [Calls -> Nat]
    BY <2>1, FailType DEF TypeOK
  <2> QED BY <1>10, <2>1, <2>2 DEF asyncReadError, TypeOK, io_vars, redis_vars
<1>11. CASE doProcessMessage
  <2>1. /\ item_queue' \in Seq(Calls) /\ underflow' \in BOOLEAN
        /\ answered' \in [Calls -> Nat] /\ stale' \in BOOLEAN
    BY <1>11, HandlerType DEF doProcessMessage
  <2>2. /\ wire' \in Seq(Calls) /\ handlers' \in Seq(Calls)
    BY <1>11, TailFacts DEF doProcessMessage, TypeOK
  <2>3. confirmed' \subseteq Subscriptions
    BY <1>11 DEF doProcessMessage, TypeOK
  <2> QED BY <1>11, <2>1, <2>2, <2>3 DEF doProcessMessage, TypeOK, io_vars
<1>12. CASE HandlerThrows
  <2>1. /\ item_queue' \in Seq(Calls) /\ underflow' \in BOOLEAN
        /\ answered' \in [Calls -> Nat] /\ stale' \in BOOLEAN
    BY <1>12, HandlerType DEF HandlerThrows
  <2>2. wire' \in Seq(Calls)
    BY <1>12, TailFacts DEF HandlerThrows, TypeOK
  <2>3. confirmed' \subseteq Subscriptions
    BY <1>12 DEF HandlerThrows, TypeOK
  <2> QED BY <1>12, <2>1, <2>2, <2>3 DEF HandlerThrows, TypeOK
<1>13. CASE ProtocolError
  <2>1. Fail(item_queue) /\ signal' = "SIG_CONNECTION" /\ errored' = TRUE
    BY <1>13 DEF ProtocolError, errorHandle
  <2>2. item_queue' \in Seq(Calls) /\ failed' \in [Calls -> Nat]
    BY <2>1, FailType DEF TypeOK
  <2>3. wire' \in Seq(Calls)
    BY <1>13, TailFacts DEF ProtocolError, TypeOK
  <2> QED BY <1>13, <2>1, <2>2, <2>3 DEF ProtocolError, TypeOK, io_vars
<1>14. CASE Message
  BY <1>14 DEF Message, TypeOK, io_vars, service_vars, client_vars, history_vars
<1>15. CASE MessageCallback
  BY <1>15, PopType DEF MessageCallback, TypeOK, io_vars, client_vars
<1>16. CASE UNCHANGED vars
  BY <1>16 DEF vars, TypeOK, io_vars, service_vars, client_vars, redis_vars, history_vars
<1> QED BY <1>1, <1>2, <1>3, <1>4, <1>5, <1>6, <1>7, <1>8, <1>9, <1>10, <1>11, <1>12,
           <1>13, <1>14, <1>15, <1>16 DEF Next, Service, Client

-----------------------------------------------------------------------------
(* The client and the connection. *)

Healthy == reading /\ ~errored

WritesQueued      == writing => queue # <<>>
DeliveriesCounted == deliveries <= messages
WireHandled       == Healthy => wire = handlers

ClientInv ==
  DeadIsReplaced /\ AnswersAreExpected /\ WritesQueued /\ DeliveriesCounted /\ WireHandled

LEMMA InitClient == Init => ClientInv
<1> SUFFICES ASSUME Init PROVE ClientInv
  OBVIOUS
<1>1. PICK open \in BOOLEAN : signal = SignalOf(open) /\ reading = open
  BY DEF Init
<1>2. DeadIsReplaced
  BY <1>1, OpenOrNot DEF Init, DeadIsReplaced
<1> QED BY <1>2 DEF Init, ClientInv, AnswersAreExpected, WritesQueued, DeliveriesCounted, WireHandled

LEMMA ErrorHandled ==
  ASSUME NEW items, errorHandle(items)
  PROVE  DeadIsReplaced' /\ ~Healthy'
BY DEF errorHandle, DeadIsReplaced, Healthy

LEMMA ClientStep ==
  ASSUME TypeOK, ClientInv, [Next]_vars
  PROVE  ClientInv'
<1> USE DEF ClientInv
<1>1. CASE \/ UNCHANGED vars \/ update \/ PollReturns
           \/ \E c \in Calls : invoke(c)
  <2>1. UNCHANGED <<service_vars, client_vars, redis_vars>>
    BY <1>1 DEF vars, update, PollReturns, invoke
  <2> QED BY <2>1 DEF service_vars, client_vars, redis_vars, DeadIsReplaced, AnswersAreExpected,
                      WritesQueued, DeliveriesCounted, WireHandled, Healthy
<1>2. CASE \E open \in BOOLEAN : connect(open)
  <2> PICK open \in BOOLEAN : connect(open)
    BY <1>2
  <2>1. DeadIsReplaced'
    BY OpenOrNot DEF connect, NewClient, DeadIsReplaced
  <2> QED BY <2>1 DEF connect, NewClient, AnswersAreExpected, WritesQueued, DeliveriesCounted,
                      WireHandled
<1>3. CASE ExecCommand
  <2>1. DeadIsReplaced' /\ (Healthy' => Healthy)
    <3>1. CASE errorHandle(Append(item_queue, Head(posted)))
      BY <3>1, ErrorHandled
    <3>2. CASE UNCHANGED <<signal, errored, failed>>
      BY <1>3, <3>2 DEF ExecCommand, DeadIsReplaced, Healthy
    <3> QED BY <1>3, <3>1, <3>2 DEF ExecCommand
  <2> QED BY <1>3, <2>1 DEF ExecCommand, redis_vars, AnswersAreExpected, WritesQueued,
                            DeliveriesCounted, WireHandled
<1>4. CASE ExecSubscribe
  <2>1. DeadIsReplaced' /\ (Healthy' => Healthy)
    <3>1. CASE errorHandle(Append(item_queue, Head(posted)))
      BY <3>1, ErrorHandled
    <3>2. CASE UNCHANGED <<signal, errored, failed>>
      BY <1>4, <3>2 DEF ExecSubscribe, DeadIsReplaced, Healthy
    <3> QED BY <1>4, <3>1, <3>2 DEF ExecSubscribe
  <2> QED BY <1>4, <2>1 DEF ExecSubscribe, redis_vars, AnswersAreExpected, WritesQueued,
                            DeliveriesCounted, WireHandled
<1>5. CASE doCommand
  <2>1. queue' # <<>>
    BY <1>5, TailFacts DEF doCommand, TypeOK
  <2> QED BY <1>5, <2>1 DEF doCommand, service_vars, redis_vars, DeadIsReplaced, AnswersAreExpected,
                            WritesQueued, DeliveriesCounted, WireHandled, Healthy
<1>6. CASE asyncWrite
  <2>1. Head(queue) \in Calls
    BY <1>6, TailFacts DEF asyncWrite, WritesQueued, TypeOK
  <2>2. AnswersAreExpected'
    BY <1>6, <2>1 DEF asyncWrite, AnswersAreExpected, TypeOK
  <2>3. WireHandled' /\ WritesQueued'
    BY <1>6 DEF asyncWrite, WireHandled, WritesQueued, Healthy
  <2> QED BY <1>6, <2>2, <2>3 DEF asyncWrite, service_vars, DeadIsReplaced, DeliveriesCounted
<1>7. CASE asyncWriteError \/ asyncReadError
  <2>1. DeadIsReplaced' /\ ~Healthy'
    BY <1>7, ErrorHandled DEF asyncWriteError, asyncReadError
  <2> QED BY <1>7, <2>1 DEF asyncWriteError, asyncReadError, redis_vars, AnswersAreExpected,
                            WritesQueued, DeliveriesCounted, WireHandled
<1>8. CASE doProcessMessage
  <2>1. AnswersAreExpected'
    BY <1>8 DEF doProcessMessage, AnswersAreExpected, TypeOK
  <2>2. WireHandled'
    BY <1>8 DEF doProcessMessage, WireHandled, Healthy
  <2>3. DeadIsReplaced' /\ WritesQueued' /\ DeliveriesCounted'
    BY <1>8 DEF doProcessMessage, DeadIsReplaced, WritesQueued, DeliveriesCounted
  <2> QED BY <2>1, <2>2, <2>3
<1>9. CASE HandlerThrows
  <2>1. AnswersAreExpected'
    BY <1>9 DEF HandlerThrows, AnswersAreExpected, TypeOK
  <2>2. WireHandled' /\ DeadIsReplaced' /\ WritesQueued' /\ DeliveriesCounted'
    BY <1>9 DEF HandlerThrows, WireHandled, Healthy, DeadIsReplaced, WritesQueued, DeliveriesCounted
  <2> QED BY <2>1, <2>2
<1>10. CASE ProtocolError
  <2>1. DeadIsReplaced' /\ ~Healthy'
    BY <1>10, ErrorHandled DEF ProtocolError
  <2>2. AnswersAreExpected'
    BY <1>10 DEF ProtocolError, AnswersAreExpected, TypeOK
  <2>3. WireHandled' /\ WritesQueued' /\ DeliveriesCounted'
    BY <1>10, <2>1 DEF ProtocolError, WireHandled, WritesQueued, DeliveriesCounted
  <2> QED BY <2>1, <2>2, <2>3
<1>11. CASE Message
  BY <1>11 DEF Message, service_vars, client_vars, DeadIsReplaced, AnswersAreExpected,
               WritesQueued, DeliveriesCounted, WireHandled, Healthy, TypeOK
<1>12. CASE MessageCallback
  BY <1>12 DEF MessageCallback, client_vars, DeadIsReplaced, AnswersAreExpected,
               WritesQueued, DeliveriesCounted, WireHandled, Healthy, TypeOK
<1> QED BY <1>1, <1>2, <1>3, <1>4, <1>5, <1>6, <1>7, <1>8, <1>9, <1>10, <1>11, <1>12
        DEF Next, Service, Client

-----------------------------------------------------------------------------
(* What a step does to the calls: one of nine kinds. *)

Stays ==
  /\ Requests' = Requests /\ messages' >= messages
  /\ UNCHANGED <<called, posted, item_queue, answered, failed, stale, errored, reading, state,
                 underflow>>

Called ==
  /\ \E c \in Calls : c \notin called /\ called' = called \cup {c} /\ posted' = Append(posted, c)
  /\ Requests' = Requests
  /\ UNCHANGED <<item_queue, answered, failed, stale, errored, reading, state, messages, underflow>>

Queued ==
  /\ posted # <<>> /\ posted' = Tail(posted)
  /\ item_queue' = Append(item_queue, Head(posted))
  /\ Requests' = Append(Requests, Head(posted))
  /\ state' = "Subscribed" \/ (state' = state /\ Head(posted) \in Commands)
  /\ UNCHANGED <<called, answered, failed, stale, errored, reading, messages, underflow>>

Refused ==
  /\ posted # <<>> /\ posted' = Tail(posted)
  /\ Fail(Append(item_queue, Head(posted))) /\ errored' = TRUE
  /\ Requests' = Requests
  /\ UNCHANGED <<called, answered, stale, state, messages, underflow>>

Failed ==
  /\ Fail(item_queue) /\ errored' = TRUE
  /\ Requests' = Requests
  /\ UNCHANGED <<called, posted, answered, stale, state, messages, underflow>>

Renewed ==
  /\ Fail(item_queue)
  /\ Requests' = <<>>
  /\ UNCHANGED <<called, posted, answered, stale, messages, underflow>>

Answered ==
  /\ reading /\ Requests # <<>> /\ Head(Requests) \in Commands
  /\ ~errored => state = "Connected"
  /\ PopItem
  /\ answered' = [answered EXCEPT ![Head(Requests)] = @ + 1]
  /\ stale' = (stale \/ errored)
  /\ \/ Requests' = Tail(Requests) /\ reading' = TRUE
     \/ Requests' = Requests /\ reading' = FALSE
  /\ UNCHANGED <<called, posted, failed, errored, state, messages>>

Confirmed ==
  /\ Requests # <<>> /\ Head(Requests) \notin Commands
  /\ Requests' = Tail(Requests)
  /\ \/ reading' = reading
     \/ reading' = FALSE
  /\ UNCHANGED <<called, posted, item_queue, answered, failed, stale, errored, state, messages,
                 underflow>>

Taken ==
  /\ messages > 0
  /\ PopItem
  /\ Requests' = Requests
  /\ UNCHANGED <<called, posted, answered, failed, stale, errored, reading, state, messages>>

LEMMA RequestsType == TypeOK => Requests \in Seq(Calls)
BY JoinType DEF TypeOK, Requests

(* A call passes from one queue of the client to the next: the calls of the
   client stay the same, and in order. *)
LEMMA RequestsMove ==
  ASSUME TypeOK
  PROVE  /\ \A x \in Calls : strand' = Append(strand, x) /\ UNCHANGED <<queue, handlers>>
                             => Requests' = Append(Requests, x)
         /\ /\ strand # <<>> /\ strand' = Tail(strand) /\ queue' = Append(queue, Head(strand))
            /\ UNCHANGED handlers
            => Requests' = Requests
         /\ /\ queue # <<>> /\ queue' = Tail(queue) /\ handlers' = Append(handlers, Head(queue))
            /\ UNCHANGED strand
            => Requests' = Requests
         /\ handlers # <<>> /\ handlers' = Tail(handlers) /\ UNCHANGED <<queue, strand>>
            => Requests' = Tail(Requests)
         /\ handlers # <<>> => Requests # <<>> /\ Head(Requests) = Head(handlers)
<1>1. handlers \in Seq(Calls) /\ queue \in Seq(Calls) /\ strand \in Seq(Calls)
  BY DEF TypeOK
<1>2. ASSUME NEW x \in Calls
      PROVE  handlers \o queue \o Append(strand, x) = Append(handlers \o queue \o strand, x)
  BY <1>1
<1>3. ASSUME strand # <<>>
      PROVE  handlers \o Append(queue, Head(strand)) \o Tail(strand) = handlers \o queue \o strand
  <2>1. Head(strand) \in Calls /\ Tail(strand) \in Seq(Calls) /\ handlers \o queue \in Seq(Calls)
    BY <1>1, <1>3
  <2>2. handlers \o Append(queue, Head(strand)) = Append(handlers \o queue, Head(strand))
    BY <1>1, <2>1
  <2>3. \A a \in Seq(Calls) : Append(a, Head(strand)) \o Tail(strand) = a \o strand
    BY <1>1, <1>3
  <2> QED BY <2>1, <2>2, <2>3
<1>4. ASSUME queue # <<>>
      PROVE  Append(handlers, Head(queue)) \o Tail(queue) \o strand = handlers \o queue \o strand
  BY <1>1, <1>4
<1>5. ASSUME handlers # <<>>
      PROVE  /\ Tail(handlers) \o queue \o strand = Tail(handlers \o queue \o strand)
             /\ handlers \o queue \o strand # <<>>
             /\ Head(handlers \o queue \o strand) = Head(handlers)
  <2>1. Tail(handlers) \o queue \o strand = Tail(handlers \o queue \o strand)
    BY <1>1, <1>5
  <2>2. /\ handlers \o queue \o strand # <<>>
        /\ Head(handlers \o queue \o strand) = Head(handlers)
    BY <1>1, <1>5
  <2> QED BY <2>1, <2>2
<1>6. \A x \in Calls : strand' = Append(strand, x) /\ UNCHANGED <<queue, handlers>>
                       => Requests' = Append(Requests, x)
  BY <1>2, Zenon DEF Requests
<1>7. /\ strand # <<>> /\ strand' = Tail(strand) /\ queue' = Append(queue, Head(strand))
      /\ UNCHANGED handlers
      => Requests' = Requests
  BY <1>3, Zenon DEF Requests
<1>8. /\ queue # <<>> /\ queue' = Tail(queue) /\ handlers' = Append(handlers, Head(queue))
      /\ UNCHANGED strand
      => Requests' = Requests
  BY <1>4, Zenon DEF Requests
<1>9. handlers # <<>> /\ handlers' = Tail(handlers) /\ UNCHANGED <<queue, strand>>
      => Requests' = Tail(Requests)
  BY <1>5, Zenon DEF Requests
<1>10. handlers # <<>> => Requests # <<>> /\ Head(Requests) = Head(handlers)
  BY <1>5, Zenon DEF Requests
<1> QED BY <1>6, <1>7, <1>8, <1>9, <1>10

(* The kind of every step. *)
LEMMA KindStep ==
  ASSUME TypeOK, ClientInv, [Next]_vars
  PROVE  \/ Stays \/ Called \/ Queued \/ Refused \/ Failed \/ Renewed
         \/ Answered \/ Confirmed \/ Taken
<1> USE DEF ClientInv
<1>0. ASSUME UNCHANGED <<strand, queue, handlers>> PROVE Requests' = Requests
  BY <1>0 DEF Requests
<1>1. CASE UNCHANGED vars \/ update \/ PollReturns
  <2>1. Requests' = Requests
    BY <1>0, <1>1 DEF vars, update, PollReturns, client_vars
  <2>2. Stays
    BY <1>1, <2>1 DEF vars, update, PollReturns, io_vars, service_vars, client_vars, redis_vars,
                      history_vars, Stays, TypeOK
  <2> QED BY <2>2
<1>2. CASE \E c \in Calls : invoke(c)
  <2>1. Requests' = Requests
    BY <1>0, <1>2 DEF invoke, client_vars
  <2>2. Called
    BY <1>2, <2>1 DEF invoke, service_vars, client_vars, redis_vars, history_vars, Called
  <2> QED BY <2>2
<1>3. CASE \E open \in BOOLEAN : connect(open)
  <2> PICK open \in BOOLEAN : connect(open)
    BY <1>3
  <2>1. Requests' = <<>>
    BY MoveNone DEF connect, NewClient, Requests
  <2>2. Renewed
    BY <2>1 DEF connect, Renewed
  <2> QED BY <2>2
<1>4. CASE ExecCommand
  <2>1. CASE /\ state = "Connected"
             /\ item_queue' = Append(item_queue, Head(posted))
             /\ strand' = Append(strand, Head(posted))
             /\ UNCHANGED <<signal, errored, failed>>
    <3>1. Requests' = Append(Requests, Head(posted))
      <4>1. Head(posted) \in Calls
        BY <1>4, TailFacts DEF ExecCommand, TypeOK
      <4> QED BY <1>4, <2>1, <4>1, RequestsMove DEF ExecCommand
    <3>2. Queued
      BY <1>4, <2>1, <3>1 DEF ExecCommand, redis_vars, Queued
    <3> QED BY <3>2
  <2>2. CASE errorHandle(Append(item_queue, Head(posted))) /\ UNCHANGED strand
    <3>1. Requests' = Requests
      BY <1>0, <1>4, <2>2 DEF ExecCommand
    <3>2. Refused
      BY <1>4, <2>2, <3>1 DEF ExecCommand, errorHandle, redis_vars, Refused
    <3> QED BY <3>2
  <2> QED BY <1>4, <2>1, <2>2 DEF ExecCommand
<1>5. CASE ExecSubscribe
  <2>1. CASE /\ item_queue' = Append(item_queue, Head(posted))
             /\ strand' = Append(strand, Head(posted))
             /\ state' = "Subscribed"
             /\ UNCHANGED <<signal, errored, failed>>
    <3>1. Requests' = Append(Requests, Head(posted))
      <4>1. Head(posted) \in Calls
        BY <1>5, TailFacts DEF ExecSubscribe, TypeOK
      <4> QED BY <1>5, <2>1, <4>1, RequestsMove DEF ExecSubscribe
    <3>2. Queued
      BY <1>5, <2>1, <3>1 DEF ExecSubscribe, redis_vars, Queued
    <3> QED BY <3>2
  <2>2. CASE errorHandle(Append(item_queue, Head(posted))) /\ UNCHANGED <<strand, state>>
    <3>1. Requests' = Requests
      BY <1>0, <1>5, <2>2 DEF ExecSubscribe
    <3>2. Refused
      BY <1>5, <2>2, <3>1 DEF ExecSubscribe, errorHandle, redis_vars, Refused
    <3> QED BY <3>2
  <2> QED BY <1>5, <2>1, <2>2 DEF ExecSubscribe
<1>6. CASE doCommand
  <2>1. Requests' = Requests
    BY <1>6, RequestsMove DEF doCommand
  <2>2. Stays
    BY <1>6, <2>1 DEF doCommand, io_vars, service_vars, redis_vars, history_vars, Stays, TypeOK
  <2> QED BY <2>2
<1>7. CASE asyncWrite
  <2>1. Requests' = Requests
    BY <1>7, RequestsMove DEF asyncWrite, WritesQueued
  <2>2. Stays
    BY <1>7, <2>1 DEF asyncWrite, io_vars, service_vars, history_vars, Stays, TypeOK
  <2> QED BY <2>2
<1>8. CASE asyncWriteError \/ asyncReadError \/ ProtocolError
  <2>1. Requests' = Requests
    BY <1>0, <1>8 DEF asyncWriteError, asyncReadError, ProtocolError
  <2>2. Failed
    BY <1>8, <2>1 DEF asyncWriteError, asyncReadError, ProtocolError, errorHandle, io_vars,
                      redis_vars, Failed
  <2> QED BY <2>2
<1>9. CASE doProcessMessage \/ HandlerThrows
  <2>1. /\ reading /\ handlers # <<>> /\ handler
        /\ wire # <<>> /\ Admits(Head(wire))
    BY <1>9 DEF doProcessMessage, HandlerThrows
  <2>2. Requests # <<>> /\ Head(Requests) = Head(handlers) /\ Head(handlers) \in Calls
    BY <2>1, RequestsMove, TailFacts DEF TypeOK
  <2>3. \/ Requests' = Tail(Requests) /\ reading' = reading
        \/ Requests' = Requests /\ reading' = FALSE /\ Head(Requests) \in Commands
    <3>1. CASE doProcessMessage
      BY <3>1, RequestsMove DEF doProcessMessage
    <3>2. CASE HandlerThrows
      BY <1>0, <2>2, <3>2 DEF HandlerThrows
    <3> QED BY <1>9, <3>1, <3>2
  <2>4. UNCHANGED <<called, posted, failed, errored, state, messages>>
    BY <1>9 DEF doProcessMessage, HandlerThrows, io_vars
  <2>5. CASE Head(handlers) \in Commands
    <3>1. ~errored => state = "Connected"
      <4> SUFFICES ASSUME ~errored PROVE state = "Connected"
        OBVIOUS
      <4>1. wire = handlers
        BY <2>1 DEF WireHandled, Healthy
      <4> QED BY <2>1, <2>5, <4>1, RedisAssumption DEF Admits
    <3>2. Answered
      BY <2>1, <2>2, <2>3, <2>4, <2>5, <3>1 DEF handler, Answered
    <3> QED BY <3>2
  <2>6. CASE Head(handlers) \notin Commands
    <3>1. Confirmed
      BY <2>1, <2>2, <2>3, <2>4, <2>6 DEF handler, Confirmed
    <3> QED BY <3>1
  <2> QED BY <2>5, <2>6
<1>10. CASE Message
  <2>1. Requests' = Requests
    BY <1>0, <1>10 DEF Message, client_vars
  <2>2. Stays
    BY <1>10, <2>1 DEF Message, io_vars, service_vars, client_vars, history_vars, Stays, TypeOK
  <2> QED BY <2>2
<1>11. CASE MessageCallback
  <2>1. Requests' = Requests
    BY <1>0, <1>11 DEF MessageCallback, client_vars
  <2>2. Taken
    BY <1>11, <2>1 DEF MessageCallback, io_vars, client_vars, Taken, DeliveriesCounted, TypeOK
  <2> QED BY <2>2
<1> QED BY <1>1, <1>2, <1>3, <1>4, <1>5, <1>6, <1>7, <1>8, <1>9, <1>10, <1>11
        DEF Next, Service, Client

-----------------------------------------------------------------------------
(* The calls. *)

(* Only a client that is subscribed has subscriptions under way. *)
CommandsOnly ==
  state = "Connected" => \A c : Waits(Requests, c) => c \in Commands

(* The error callbacks are those of the last calls of the client: only a
   message takes away more than the answers do. *)
ItemsAreLast ==
  Healthy /\ state = "Connected" =>
    /\ Suffix(item_queue, Requests)
    /\ messages = 0 => Len(item_queue) = Len(Requests)

Distinct == Injective(posted) /\ Injective(Requests)

Untold(c) == answered[c] = 0 /\ failed[c] = 0

(* What a call that has not been made, is posted, waits for its error
   callback, or is with a healthy client has been told. *)
CallInv(c) ==
  /\ c \notin called =>
       Untold(c) /\ ~Waits(posted, c) /\ ~Waits(Requests, c) /\ ~Waits(item_queue, c)
  /\ Waits(posted, c) => Untold(c) /\ ~Waits(Requests, c) /\ ~Waits(item_queue, c)
  /\ Waits(item_queue, c) => failed[c] = 0 /\ (~stale => answered[c] = 0)
  /\ Waits(Requests, c) /\ Healthy => Untold(c)
  /\ failed[c] <= 1
  /\ ~stale => answered[c] + failed[c] <= 1

QueuesInv == CommandsOnly /\ ItemsAreLast /\ Distinct

IInv ==
  /\ TypeOK /\ ClientInv /\ QueuesInv
  /\ \A c \in Calls : CallInv(c)
  /\ Underflows

LEMMA InitInvariant == Init => IInv
<1> SUFFICES ASSUME Init PROVE IInv
  OBVIOUS
<1>1. TypeOK /\ ClientInv
  BY InitType, InitClient
<1>2. Requests = <<>> /\ item_queue = <<>> /\ posted = <<>> /\ called = {}
  BY MoveNone DEF Init, Requests
<1>3. QueuesInv
  <2>1. CommandsOnly /\ Distinct
    BY <1>2, EmptyFacts DEF CommandsOnly, Distinct
  <2>2. ItemsAreLast
    BY <1>2 DEF ItemsAreLast, Suffix
  <2> QED BY <2>1, <2>2 DEF QueuesInv
<1>4. ASSUME NEW c \in Calls PROVE CallInv(c)
  <2>1. answered[c] = 0 /\ failed[c] = 0
    BY DEF Init
  <2> QED BY <1>2, <2>1, EmptyFacts DEF CallInv, Untold
<1>5. Underflows
  BY DEF Init, Underflows
<1> QED BY <1>1, <1>3, <1>4, <1>5 DEF IInv

(* Taking an error callback adds none. *)
LEMMA PopFacts ==
  ASSUME TypeOK, PopItem
  PROVE  /\ \A c : Waits(item_queue', c) => Waits(item_queue, c)
         /\ item_queue = <<>> => item_queue' = <<>> /\ underflow' = TRUE
         /\ item_queue # <<>> => item_queue' = Tail(item_queue) /\ underflow' = underflow
<1>1. /\ item_queue = <<>> => item_queue' = <<>> /\ underflow' = TRUE
      /\ item_queue # <<>> => item_queue' = Tail(item_queue) /\ underflow' = underflow
  BY DEF PopItem
<1>2. ASSUME NEW c, Waits(item_queue', c) PROVE Waits(item_queue, c)
  <2>1. CASE item_queue = <<>>
    BY <1>1, <1>2, <2>1
  <2>2. CASE item_queue # <<>>
    BY <1>1, <1>2, <2>2, TailFacts DEF TypeOK
  <2> QED BY <2>1, <2>2
<1> QED BY <1>1, <1>2

LEMMA FailFacts ==
  ASSUME TypeOK, NEW items \in Seq(Calls), Fail(items)
  PROVE  /\ item_queue' = <<>> /\ \A c : ~Waits(item_queue', c)
         /\ \A c \in Calls : failed'[c] = IF Waits(items, c) THEN failed[c] + 1 ELSE failed[c]
BY EmptyFacts DEF Fail

(* When an answer is given by a client that has reported no error, the error
   callback it takes, if any, is its own. *)
LEMMA AnswerTakesOwn ==
  ASSUME TypeOK, QueuesInv, Answered, ~errored
  PROVE  /\ ~Waits(item_queue', Head(Requests))
         /\ Suffix(item_queue', Tail(Requests))
         /\ messages = 0 => item_queue # <<>> /\ Len(item_queue') = Len(Tail(Requests))
<1>1. /\ Requests \in Seq(Calls) /\ Requests # <<>> /\ item_queue \in Seq(Calls)
      /\ Suffix(item_queue, Requests) /\ Injective(Requests)
      /\ messages = 0 => Len(item_queue) = Len(Requests)
  BY RequestsType DEF Answered, QueuesInv, ItemsAreLast, Distinct, Healthy, TypeOK
<1>2. Len(Requests) \in Nat /\ Len(Requests) > 0 /\ Len(Tail(Requests)) = Len(Requests) - 1
  BY <1>1
<1>3. CASE item_queue = <<>>
  <2>1. item_queue' = <<>>
    BY <1>3, PopFacts DEF Answered
  <2>2. Suffix(<<>>, Tail(Requests))
    BY <1>2 DEF Suffix
  <2>3. messages # 0
    BY <1>1, <1>2, <1>3
  <2> QED BY <2>1, <2>2, <2>3, EmptyFacts
<1>4. CASE item_queue # <<>>
  <2>1. item_queue' = Tail(item_queue)
    BY <1>4, PopFacts DEF Answered
  <2>2. Suffix(Tail(item_queue), Tail(Requests)) /\ ~Waits(Tail(item_queue), Head(Requests))
    BY <1>1, <1>4, SuffixFacts
  <2>3. Len(Tail(item_queue)) = Len(item_queue) - 1
    BY <1>1, <1>4
  <2> QED BY <1>1, <1>2, <1>4, <2>1, <2>2, <2>3
<1> QED BY <1>3, <1>4

LEMMA QueuesStep ==
  ASSUME IInv, TypeOK', [Next]_vars
  PROVE  QueuesInv'
<1>0. /\ TypeOK /\ ClientInv /\ QueuesInv /\ \A c \in Calls : CallInv(c)
      /\ CommandsOnly /\ ItemsAreLast /\ Injective(posted) /\ Injective(Requests)
      /\ Requests \in Seq(Calls) /\ item_queue \in Seq(Calls) /\ posted \in Seq(Calls)
      /\ messages \in Nat /\ messages' \in Nat
  BY RequestsType DEF IInv, QueuesInv, Distinct, TypeOK
<1>1. ASSUME Injective(posted'), Injective(Requests'), CommandsOnly', ItemsAreLast'
      PROVE  QueuesInv'
  BY <1>1 DEF QueuesInv, Distinct
<1>2. CASE Stays
  <2>1. CommandsOnly' /\ Injective(posted') /\ Injective(Requests')
    BY <1>0, <1>2 DEF Stays, CommandsOnly
  <2>2. messages' = 0 => messages = 0
    BY <1>0, <1>2 DEF Stays
  <2>3. ItemsAreLast'
    BY <1>0, <1>2, <2>2 DEF Stays, ItemsAreLast, Healthy
  <2> QED BY <1>1, <2>1, <2>3
<1>3. CASE Called
  <2> PICK c \in Calls : c \notin called /\ posted' = Append(posted, c)
    BY <1>3 DEF Called
  <2>1. Injective(posted')
    <3>1. ~Waits(posted, c)
      BY <1>0 DEF CallInv
    <3> QED BY <1>0, <3>1, AppendFacts
  <2>2. CommandsOnly' /\ ItemsAreLast' /\ Injective(Requests')
    BY <1>0, <1>3 DEF Called, CommandsOnly, ItemsAreLast, Healthy
  <2> QED BY <1>1, <2>1, <2>2
<1>4. CASE Queued
  <2>1. /\ Head(posted) \in Calls /\ posted' = Tail(posted) /\ Injective(Tail(posted))
        /\ Waits(posted, Head(posted))
        /\ Requests' = Append(Requests, Head(posted))
        /\ item_queue' = Append(item_queue, Head(posted))
    BY <1>0, <1>4, TailFacts DEF Queued
  <2>2. ~Waits(Requests, Head(posted))
    BY <1>0, <2>1 DEF CallInv
  <2>3. /\ Injective(Requests')
        /\ \A c : Waits(Requests', c) => Waits(Requests, c) \/ c = Head(posted)
    BY <1>0, <2>1, <2>2, AppendFacts
  <2>4. CommandsOnly'
    <3> SUFFICES ASSUME state' = "Connected", NEW c, Waits(Requests', c) PROVE c \in Commands
      BY DEF CommandsOnly
    <3>1. state = "Connected" /\ Head(posted) \in Commands
      BY <1>4 DEF Queued
    <3> QED BY <1>0, <2>3, <3>1 DEF CommandsOnly
  <2>5. ItemsAreLast'
    <3> SUFFICES ASSUME Healthy', state' = "Connected"
                 PROVE  /\ Suffix(item_queue', Requests')
                        /\ messages' = 0 => Len(item_queue') = Len(Requests')
      BY DEF ItemsAreLast
    <3>1. Healthy /\ state = "Connected" /\ messages' = messages
      BY <1>4 DEF Queued, Healthy
    <3>2. Suffix(item_queue, Requests) /\ (messages = 0 => Len(item_queue) = Len(Requests))
      BY <1>0, <3>1 DEF ItemsAreLast
    <3>3. Suffix(item_queue', Requests')
      BY <1>0, <2>1, <3>2, SuffixFacts
    <3>4. Len(item_queue') = Len(item_queue) + 1 /\ Len(Requests') = Len(Requests) + 1
      BY <1>0, <2>1
    <3> QED BY <3>1, <3>2, <3>3, <3>4
  <2> QED BY <1>1, <2>1, <2>3, <2>4, <2>5
<1>5. CASE Refused
  <2>1. Injective(posted')
    BY <1>0, <1>5, TailFacts DEF Refused
  <2>2. CommandsOnly' /\ ItemsAreLast' /\ Injective(Requests')
    BY <1>0, <1>5 DEF Refused, CommandsOnly, ItemsAreLast, Healthy
  <2> QED BY <1>1, <2>1, <2>2
<1>6. CASE Failed
  <2>1. CommandsOnly' /\ ItemsAreLast' /\ Injective(Requests') /\ Injective(posted')
    BY <1>0, <1>6 DEF Failed, CommandsOnly, ItemsAreLast, Healthy
  <2> QED BY <1>1, <2>1
<1>7. CASE Renewed
  <2>1. item_queue' = <<>> /\ Requests' = <<>> /\ posted' = posted
    BY <1>7, FailFacts, <1>0 DEF Renewed
  <2>2. CommandsOnly' /\ Injective(Requests') /\ Injective(posted')
    BY <1>0, <2>1, EmptyFacts DEF CommandsOnly
  <2>3. ItemsAreLast'
    BY <2>1 DEF ItemsAreLast, Suffix
  <2> QED BY <1>1, <2>2, <2>3
<1>8. CASE Answered
  <2>1. /\ Requests # <<>> /\ posted' = posted /\ state' = state /\ errored' = errored
        /\ messages' = messages
        /\ \/ Requests' = Tail(Requests)
           \/ Requests' = Requests /\ reading' = FALSE
    BY <1>8, Zenon DEF Answered
  <2>2. /\ Injective(Tail(Requests))
        /\ \A c : Waits(Tail(Requests), c) => Waits(Requests, c)
    BY <1>0, <2>1, TailFacts
  <2>3. Injective(posted') /\ Injective(Requests') /\ CommandsOnly'
    BY <1>0, <2>1, <2>2 DEF CommandsOnly
  <2>4. ItemsAreLast'
    <3> SUFFICES ASSUME Healthy', state' = "Connected"
                 PROVE  /\ Suffix(item_queue', Requests')
                        /\ messages' = 0 => Len(item_queue') = Len(Requests')
      BY DEF ItemsAreLast
    <3>1. ~errored /\ Requests' = Tail(Requests)
      BY <2>1 DEF Healthy
    <3> QED BY <1>0, <1>8, <2>1, <3>1, AnswerTakesOwn
  <2> QED BY <1>1, <2>3, <2>4
<1>9. CASE Confirmed
  <2>1. /\ Injective(Tail(Requests)) /\ Waits(Requests, Head(Requests))
        /\ \A c : Waits(Tail(Requests), c) => Waits(Requests, c)
    BY <1>0, <1>9, TailFacts DEF Confirmed
  <2>2. state # "Connected"
    BY <1>0, <1>9, <2>1 DEF Confirmed, CommandsOnly
  <2>3. CommandsOnly' /\ ItemsAreLast' /\ Injective(posted') /\ Injective(Requests')
    BY <1>0, <1>9, <2>1, <2>2 DEF Confirmed, CommandsOnly, ItemsAreLast
  <2> QED BY <1>1, <2>3
<1>10. CASE Taken
  <2>1. CommandsOnly' /\ Injective(posted') /\ Injective(Requests')
    BY <1>0, <1>10 DEF Taken, CommandsOnly
  <2>2. ItemsAreLast'
    <3> SUFFICES ASSUME Healthy', state' = "Connected"
                 PROVE  Suffix(item_queue', Requests') /\ messages' # 0
      BY DEF ItemsAreLast
    <3>1. Healthy /\ state = "Connected" /\ messages' = messages /\ messages > 0
          /\ Requests' = Requests /\ PopItem
      BY <1>10 DEF Taken, Healthy
    <3>2. Suffix(item_queue, Requests)
      BY <1>0, <3>1 DEF ItemsAreLast
    <3>3. Suffix(item_queue', Requests)
      <4>1. CASE item_queue = <<>>
        BY <3>1, <3>2, <4>1, PopFacts, <1>0
      <4>2. CASE item_queue # <<>>
        <5>1. item_queue' = Tail(item_queue)
          BY <1>0, <3>1, <4>2, PopFacts
        <5>2. Suffix(Tail(item_queue), Requests)
          BY <1>0, <3>2, <4>2, SuffixFacts
        <5> QED BY <5>1, <5>2
      <4> QED BY <4>1, <4>2
    <3> QED BY <1>0, <3>1, <3>3
  <2> QED BY <1>1, <2>1, <2>2
<1> QED BY <1>0, <1>2, <1>3, <1>4, <1>5, <1>6, <1>7, <1>8, <1>9, <1>10, KindStep

LEMMA CallStep ==
  ASSUME IInv, [Next]_vars, NEW c \in Calls
  PROVE  CallInv(c)'
<1>0. /\ TypeOK /\ ClientInv /\ QueuesInv /\ \A d \in Calls : CallInv(d)
      /\ CallInv(c) /\ Injective(posted) /\ Injective(Requests)
      /\ Requests \in Seq(Calls) /\ item_queue \in Seq(Calls) /\ posted \in Seq(Calls)
      /\ answered[c] \in Nat /\ failed[c] \in Nat
  BY RequestsType DEF IInv, QueuesInv, Distinct, TypeOK
<1>1. CASE Stays
  BY <1>0, <1>1 DEF Stays, CallInv, Untold, Healthy
<1>2. CASE Called
  <2> PICK d \in Calls : d \notin called /\ called' = called \cup {d} /\ posted' = Append(posted, d)
    BY <1>2 DEF Called
  <2>1. Waits(posted', c) <=> Waits(posted, c) \/ c = d
    BY <1>0, AppendFacts
  <2>2. CASE c = d
    BY <1>0, <1>2, <2>2 DEF Called, CallInv, Untold, Healthy
  <2>3. CASE c # d
    BY <1>0, <1>2, <2>1, <2>3 DEF Called, CallInv, Untold, Healthy
  <2> QED BY <2>2, <2>3
<1>3. CASE Queued
  <2>1. /\ Head(posted) \in Calls
        /\ Waits(posted, c) <=> Waits(posted', c) \/ c = Head(posted)
        /\ ~Waits(posted', Head(posted))
    BY <1>0, <1>3, TailFacts DEF Queued
  <2>2. /\ Waits(Requests', c) <=> Waits(Requests, c) \/ c = Head(posted)
        /\ Waits(item_queue', c) <=> Waits(item_queue, c) \/ c = Head(posted)
    BY <1>0, <1>3, <2>1, AppendFacts DEF Queued
  <2> QED BY <1>0, <1>3, <2>1, <2>2 DEF Queued, CallInv, Untold, Healthy
<1>4. CASE Refused
  <2>1. /\ Head(posted) \in Calls
        /\ Waits(posted, c) <=> Waits(posted', c) \/ c = Head(posted)
        /\ ~Waits(posted', Head(posted))
    BY <1>0, <1>4, TailFacts DEF Refused
  <2>2. /\ Append(item_queue, Head(posted)) \in Seq(Calls)
        /\ Waits(Append(item_queue, Head(posted)), c) <=> Waits(item_queue, c) \/ c = Head(posted)
    BY <1>0, <2>1, AppendFacts
  <2>3. /\ ~Waits(item_queue', c)
        /\ failed'[c] = IF Waits(item_queue, c) \/ c = Head(posted) THEN failed[c] + 1 ELSE failed[c]
    BY <1>0, <1>4, <2>2, FailFacts DEF Refused
  <2>4. ~Healthy' /\ answered'[c] = answered[c] /\ stale' = stale /\ called' = called
        /\ Requests' = Requests
    BY <1>4 DEF Refused, Healthy
  <2>5. CASE Waits(item_queue, c) \/ c = Head(posted)
    BY <1>0, <2>1, <2>3, <2>4, <2>5 DEF CallInv, Untold
  <2>6. CASE ~(Waits(item_queue, c) \/ c = Head(posted))
    BY <1>0, <2>1, <2>3, <2>4, <2>6 DEF CallInv, Untold
  <2> QED BY <2>5, <2>6
<1>5. CASE Failed \/ Renewed
  <2>1. /\ ~Waits(item_queue', c)
        /\ failed'[c] = IF Waits(item_queue, c) THEN failed[c] + 1 ELSE failed[c]
    BY <1>0, <1>5, FailFacts DEF Failed, Renewed
  <2>2. /\ posted' = posted /\ answered' = answered /\ stale' = stale /\ called' = called
        /\ Waits(Requests', c) => Waits(Requests, c) /\ ~Healthy'
    BY <1>5, EmptyFacts DEF Failed, Renewed, Healthy
  <2>3. CASE Waits(item_queue, c)
    BY <1>0, <2>1, <2>2, <2>3 DEF CallInv, Untold
  <2>4. CASE ~Waits(item_queue, c)
    BY <1>0, <2>1, <2>2, <2>4 DEF CallInv, Untold
  <2> QED BY <2>3, <2>4
<1>6. CASE Answered
  <2>1. /\ Requests # <<>> /\ reading /\ PopItem
        /\ answered' = [answered EXCEPT ![Head(Requests)] = @ + 1]
        /\ stale' = (stale \/ errored)
        /\ UNCHANGED <<called, posted, failed, errored>>
    BY <1>6 DEF Answered
  <2>2. /\ Waits(Requests, Head(Requests)) /\ Head(Requests) \in Calls
        /\ ~Waits(Tail(Requests), Head(Requests))
        /\ Waits(Tail(Requests), c) => Waits(Requests, c)
    BY <1>0, <2>1, TailFacts
  <2>3. /\ Waits(Requests', c) => Waits(Requests, c)
        /\ Healthy' => ~errored /\ ~Waits(Requests', Head(Requests))
    BY <1>6, <2>2 DEF Answered, Healthy
  <2>4. Waits(item_queue', c) => Waits(item_queue, c)
    BY <1>0, <2>1, PopFacts
  <2>5. CASE c # Head(Requests)
    <3>1. answered'[c] = answered[c]
      BY <1>0, <2>1, <2>5 DEF TypeOK
    <3>2. Healthy' => Healthy
      BY <2>1, <2>3 DEF Healthy
    <3> QED BY <1>0, <2>1, <2>3, <2>4, <3>1, <3>2 DEF CallInv, Untold
  <2>6. CASE c = Head(Requests)
    <3>1. answered'[c] = answered[c] + 1 /\ c \in called /\ ~Waits(posted, c)
      BY <1>0, <2>1, <2>2, <2>6 DEF TypeOK, CallInv
    <3>2. ASSUME ~errored PROVE Untold(c) /\ ~Waits(item_queue', c)
      BY <1>0, <1>6, <2>1, <2>2, <2>6, <3>2, AnswerTakesOwn DEF CallInv, Healthy
    <3>3. CASE ~errored
      BY <1>0, <2>1, <2>3, <2>6, <3>1, <3>2, <3>3 DEF CallInv, Untold
    <3>4. CASE errored
      BY <1>0, <2>1, <2>3, <2>4, <2>6, <3>1, <3>4 DEF CallInv, Untold
    <3> QED BY <3>3, <3>4
  <2> QED BY <2>5, <2>6
<1>7. CASE Confirmed
  <2>1. Waits(Requests', c) => Waits(Requests, c)
    BY <1>0, <1>7, TailFacts DEF Confirmed
  <2> QED BY <1>0, <1>7, <2>1 DEF Confirmed, CallInv, Untold, Healthy
<1>8. CASE Taken
  <2>1. Waits(item_queue', c) => Waits(item_queue, c)
    BY <1>0, <1>8, PopFacts DEF Taken
  <2> QED BY <1>0, <1>8, <2>1 DEF Taken, CallInv, Untold, Healthy
<1> QED BY <1>0, <1>1, <1>2, <1>3, <1>4, <1>5, <1>6, <1>7, <1>8, KindStep

LEMMA UnderflowStep ==
  ASSUME IInv, TypeOK', [Next]_vars
  PROVE  Underflows'
<1>0. /\ TypeOK /\ ClientInv /\ QueuesInv /\ Underflows
      /\ messages \in Nat /\ messages' \in Nat
  BY DEF IInv, TypeOK
<1>1. CASE Stays
  <2>1. messages > 0 => messages' > 0
    BY <1>0, <1>1 DEF Stays
  <2> QED BY <1>0, <1>1, <2>1, Zenon DEF Stays, Underflows
<1>2. CASE Called \/ Queued \/ Refused \/ Failed \/ Renewed \/ Confirmed
  BY <1>0, <1>2 DEF Called, Queued, Refused, Failed, Renewed, Confirmed, Underflows
<1>3. CASE Answered
  <2>1. messages' = messages /\ stale' = (stale \/ errored) /\ PopItem
    BY <1>3 DEF Answered
  <2>2. CASE errored
    BY <2>1, <2>2 DEF Underflows
  <2>3. CASE ~errored
    <3>1. messages = 0 => item_queue # <<>>
      BY <1>0, <1>3, <2>3, AnswerTakesOwn
    <3>2. CASE messages = 0
      <4>1. underflow' = underflow
        BY <1>0, <2>1, <3>1, <3>2, PopFacts
      <4> QED BY <1>0, <2>1, <4>1 DEF Underflows
    <3>3. CASE messages # 0
      BY <1>0, <2>1, <3>3 DEF Underflows
    <3> QED BY <3>2, <3>3
  <2> QED BY <2>2, <2>3
<1>4. CASE Taken
  BY <1>0, <1>4 DEF Taken, Underflows
<1> QED BY <1>0, <1>1, <1>2, <1>3, <1>4, KindStep

-----------------------------------------------------------------------------
(* THEOREMS *)

(* IInv always holds. *)
THEOREM RedisInvariance == Spec => []IInv
<1>1. IInv /\ [Next]_vars => IInv'
  <2> SUFFICES ASSUME IInv, [Next]_vars PROVE IInv'
    OBVIOUS
  <2>1. TypeOK /\ ClientInv
    BY DEF IInv
  <2>2. TypeOK'
    BY <2>1, TypeStep DEF ClientInv, WritesQueued
  <2>3. ClientInv'
    BY <2>1, ClientStep
  <2>4. QueuesInv' /\ Underflows'
    BY <2>2, QueuesStep, UnderflowStep
  <2>5. \A c \in Calls : CallInv(c)'
    BY CallStep
  <2> QED BY <2>2, <2>3, <2>4, <2>5 DEF IInv
<1> QED BY <1>1, InitInvariant, PTL DEF Spec

(* Every variable always has its type. *)
THEOREM RedisTypeCorrect == Spec => []TypeOK
<1>1. IInv => TypeOK
  BY DEF IInv
<1> QED BY <1>1, RedisInvariance, PTL

(* The error callbacks and the calls of a healthy client are the same, in the
   same order. *)
THEOREM ItemsAreRequests == Spec => []ItemsFollowRequests
<1>1. IInv => ItemsFollowRequests
  <2> SUFFICES ASSUME IInv, ~errored, reading, state = "Connected", messages = 0
               PROVE  item_queue = Requests
    BY DEF ItemsFollowRequests
  <2>1. /\ Requests \in Seq(Calls) /\ item_queue \in Seq(Calls)
        /\ Suffix(item_queue, Requests) /\ Len(item_queue) = Len(Requests)
    BY RequestsType DEF IInv, QueuesInv, ItemsAreLast, Healthy, TypeOK
  <2> QED BY <2>1, SuffixFacts
<1> QED BY <1>1, RedisInvariance, PTL

(* A call is told one thing, unless an answer came after an error. *)
THEOREM OneOutcomeHolds == Spec => []OneOutcome
<1>1. IInv => OneOutcome
  BY DEF IInv, CallInv, OneOutcome
<1> QED BY <1>1, RedisInvariance, PTL

(* No error callback runs twice. *)
THEOREM ErrorsOnce == Spec => []FailedOnce
<1>1. IInv => FailedOnce
  BY DEF IInv, CallInv, FailedOnce
<1> QED BY <1>1, RedisInvariance, PTL

(* The queue of error callbacks is found empty only after an error or a
   message. *)
THEOREM UnderflowNeedsCause == Spec => []Underflows
<1>1. IInv => Underflows
  BY DEF IInv
<1> QED BY <1>1, RedisInvariance, PTL

(* A dead client is always to be replaced. *)
THEOREM DeadClientsAreReplaced == Spec => []DeadIsReplaced
<1>1. IInv => DeadIsReplaced
  BY DEF IInv, ClientInv
<1> QED BY <1>1, RedisInvariance, PTL

(* Every answer finds a handler. *)
THEOREM NoUnexpectedMessage == Spec => []AnswersAreExpected
<1>1. IInv => AnswersAreExpected
  BY DEF IInv, ClientInv
<1> QED BY <1>1, RedisInvariance, PTL

(* An answer goes to the command it was sent for, unless after an error. *)
THEOREM AnswersAreMatched == Spec => AnswersMatch
<1> DEFINE Match == \A c \in Calls :
                      answered'[c] # answered[c] /\ ~stale' => wire # <<>> /\ Head(wire) = c
<1>1. IInv /\ [Next]_vars => [Match]_vars
  <2> SUFFICES ASSUME IInv, [Next]_vars, NEW c \in Calls, answered'[c] # answered[c], ~stale'
               PROVE  wire # <<>> /\ Head(wire) = c
    OBVIOUS
  <2>1. answered' # answered
    OBVIOUS
  <2>2. doProcessMessage \/ HandlerThrows
    BY <2>1 DEF Next, Service, Client, vars, history_vars, invoke, update, connect, PollReturns,
                ExecCommand, ExecSubscribe, doCommand, asyncWrite, asyncWriteError,
                asyncReadError, ProtocolError, Message, MessageCallback
  <2>3. reading /\ wire # <<>> /\ handler
    BY <2>2 DEF doProcessMessage, HandlerThrows
  <2>4. /\ answered' = [answered EXCEPT ![Head(handlers)] = @ + 1]
        /\ stale' = (stale \/ errored)
    BY <2>1, <2>3 DEF handler
  <2>5. c = Head(handlers)
    BY <2>4 DEF IInv, TypeOK
  <2>6. wire = handlers
    BY <2>3, <2>4 DEF IInv, ClientInv, WireHandled, Healthy
  <2> QED BY <2>3, <2>5, <2>6
<1> QED BY <1>1, RedisInvariance, PTL DEF Spec, AnswersMatch

=============================================================================
