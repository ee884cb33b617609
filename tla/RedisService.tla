---------------------------- MODULE RedisService ----------------------------
(***************************************************************************)
(* The commands of this server to Redis: RedisService, with a queue of the *)
(* error callbacks of the commands without an answer, and the client       *)
(* library under it (RedisClient, RedisClientImpl), with its own queue of  *)
(* the handlers of the answers.  The two queues are told apart nowhere: an *)
(* answer is given to the first handler of the one and takes the first     *)
(* error callback of the other.  This is right while both hold the same    *)
(* commands in the same order; the module is about when they do.           *)
(*                                                                         *)
(* Any thread may call the service, which only posts a function to its     *)
(* io_service.  Everything else runs on the scheduler's thread: update     *)
(* looks at the connection and then polls the io_service until nothing is  *)
(* ready or an exception comes out of a callback.                          *)
(*                                                                         *)
(* Left out: what is asked and answered (the bytes, the parser, which      *)
(* accepts what Redis sends) and the member `connected`, which is written  *)
(* and never read.  A callback makes no call of the service; none of this  *)
(* repository does.  A callback of an answer may throw, a callback of an   *)
(* error or of a message does not.                                         *)
(***************************************************************************)
EXTENDS Integers, Sequences

CONSTANTS
  Commands,       \* calls of get, set, del, exist, command and publish
  Subscriptions,  \* calls of subscribe, each of a channel of its own
  MaxMessages     \* bound: messages published on the channels

Calls == Commands \cup Subscriptions

ASSUME RedisAssumption ==
  /\ Commands \cap Subscriptions = {}
  /\ MaxMessages \in Nat

VARIABLES
  called,      \* the calls made
  posted,      \* functions posted to the io_service by invoke
  polling,     \* update is in ios.poll()
  item_queue,  \* the calls whose error callback waits
  signal,      \* NO_SIGNAL or SIG_CONNECTION
  \* the client `cli`:
  state,       \* NotConnected, Connected or Subscribed
  strand,      \* commands posted to the strand
  queue,       \* commands to be written, the first of them now
  writing,     \* whether a write is outstanding
  handlers,    \* handlers of written commands, for the answers
  reading,     \* whether a read is outstanding
  errored,     \* whether the client has called its error handler
  \* the other end:
  wire,        \* commands written, for which no answer has been read
  confirmed,   \* subscriptions confirmed to this client
  deliveries,  \* callbacks of messages posted to a strand
  messages,    \* number of messages published
  \* history:
  answered, failed,   \* how often a call's callback, its error callback ran
  stale,       \* an answer has been given after an error had been reported
  underflow    \* item_queue.pop() has been called on an empty queue

service_vars == <<item_queue, signal>>
io_vars      == <<called, posted, polling>>
client_vars  == <<state, strand, queue, writing, handlers, reading, errored>>
redis_vars   == <<wire, confirmed, deliveries, messages>>
history_vars == <<answered, failed, stale, underflow>>
vars == <<service_vars, io_vars, client_vars, redis_vars, history_vars>>

(* Every variable has its type. *)
TypeOK ==
  /\ called \subseteq Calls
  /\ posted \in Seq(Calls)
  /\ polling \in BOOLEAN
  /\ item_queue \in Seq(Calls)
  /\ signal \in {"NO_SIGNAL", "SIG_CONNECTION"}
  /\ state \in {"NotConnected", "Connected", "Subscribed"}
  /\ strand \in Seq(Calls)
  /\ queue \in Seq(Calls)
  /\ handlers \in Seq(Calls)
  /\ wire \in Seq(Calls)
  /\ writing \in BOOLEAN /\ reading \in BOOLEAN /\ errored \in BOOLEAN
  /\ stale \in BOOLEAN /\ underflow \in BOOLEAN
  /\ confirmed \subseteq Subscriptions
  /\ deliveries \in Nat
  /\ messages \in Nat
  /\ answered \in [Calls -> Nat]
  /\ failed \in [Calls -> Nat]

-----------------------------------------------------------------------------
Waits(items, c) == \E i \in DOMAIN items : items[i] = c

(* Every call that waits gets its error callback, and the service is to
   connect again. *)
Fail(items) ==
  /\ failed' = [c \in Calls |-> IF Waits(items, c) THEN failed[c] + 1 ELSE failed[c]]
  /\ item_queue' = <<>>

\* Mutant: the service is not told to connect again.
errorHandle_NoSignal(items) ==
  /\ Fail(items)
  /\ errored' = TRUE
  /\ UNCHANGED signal

errorHandle(items) ==
  /\ Fail(items)
  /\ signal' = "SIG_CONNECTION"
  /\ errored' = TRUE

\* Mutant: a stack for the queue.
PopItem_Last ==
  IF item_queue = <<>>
  THEN underflow' = TRUE /\ UNCHANGED item_queue
  ELSE item_queue' = SubSeq(item_queue, 1, Len(item_queue) - 1) /\ UNCHANGED underflow

\* Mutant: the answer leaves the error callback in the queue.
PopItem_None == UNCHANGED <<item_queue, underflow>>

(* item_queue.pop().  On an empty queue it is undefined: the model stops. *)
PopItem ==
  IF item_queue = <<>>
  THEN underflow' = TRUE /\ UNCHANGED item_queue
  ELSE item_queue' = Tail(item_queue) /\ UNCHANGED underflow

StateOf(open)  == IF open THEN "Connected" ELSE "NotConnected"
SignalOf(open) == IF open THEN "NO_SIGNAL" ELSE "SIG_CONNECTION"

(* The server has connected once before the scheduler starts. *)
Init ==
  /\ \E open \in BOOLEAN :
       state = StateOf(open) /\ signal = SignalOf(open) /\ reading = open
  /\ strand = <<>> /\ queue = <<>> /\ handlers = <<>> /\ wire = <<>>
  /\ writing = FALSE /\ errored = FALSE
  /\ confirmed = {}
  /\ called = {} /\ posted = <<>> /\ polling = FALSE
  /\ item_queue = <<>>
  /\ deliveries = 0 /\ messages = 0
  /\ answered = [c \in Calls |-> 0] /\ failed = [c \in Calls |-> 0]
  /\ stale = FALSE /\ underflow = FALSE

(* A client of its own, for a connection that is open or could not be opened. *)
NewClient(open) ==
  /\ state' = StateOf(open) /\ signal' = SignalOf(open) /\ reading' = open
  /\ strand' = <<>> /\ queue' = <<>> /\ handlers' = <<>> /\ wire' = <<>>
  /\ writing' = FALSE /\ errored' = FALSE
  /\ confirmed' = {}

-----------------------------------------------------------------------------
(* The service. *)

invoke(c) ==
  /\ c \notin called
  /\ called' = called \cup {c}
  /\ posted' = Append(posted, c)
  /\ UNCHANGED <<polling, service_vars, client_vars, redis_vars, history_vars>>

(* A turn of the scheduler in which the connection is not looked at, or is
   found to be in order. *)
update ==
  /\ ~polling
  /\ polling' = TRUE
  /\ UNCHANGED <<called, posted, service_vars, client_vars, redis_vars, history_vars>>

\* Mutant: the calls of the old client are not failed.
connect_Kept(open) ==
  /\ ~polling
  /\ signal = "SIG_CONNECTION"
  /\ polling' = TRUE
  /\ NewClient(open)
  /\ UNCHANGED <<called, posted, item_queue, deliveries, messages, history_vars>>

(* A turn in which watchConnection connects again.  The old client goes with
   its queues, the calls that wait have failed; what its strand still has is
   written to a closed socket in vain. *)
connect(open) ==
  /\ ~polling
  /\ signal = "SIG_CONNECTION"
  /\ polling' = TRUE
  /\ Fail(item_queue)
  /\ NewClient(open)
  /\ UNCHANGED <<called, posted, deliveries, messages, answered, stale, underflow>>

(* Nothing is ready. *)
PollReturns ==
  /\ polling
  /\ posted = <<>> /\ strand = <<>> /\ deliveries = 0
  /\ polling' = FALSE
  /\ UNCHANGED <<called, posted, service_vars, client_vars, redis_vars, history_vars>>

(* The function of get, set, del, exist, command or publish runs: the client
   refuses a command unless it is connected, and not subscribed. *)
ExecCommand ==
  /\ polling
  /\ posted # <<>> /\ Head(posted) \in Commands
  /\ posted' = Tail(posted)
  /\ LET items == Append(item_queue, Head(posted))
     IN \/ /\ state = "Connected"
           /\ item_queue' = items
           /\ strand' = Append(strand, Head(posted))
           /\ UNCHANGED <<signal, errored, failed>>
        \/ /\ state # "Connected"
           /\ errorHandle(items)
           /\ UNCHANGED strand
  /\ UNCHANGED <<called, polling, state, queue, writing, handlers, reading, redis_vars,
                 answered, stale, underflow>>

(* The function of subscribe. *)
ExecSubscribe ==
  /\ polling
  /\ posted # <<>> /\ Head(posted) \in Subscriptions
  /\ posted' = Tail(posted)
  /\ LET items == Append(item_queue, Head(posted))
     IN \/ /\ state # "NotConnected"
           /\ item_queue' = items
           /\ strand' = Append(strand, Head(posted))
           /\ state' = "Subscribed"
           /\ UNCHANGED <<signal, errored, failed>>
        \/ /\ state = "NotConnected"
           /\ errorHandle(items)
           /\ UNCHANGED <<strand, state>>
  /\ UNCHANGED <<called, polling, queue, writing, handlers, reading, redis_vars,
                 answered, stale, underflow>>

-----------------------------------------------------------------------------
(* The client. *)

doCommand ==
  /\ polling
  /\ strand # <<>>
  /\ strand' = Tail(strand)
  /\ queue' = Append(queue, Head(strand))
  /\ writing' = (writing \/ queue = <<>>)
  /\ UNCHANGED <<io_vars, service_vars, state, handlers, reading, errored, redis_vars,
                 history_vars>>

\* Mutant: a stack for the handlers.
asyncWrite_Stack ==
  /\ polling
  /\ writing
  /\ handlers' = <<Head(queue)>> \o handlers
  /\ wire' = Append(wire, Head(queue))
  /\ queue' = Tail(queue)
  /\ writing' = (Tail(queue) # <<>>)
  /\ UNCHANGED <<io_vars, service_vars, state, strand, reading, errored,
                 confirmed, deliveries, messages, history_vars>>

asyncWrite ==
  /\ polling
  /\ writing
  /\ handlers' = Append(handlers, Head(queue))
  /\ wire' = Append(wire, Head(queue))
  /\ queue' = Tail(queue)
  /\ writing' = (Tail(queue) # <<>>)
  /\ UNCHANGED <<io_vars, service_vars, state, strand, reading, errored,
                 confirmed, deliveries, messages, history_vars>>

(* The command stays at the front of the queue, and no write follows. *)
asyncWriteError ==
  /\ polling
  /\ writing
  /\ writing' = FALSE
  /\ errorHandle(item_queue)
  /\ UNCHANGED <<io_vars, state, strand, queue, handlers, reading, redis_vars,
                 answered, stale, underflow>>

asyncReadError ==
  /\ polling
  /\ reading
  /\ reading' = FALSE
  /\ errorHandle(item_queue)
  /\ UNCHANGED <<io_vars, state, strand, queue, writing, handlers, redis_vars,
                 answered, stale, underflow>>

(* Which answers the state of the client admits: once it is subscribed, only
   confirmations and messages. *)
Admits(c) == state = "Connected" \/ c \in Subscriptions

(* The first handler is given an answer.  The handler of a subscription's
   confirmation does nothing. *)
handler ==
  IF Head(handlers) \in Commands
  THEN /\ PopItem
       /\ answered' = [answered EXCEPT ![Head(handlers)] = @ + 1]
       /\ stale' = (stale \/ errored)
  ELSE UNCHANGED <<item_queue, answered, stale, underflow>>

doProcessMessage ==
  /\ polling
  /\ reading /\ wire # <<>>
  /\ Admits(Head(wire))
  /\ wire' = Tail(wire)
  /\ handlers # <<>>
  /\ handler
  /\ handlers' = Tail(handlers)
  /\ confirmed' = IF Head(wire) \in Subscriptions THEN confirmed \cup {Head(wire)} ELSE confirmed
  /\ UNCHANGED <<io_vars, signal, state, strand, queue, writing, reading, errored,
                 deliveries, messages, failed>>

(* The callback throws: the handler stays at the front, nothing more is read,
   and update catches the exception. *)
HandlerThrows ==
  /\ polling
  /\ reading /\ wire # <<>>
  /\ Admits(Head(wire))
  /\ wire' = Tail(wire)
  /\ handlers # <<>> /\ Head(handlers) \in Commands
  /\ handler
  /\ reading' = FALSE
  /\ polling' = FALSE
  /\ signal' = "SIG_CONNECTION"
  /\ confirmed' = IF Head(wire) \in Subscriptions THEN confirmed \cup {Head(wire)} ELSE confirmed
  /\ UNCHANGED <<called, posted, state, strand, queue, writing, handlers, errored,
                 deliveries, messages, failed>>

(* The answer to a command, read when the client is subscribed; the client
   goes on reading. *)
ProtocolError ==
  /\ polling
  /\ reading /\ wire # <<>>
  /\ ~Admits(Head(wire))
  /\ wire' = Tail(wire)
  /\ errorHandle(item_queue)
  /\ UNCHANGED <<io_vars, state, strand, queue, writing, handlers, reading, confirmed,
                 deliveries, messages, answered, stale, underflow>>

(* A message of a channel: its callback is posted to the strand. *)
Message ==
  /\ polling
  /\ reading
  /\ confirmed # {}
  /\ messages < MaxMessages
  /\ messages' = messages + 1
  /\ deliveries' = deliveries + 1
  /\ UNCHANGED <<io_vars, service_vars, client_vars, wire, confirmed, history_vars>>

(* The callback takes the first error callback, whosever it is. *)
MessageCallback ==
  /\ polling
  /\ deliveries > 0
  /\ deliveries' = deliveries - 1
  /\ PopItem
  /\ UNCHANGED <<io_vars, signal, client_vars, wire, confirmed, messages,
                 answered, failed, stale>>

-----------------------------------------------------------------------------
Service == update \/ PollReturns \/ ExecCommand \/ ExecSubscribe
Client  == \/ doCommand \/ asyncWrite \/ asyncWriteError
           \/ doProcessMessage \/ HandlerThrows \/ ProtocolError \/ asyncReadError
           \/ Message \/ MessageCallback

Next ==
  /\ ~underflow
  /\ \/ \E c \in Calls : invoke(c)
     \/ Service
     \/ \E open \in BOOLEAN : connect(open)
     \/ Client

Spec == Init /\ [][Next]_vars

(* The scheduler goes on, what is ready is run, and a connection is looked at
   every second.  NetworkAnswers: a written command is answered or the
   connection fails, a write succeeds or fails. *)
Fairness ==
  /\ WF_vars(~underflow /\ Service)
  /\ SF_vars(~underflow /\ \E open \in BOOLEAN : connect(open))
  /\ WF_vars(~underflow /\ doCommand)
  /\ WF_vars(~underflow /\ MessageCallback)

NetworkAnswers ==
  /\ SF_vars(~underflow /\ (asyncWrite \/ asyncWriteError))
  /\ SF_vars(~underflow /\ wire # <<>> /\ (doProcessMessage \/ HandlerThrows \/ ProtocolError
                                           \/ asyncReadError))

LiveSpec == Spec /\ Fairness /\ NetworkAnswers

-----------------------------------------------------------------------------
(* PROPERTIES *)

(* The calls of the client: written, to be written, about to be queued. *)
Requests == handlers \o queue \o strand

(* As long as the client has reported no error, is read from, and no message
   has been published, the error callbacks that wait are those of its calls,
   in their order: an answer removes its own command's error callback
   (redis_service.cc 76-188). *)
ItemsFollowRequests ==
  ~errored /\ reading /\ state = "Connected" /\ messages = 0 => item_queue = Requests

(* A call gets one answer or one error and never both: the callers free what
   their two callbacks share in either (battle_processor.cc 240 and 242).  It
   holds unless an answer was given to a client that had reported an error. *)
OneOutcome ==
  ~stale => \A c \in Calls : answered[c] + failed[c] <= 1

(* The error callback of a call never runs twice, even when answers are given
   after an error. *)
FailedOnce ==
  \A c \in Calls : failed[c] <= 1

(* The queue of error callbacks is only found empty by an answer if an error
   had been reported before, or if a message has taken a callback away. *)
Underflows ==
  underflow => stale \/ messages > 0

(* A client that has reported an error, or that nobody reads from any more, is
   always to be replaced: no failure is forgotten. *)
DeadIsReplaced ==
  errored \/ ~reading => signal = "SIG_CONNECTION"

(* There is a handler for every answer, so that the client's "unexpected
   message" (redisclientimpl.cpp 104-113) is never reported. *)
AnswersAreExpected ==
  Len(wire) <= Len(handlers)

(* An answer goes to the command it was sent for, unless it comes after an
   error. *)
AnswersMatch ==
  [][\A c \in Calls :
       answered'[c] # answered[c] /\ ~stale' => wire # <<>> /\ Head(wire) = c]_vars

(* Every call of a command is answered or fails in the end. *)
CallsAreSettled ==
  \A c \in Commands :
    c \in called ~> answered[c] + failed[c] > 0 \/ stale \/ messages > 0

=============================================================================
