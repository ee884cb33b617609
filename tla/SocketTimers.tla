---------------------------- MODULE SocketTimers ----------------------------
(***************************************************************************)
(* The deadlines of an asynchronous socket: AsyncSocket, AsyncSSLSocket,   *)
(* and the websocket that owns it until its handshake is over and while it *)
(* reads and writes.                                                       *)
(*                                                                         *)
(* A socket has three timers.  A handler waits for each of them from the   *)
(* moment the socket is made; setting the expiry time of a timer cancels   *)
(* the wait, whose handler then runs with an error.  It is for the handler *)
(* to wait again, and the two classes differ there.                        *)
(*                                                                         *)
(* Who owns a socket, and which class it is:                               *)
(*   user     WebsocketSession of TcpServer: AsyncSSLSocket                *)
(*   node     WebsocketSession of NodeServer: AsyncSocket                  *)
(*   cluster  WebsocketAsync of Cluster: AsyncSocket                       *)
(*                                                                         *)
(* Time is not measured: an expiry time is infinite, in the future or      *)
(* passed, and may pass at any moment.                                     *)
(***************************************************************************)
EXTENDS Naturals, Sequences, FiniteSets

CONSTANTS MaxEndpoints,  \* bound: addresses that a node's host resolves to
          MaxWrites      \* bound: packets written after the handshake

ASSUME SocketAssumption == MaxEndpoints \in Nat \ {0} /\ MaxWrites \in Nat

VARIABLES
  role,           \* who owns the socket
  stage,          \* where the owner is in its handshake
  sock,           \* the socket and its timers
  endpoints,      \* addresses not yet tried
  process_write,  \* the owner's flag that says a write is outstanding
  waiting,        \* number of packets in the owner's packet_queue
  requested,      \* number of packets given to the owner
  to_read,        \* what the next read waits for: the actor, the socket's thread, or neither
  reopened,       \* a connect after the deadline had closed the socket
  touched         \* what has used the socket after it was destroyed

vars == <<role, stage, sock, endpoints, process_write, waiting, requested, to_read, reopened, touched>>
owner_vars == <<role, endpoints, process_write, waiting, requested, reopened, touched>>

Roles      == {"user", "node", "cluster"}
Stages     == {"new", "connect", "tls", "request", "response", "running", "destroyed", "aborted"}
Timers     == {"connect", "read", "write"}
Operations == {"connect", "tls", "read", "write"}

Server == role \in {"user", "node"}
Tls    == role = "user"
Alive  == stage \notin {"destroyed", "aborted"}

(* The timer that has the deadline of an operation. *)
TimerOf(op) == IF op = "tls" THEN "connect" ELSE op

(* Handlers: of a wait that has fired (ok) or was cancelled, and of an
   operation that has succeeded (ok) or failed. *)
Check(t, ok) == [run |-> "check", of |-> t, ok |-> ok]
Done(op, ok) == [run |-> "done", of |-> op, ok |-> ok]
Handlers     == [run: {"check"}, of: Timers, ok: BOOLEAN]
                  \cup [run: {"done"}, of: Operations, ok: BOOLEAN]

(* pending counts the operations outstanding; ready has the handlers that
   the strand will run, in order. *)
Sockets == [open: BOOLEAN,
            expiry: [Timers -> {"infinite", "future", "passed"}],
            wait: [Timers -> BOOLEAN],
            pending: [Operations -> Nat],
            ready: Seq(Handlers)]

Init ==
  /\ role \in Roles
  /\ stage = "new"
  /\ sock = [open |-> FALSE, expiry |-> [t \in Timers |-> "infinite"],
             wait |-> [t \in Timers |-> TRUE],
             pending |-> [op \in Operations |-> 0], ready |-> <<>>]
  /\ endpoints \in 1..MaxEndpoints
  /\ process_write = FALSE
  /\ waiting = 0
  /\ requested = 0
  /\ to_read = "no"
  /\ reopened = FALSE
  /\ touched = {}

-----------------------------------------------------------------------------
(***************************************************************************)
(* What the calls do to a socket.                                          *)
(***************************************************************************)
Cancel(k, t) ==
  IF k.wait[t] THEN [k EXCEPT !.wait[t] = FALSE, !.ready = Append(@, Check(t, FALSE))] ELSE k

CancelAll(k) == Cancel(Cancel(Cancel(k, "connect"), "read"), "write")

SetExpiry(k, t, e) == [Cancel(k, t) EXCEPT !.expiry[t] = e]

Start(k, op) == [k EXCEPT !.pending[op] = @ + 1]

(* What a socket does to its outstanding operations when it is closed. *)
Aborted(k, op) ==
  [k EXCEPT !.pending[op] = 0, !.ready = @ \o [i \in 1..k.pending[op] |-> Done(op, FALSE)]]

close(k) ==
  IF k.open
  THEN [Aborted(Aborted(Aborted(Aborted(CancelAll(k), "read"), "tls"), "write"), "connect")
          EXCEPT !.open = FALSE]
  ELSE k

(* Reading and writing with a deadline, or without. *)
read(k, e)  == Start(SetExpiry(k, "read", e), "read")
write(k, e) == Start(SetExpiry(k, "write", e), "write")

(* destroyAsync: the owner closes the socket and deletes itself, and with
   itself the socket and its timers. *)
Destroyed(k) == CancelAll(close(k))

-----------------------------------------------------------------------------
(***************************************************************************)
(* The owner begins: TcpServer::accept and NodeServer::accept start the    *)
(* session they have accepted, Cluster::connect connects.                  *)
(***************************************************************************)
AcceptTls ==
  /\ stage = "new" /\ role = "user"
  /\ stage' = "tls"
  /\ sock' = Start(SetExpiry([sock EXCEPT !.open = TRUE], "connect", "future"), "tls")
  /\ UNCHANGED <<to_read, owner_vars>>

AcceptPlain ==
  /\ stage = "new" /\ role = "node"
  /\ stage' = "request"
  /\ sock' = read([sock EXCEPT !.open = TRUE], "future")
  /\ UNCHANGED <<to_read, owner_vars>>

Connect ==
  /\ stage = "new" /\ role = "cluster"
  /\ stage' = "connect"
  /\ sock' = Start(SetExpiry([sock EXCEPT !.open = TRUE], "connect", "future"), "connect")
  /\ endpoints' = endpoints - 1
  /\ UNCHANGED <<role, process_write, waiting, requested, to_read, reopened, touched>>

(***************************************************************************)
(* The world: time passes, a timer fires, an operation completes.  An      *)
(* operation on a closed socket can only fail.                             *)
(***************************************************************************)
TimePasses(t) ==
  /\ sock.expiry[t] = "future"
  /\ sock' = [sock EXCEPT !.expiry[t] = "passed"]
  /\ UNCHANGED <<stage, to_read, owner_vars>>

WaitFires(t) ==
  /\ sock.wait[t]
  /\ sock.expiry[t] = "passed"
  /\ sock' = [sock EXCEPT !.wait[t] = FALSE, !.ready = Append(@, Check(t, TRUE))]
  /\ UNCHANGED <<stage, to_read, owner_vars>>

Complete(op, ok) ==
  /\ sock.pending[op] > 0
  /\ ok => sock.open
  /\ sock' = [sock EXCEPT !.pending[op] = @ - 1, !.ready = Append(@, Done(op, ok))]
  /\ UNCHANGED <<stage, to_read, owner_vars>>

-----------------------------------------------------------------------------
(***************************************************************************)
(* The handlers.  Popped is the socket when the first of them runs.        *)
(***************************************************************************)
Popped == [sock EXCEPT !.ready = Tail(@)]

Runs(run, of) ==
  /\ Alive
  /\ sock.ready # <<>>
  /\ Head(sock.ready).run = run
  /\ Head(sock.ready).of = of

Ok == Head(sock.ready).ok

(* checkConnectDeadline, checkReadDeadline, checkWriteDeadline.  Both owners
   set all three callbacks of a socket, to functions that return false and do
   no more: so the socket is closed, whichever of them is called. *)
Expired(k, t) ==
  IF k.expiry[t] = "passed" THEN SetExpiry(close(k), t, "infinite") ELSE k

WaitAgain(k, t) == IF k.open THEN [k EXCEPT !.wait[t] = TRUE] ELSE k

\* Mutant: AsyncSSLSocket looks at the expiry time as AsyncSocket does.
checkDeadline_Same(t) ==
  /\ Runs("check", t)
  /\ sock' = WaitAgain(Expired(Popped, t), t)
  /\ UNCHANGED <<stage, to_read, owner_vars>>

\* Mutant: a handler whose wait was cancelled does nothing in either class.
checkDeadline_Return(t) ==
  /\ Runs("check", t)
  /\ sock' = IF ~Ok THEN Popped ELSE WaitAgain(Expired(Popped, t), t)
  /\ UNCHANGED <<stage, to_read, owner_vars>>

\* AsyncSSLSocket returns when the wait was cancelled, AsyncSocket goes on.
checkDeadline(t) ==
  /\ Runs("check", t)
  /\ sock' = IF Tls /\ ~Ok THEN Popped ELSE WaitAgain(Expired(Popped, t), t)
  /\ UNCHANGED <<stage, to_read, owner_vars>>

(***************************************************************************)
(* A handshake that fails: onError(CONNECT) destroys the owner within the  *)
(* callback of op.  The rest of the handler, unless op ends with its       *)
(* callback, clears the deadline of the socket that is no more.            *)
(***************************************************************************)
\* Mutant: the TLS handshake clears its deadline after the callback, as the others do.
EndsWithCallback_None == {}

EndsWithCallback == {"tls"}

Fail(op) ==
  /\ stage' = "destroyed"
  /\ sock' = Destroyed(Popped)
  /\ touched' = touched \cup ({op} \ EndsWithCallback)
  /\ UNCHANGED <<role, endpoints, process_write, waiting, requested, to_read, reopened>>

(* The callback leaves k, and the rest of the handler clears the deadline.
   When the handshake is over the actor starts: it reads without looking at
   the socket. *)
Proceed(k, t, next) ==
  /\ sock' = SetExpiry(k, t, "infinite")
  /\ stage' = next
  /\ to_read' = IF next = "running" THEN "go" ELSE to_read

(***************************************************************************)
(* connectInternal: the next address after an error, however it came; the  *)
(* deadline is that of the first.                                          *)
(***************************************************************************)
ConnectDone ==
  /\ Runs("done", "connect")
  /\ \/ /\ Ok /\ sock.open
        /\ Proceed(write(Popped, "future"), "connect", "request")
        /\ UNCHANGED owner_vars
     \/ /\ ~Ok /\ endpoints > 0
        /\ sock' = Start([Popped EXCEPT !.open = TRUE], "connect")
        /\ endpoints' = endpoints - 1
        /\ reopened' = (reopened \/ ~sock.open)
        /\ UNCHANGED <<role, stage, process_write, waiting, requested, to_read, touched>>
     \/ /\ ~Ok /\ endpoints = 0
        /\ Fail("connect")

(* The handler of a connect that has succeeded sets an option of the socket.
   It throws when a deadline, ahead of it in line, has closed the socket: the
   exception leaves MainLoop::update and the thread of the pool that runs it,
   where nobody catches it, and the process ends. *)
ConnectThrows ==
  /\ Runs("done", "connect")
  /\ Ok /\ ~sock.open
  /\ stage' = "aborted"
  /\ sock' = Popped
  /\ UNCHANGED <<to_read, owner_vars>>

\* AsyncSSLSocket::handshake ends with its callback.
TlsDone ==
  /\ Runs("done", "tls")
  /\ \/ /\ Ok
        /\ sock' = read(SetExpiry(Popped, "connect", "infinite"), "future")
        /\ stage' = "request"
        /\ UNCHANGED <<to_read, owner_vars>>
     \/ /\ ~Ok
        /\ Fail("tls")

(***************************************************************************)
(* A server reads the request in as many pieces as it comes in, a client   *)
(* the response in one.  Either may be refused.                            *)
(***************************************************************************)
ReadHandshake ==
  /\ Runs("done", "read")
  /\ stage = IF Server THEN "request" ELSE "response"
  /\ \/ /\ Ok /\ Server
        /\ Proceed(read(Popped, "future"), "read", "request")
        /\ UNCHANGED owner_vars
     \/ /\ Ok
        /\ IF Server THEN Proceed(write(Popped, "future"), "read", "response")
                     ELSE Proceed(Popped, "read", "running")
        /\ UNCHANGED owner_vars
     \/ Fail("read")

WriteHandshake ==
  /\ Runs("done", "write")
  /\ stage = IF Server THEN "response" ELSE "request"
  /\ \/ /\ Ok
        /\ IF Server THEN Proceed(Popped, "write", "running")
                     ELSE Proceed(read(Popped, "future"), "write", "response")
        /\ UNCHANGED owner_vars
     \/ /\ ~Ok
        /\ Fail("write")

-----------------------------------------------------------------------------
(***************************************************************************)
(* After the handshake.  Reads have no deadline.  The actor, on the thread *)
(* of the main loop, asks for the next one when it is told that one has    *)
(* finished, if the socket is open then; the socket's thread begins it     *)
(* later, and does not look again.  Writes have a deadline.                *)
(***************************************************************************)
onReceiveFinish ==
  /\ stage = "running"
  /\ to_read = "told"
  /\ to_read' = IF sock.open THEN "go" ELSE "no"
  /\ UNCHANGED <<stage, sock, owner_vars>>

readAsync ==
  /\ stage = "running"
  /\ to_read = "go"
  /\ to_read' = "no"
  /\ sock' = read(sock, "infinite")
  /\ UNCHANGED <<stage, owner_vars>>

\* Mutant: the deadline stays set when the read is over.
receivePacket_NoReset ==
  /\ Runs("done", "read")
  /\ stage = "running"
  /\ sock' = SetExpiry(IF Ok THEN Popped ELSE close(Popped), "read", "future")
  /\ to_read' = "told"
  /\ UNCHANGED <<stage, owner_vars>>

receivePacket ==
  /\ Runs("done", "read")
  /\ stage = "running"
  /\ sock' = SetExpiry(IF Ok THEN Popped ELSE close(Popped), "read", "infinite")
  /\ to_read' = "told"
  /\ UNCHANGED <<stage, owner_vars>>

writeAsync ==
  /\ stage = "running"
  /\ requested < MaxWrites
  /\ requested' = requested + 1
  /\ IF process_write
     THEN waiting' = waiting + 1 /\ UNCHANGED <<sock, process_write>>
     ELSE sock' = write(sock, "future") /\ process_write' = TRUE /\ UNCHANGED waiting
  /\ UNCHANGED <<role, stage, endpoints, to_read, reopened, touched>>

(* writeAsyncInternal's callback writes the next packet, whose deadline the
   rest of the handler clears. *)
WriteDone ==
  /\ Runs("done", "write")
  /\ stage = "running"
  /\ LET k    == IF Ok THEN Popped ELSE close(Popped)
         next == k.open /\ waiting > 0
     IN /\ sock' = SetExpiry(IF next THEN write(k, "future") ELSE k, "write", "infinite")
        /\ waiting' = IF next THEN waiting - 1 ELSE waiting
  /\ process_write' = FALSE
  /\ UNCHANGED <<role, stage, endpoints, requested, to_read, reopened, touched>>

(***************************************************************************)
(* The actor closes the connection.  When it is erased it has the session  *)
(* deleted: by a function that is posted, once nothing is outstanding on   *)
(* the closed socket (module UserSession), behind what the closing has     *)
(* made ready.                                                             *)
(***************************************************************************)
closeAsync ==
  /\ stage = "running"
  /\ sock.open
  /\ sock' = close(sock)
  /\ UNCHANGED <<stage, to_read, owner_vars>>

destroyAsync ==
  /\ stage = "running"
  /\ ~sock.open
  /\ to_read = "no"
  /\ \A op \in Operations : sock.pending[op] = 0
  /\ sock.ready = <<>>
  /\ stage' = "destroyed"
  /\ sock' = Destroyed(sock)
  /\ UNCHANGED <<to_read, owner_vars>>

(***************************************************************************)
(* Handlers that run when the socket has been destroyed.  Those of the     *)
(* timers use it, but for AsyncSSLSocket's, which returns first.           *)
(***************************************************************************)
Dangling ==
  /\ stage = "destroyed"
  /\ sock.ready # <<>>
  /\ sock' = Popped
  /\ touched' = IF Tls /\ Head(sock.ready).run = "check" /\ ~Ok THEN touched
                ELSE touched \cup {Head(sock.ready).run}
  /\ UNCHANGED <<role, stage, endpoints, process_write, waiting, requested, to_read, reopened>>

-----------------------------------------------------------------------------
Handler ==
  \/ \E t \in Timers : checkDeadline(t)
  \/ ConnectDone \/ ConnectThrows \/ TlsDone \/ ReadHandshake \/ WriteHandshake
  \/ receivePacket \/ WriteDone
  \/ Dangling

Next ==
  \/ AcceptTls \/ AcceptPlain \/ Connect
  \/ \E t \in Timers : Alive /\ (TimePasses(t) \/ WaitFires(t))
  \/ \E op \in Operations, ok \in BOOLEAN : Alive /\ Complete(op, ok)
  \/ onReceiveFinish \/ readAsync \/ writeAsync \/ closeAsync \/ destroyAsync
  \/ Handler

Spec == Init /\ [][Next]_vars

(* The clock goes on, a timer that has expired fires, and the thread of the
   socket polls; the peer owes nothing. *)
Fairness ==
  /\ \A t \in Timers : WF_vars(TimePasses(t)) /\ WF_vars(WaitFires(t))
  /\ WF_vars(Handler)

FairSpec == Spec /\ Fairness

-----------------------------------------------------------------------------
(***************************************************************************)
(* Properties.                                                             *)
(***************************************************************************)
TypeOK ==
  /\ role \in Roles /\ stage \in Stages /\ sock \in Sockets
  /\ endpoints \in 0..MaxEndpoints
  /\ process_write \in BOOLEAN /\ reopened \in BOOLEAN
  /\ waiting \in 0..MaxWrites /\ requested \in 0..MaxWrites
  /\ to_read \in {"no", "told", "go"}
  /\ touched \subseteq Operations \cup {"check", "done"}

(* A deadline belongs to an operation that is outstanding, or whose handler is
   to run and will clear it. *)
Handled(op) == \E i \in DOMAIN sock.ready : sock.ready[i].run = "done" /\ sock.ready[i].of = op

Late(t) == \E op \in Operations : TimerOf(op) = t /\ (sock.pending[op] > 0 \/ Handled(op))

(* What a deadline closes is late.  A timer fires and its handler waits in line
   while the operation ends, the next one begins with the same timer, and the
   deadlines are cleared by the rest of the handlers; yet no deadline closes a
   socket when the operation it was set for has been handled. *)
ClosesTheLate ==
  [][\A t \in Timers : checkDeadline(t) /\ sock.open /\ ~sock'.open => Late(t)]_vars

(* AsyncSocket: every cancelled wait is taken up again, so that each timer of
   an open socket is waited for, or the handler that will wait is to run,
   unless a deadline has closed the socket and connectInternal has opened it
   again for the next address. *)
CheckReady(t) == \E i \in DOMAIN sock.ready : sock.ready[i].run = "check" /\ sock.ready[i].of = t

PlainIsWatched ==
  Alive /\ ~Tls /\ sock.open /\ ~reopened => \A t \in Timers : sock.wait[t] \/ CheckReady(t)

(* AsyncSSLSocket: a wait that was cancelled is not taken up again, and
   setting a deadline cancels the wait.  Nothing but a wait for the end of
   time is left, and no deadline of a user's connection ever closes it. *)
TlsIsUnwatched ==
  Tls => /\ \A t \in Timers : sock.wait[t] => sock.expiry[t] = "infinite"
         /\ \A i \in DOMAIN sock.ready : sock.ready[i].run = "check" => ~sock.ready[i].ok

(* The owner deletes its socket in a callback of that socket.  What comes to
   the deleted socket is the rest of that handler, unless it is the TLS
   handshake's, and the handlers of the cancelled timers, unless they are
   AsyncSSLSocket's.  No operation of a deleted socket ends after that. *)
TouchedOnlyBy ==
  /\ touched \subseteq {"connect", "read", "write", "check"}
  /\ Cardinality(touched \ {"check"}) <= 1
  /\ Tls => "check" \notin touched

(* AsyncSocket: an operation with a deadline does not last for ever.  It ends,
   or the deadline closes the socket, unless the socket was opened again
   after a deadline had closed it. *)
DeadlinesEnd ==
  \A t \in Timers :
    ~Tls /\ Alive /\ sock.expiry[t] # "infinite"
      ~> sock.expiry[t] = "infinite" \/ ~sock.open \/ ~Alive \/ reopened

=============================================================================
