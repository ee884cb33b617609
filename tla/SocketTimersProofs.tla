------------------------- MODULE SocketTimersProofs -------------------------
(***************************************************************************)
(* Proofs about the deadlines of an asynchronous socket, for any number of *)
(* addresses and of writes.                                                *)
(*                                                                         *)
(* First what each call does to the fields of a socket, then what it does  *)
(* to the four facts that the invariant is made of: which timers are       *)
(* waited for in either class, that a deadline has its operation, and that *)
(* a handshake has one operation at a time.                                *)
(***************************************************************************)
EXTENDS SocketTimers, FiniteSetTheorems, TLAPS

(* The handlers that are ready. *)
Ready(k) == {k.ready[i] : i \in DOMAIN k.ready}

(***************************************************************************)
(* Sequences.                                                              *)
(***************************************************************************)
LEMMA AppendFacts ==
  ASSUME NEW S, NEW s \in Seq(S), NEW e \in S
  PROVE  /\ Append(s, e) \in Seq(S)
         /\ DOMAIN Append(s, e) = 1..(Len(s) + 1)
         /\ DOMAIN s = 1..Len(s) /\ Len(s) \in Nat
         /\ \A i \in 1..Len(s) : Append(s, e)[i] = s[i]
         /\ Append(s, e)[Len(s) + 1] = e
  OBVIOUS

LEMMA TailFacts ==
  ASSUME NEW S, NEW s \in Seq(S), s # <<>>
  PROVE  /\ Tail(s) \in Seq(S)
         /\ DOMAIN s = 1..Len(s) /\ Len(s) \in Nat \ {0}
         /\ DOMAIN Tail(s) = 1..(Len(s) - 1)
         /\ \A i \in 1..(Len(s) - 1) : Tail(s)[i] = s[i + 1]
         /\ Head(s) = s[1] /\ s[1] \in S
  OBVIOUS

LEMMA ConcatFacts ==
  ASSUME NEW S, NEW s \in Seq(S), NEW n \in Nat, NEW e \in S
  PROVE  LET c == s \o [i \in 1..n |-> e]
         IN  /\ c \in Seq(S)
             /\ DOMAIN s = 1..Len(s) /\ Len(s) \in Nat
             /\ DOMAIN c = 1..(Len(s) + n)
             /\ \A i \in 1..Len(s) : c[i] = s[i]
             /\ \A i \in (Len(s) + 1)..(Len(s) + n) : c[i] = e
<1> DEFINE r == [i \in 1..n |-> e]
<1>1. r \in Seq(S) /\ Len(r) = n
  OBVIOUS
<1>2. \A i \in 1..n : r[i] = e
  OBVIOUS
<1> HIDE DEF r
<1>3. /\ s \o r \in Seq(S) /\ Len(s \o r) = Len(s) + n
      /\ DOMAIN s = 1..Len(s) /\ Len(s) \in Nat
      /\ DOMAIN (s \o r) = 1..(Len(s) + n)
      /\ \A i \in 1..Len(s) : (s \o r)[i] = s[i]
  BY <1>1
<1>4. \A i \in (Len(s) + 1)..(Len(s) + n) : (s \o r)[i] = r[i - Len(s)] /\ i - Len(s) \in 1..n
  BY <1>1
<1> QED BY <1>2, <1>3, <1>4 DEF r

(***************************************************************************)
(* The fields of a socket after each call.                                 *)
(***************************************************************************)
LEMMA SocketFields ==
  ASSUME NEW k \in Sockets
  PROVE  /\ k.open \in BOOLEAN
         /\ k.expiry \in [Timers -> {"infinite", "future", "passed"}]
         /\ k.wait \in [Timers -> BOOLEAN]
         /\ k.pending \in [Operations -> Nat]
         /\ k.ready \in Seq(Handlers)
BY DEF Sockets

LEMMA HandlersTyped ==
  /\ \A t \in Timers, ok \in BOOLEAN : Check(t, ok) \in Handlers
  /\ \A op \in Operations, ok \in BOOLEAN : Done(op, ok) \in Handlers
  /\ \A t, ok : Check(t, ok).run = "check" /\ Check(t, ok).of = t /\ Check(t, ok).ok = ok
  /\ \A op, ok : Done(op, ok).run = "done" /\ Done(op, ok).of = op /\ Done(op, ok).ok = ok
BY DEF Handlers, Check, Done

(* Only the handlers of cancelled waits are added. *)
Cancelled(c, k) ==
  /\ c \in Sockets
  /\ c.open = k.open /\ c.pending = k.pending
  /\ \A h \in Ready(c) : h \in Ready(k) \/ (h.run = "check" /\ h.ok = FALSE)
  /\ Ready(k) \subseteq Ready(c)
  /\ \A t \in Timers : c.wait[t] => k.wait[t]
  /\ \A t \in Timers : k.wait[t] => c.wait[t] \/ \E h \in Ready(c) : h.run = "check" /\ h.of = t

(* A socket has at most one operation, outstanding or to be handled. *)
Single(k) ==
  /\ \A i, j \in DOMAIN k.ready : k.ready[i].run = "done" /\ k.ready[j].run = "done" => i = j
  /\ \A o \in Operations : k.pending[o] <= 1
  /\ \A o, p \in Operations : k.pending[o] > 0 /\ k.pending[p] > 0 => o = p
  /\ \A i \in DOMAIN k.ready : k.ready[i].run = "done" => \A o \in Operations : k.pending[o] = 0

(* It has none. *)
Idle(k) ==
  /\ \A h \in Ready(k) : h.run # "done"
  /\ \A o \in Operations : k.pending[o] = 0

LEMMA CancelFacts ==
  ASSUME NEW k \in Sockets, NEW t \in Timers
  PROVE  /\ Cancelled(Cancel(k, t), k)
         /\ Cancel(k, t).expiry = k.expiry /\ ~Cancel(k, t).wait[t]
         /\ Single(k) => Single(Cancel(k, t))
         /\ Idle(k) => Idle(Cancel(k, t))
<1> DEFINE c == Cancel(k, t)
           e == Check(t, FALSE)
<1>1. e \in Handlers /\ e.run = "check" /\ e.of = t /\ e.ok = FALSE
  BY HandlersTyped
<1>2. CASE ~k.wait[t]
  <2>1. c = k
    BY <1>2 DEF Cancel
  <2> HIDE DEF c
  <2>2. Cancelled(c, k)
    <3>1. Cancelled(k, k)
      BY DEF Cancelled
    <3> QED BY <2>1, <3>1
  <2>3. c.expiry = k.expiry /\ ~c.wait[t]
    BY <2>1, <1>2
  <2> QED BY <2>1, <2>2, <2>3 DEF c
<1>3. CASE k.wait[t]
  <2>1. c = [k EXCEPT !.wait[t] = FALSE, !.ready = Append(@, e)]
    BY <1>3 DEF Cancel
  <2>2. Append(k.ready, e) \in Seq(Handlers)
    BY <1>1, SocketFields, AppendFacts
  <2>3. /\ c.open = k.open /\ c.expiry = k.expiry /\ c.pending = k.pending
        /\ c.wait = [k.wait EXCEPT ![t] = FALSE]
        /\ c.ready = Append(k.ready, e)
        /\ c \in Sockets
    <3> HIDE DEF c, e
    <3>1. /\ c.open = k.open /\ c.expiry = k.expiry /\ c.pending = k.pending
          /\ c.wait = [k.wait EXCEPT ![t] = FALSE]
          /\ c.ready = Append(k.ready, e)
      BY <2>1 DEF Sockets
    <3>2. c = [open |-> c.open, expiry |-> c.expiry, wait |-> c.wait,
               pending |-> c.pending, ready |-> c.ready]
      BY <2>1 DEF Sockets
    <3>3. c.wait \in [Timers -> BOOLEAN]
      BY <3>1, SocketFields
    <3> QED BY <3>1, <3>2, <3>3, <2>2, SocketFields DEF Sockets
  <2> HIDE DEF c, e
  <2>4. /\ DOMAIN c.ready = 1..(Len(k.ready) + 1) /\ DOMAIN k.ready = 1..Len(k.ready)
        /\ Len(k.ready) \in Nat
        /\ \A i \in 1..Len(k.ready) : c.ready[i] = k.ready[i]
        /\ c.ready[Len(k.ready) + 1] = e
    BY <2>3, <1>1, SocketFields, AppendFacts
  <2>5. Ready(c) = Ready(k) \cup {e}
    BY <2>4 DEF Ready
  <2>6. Cancelled(c, k) /\ ~c.wait[t]
    <3>1. \A u \in Timers : c.wait[u] = IF u = t THEN FALSE ELSE k.wait[u]
      BY <2>3, SocketFields
    <3>2. \A u \in Timers : k.wait[u] => c.wait[u] \/ \E h \in Ready(c) : h.run = "check" /\ h.of = u
      BY <3>1, <2>5, <1>1
    <3>3. \A h \in Ready(c) : h \in Ready(k) \/ (h.run = "check" /\ h.ok = FALSE)
      BY <2>5, <1>1
    <3>4. Ready(k) \subseteq Ready(c)
      BY <2>5
    <3> QED BY <3>1, <3>2, <3>3, <3>4, <2>3 DEF Cancelled
  <2>7. Single(k) => Single(c)
    BY <2>3, <2>4, <1>1 DEF Single
  <2>8. Idle(k) => Idle(c)
    BY <2>3, <2>5, <1>1 DEF Idle
  <2> QED BY <2>3, <2>6, <2>7, <2>8 DEF c
<1> QED BY <1>2, <1>3

LEMMA CancelledTransitive ==
  ASSUME NEW a, NEW b, NEW c, Cancelled(b, a), Cancelled(c, b) PROVE Cancelled(c, a)
<1>1. \A h \in Ready(c) : h \in Ready(a) \/ (h.run = "check" /\ h.ok = FALSE)
  BY DEF Cancelled
<1>2. Ready(a) \subseteq Ready(c)
  BY DEF Cancelled
<1>3. \A t \in Timers : a.wait[t] => c.wait[t] \/ \E h \in Ready(c) : h.run = "check" /\ h.of = t
  BY DEF Cancelled
<1> QED BY <1>1, <1>2, <1>3 DEF Cancelled

LEMMA CancelAllFacts ==
  ASSUME NEW k \in Sockets
  PROVE  /\ Cancelled(CancelAll(k), k)
         /\ CancelAll(k).expiry = k.expiry
         /\ \A t \in Timers : ~CancelAll(k).wait[t]
         /\ Single(k) => Single(CancelAll(k))
         /\ Idle(k) => Idle(CancelAll(k))
<1>0. "connect" \in Timers /\ "read" \in Timers /\ "write" \in Timers
  BY DEF Timers
<1>1. PICK a : a = Cancel(k, "connect")
  OBVIOUS
<1>2. /\ Cancelled(a, k) /\ a.expiry = k.expiry /\ ~a.wait["connect"]
      /\ Single(k) => Single(a)
      /\ Idle(k) => Idle(a)
  BY <1>0, <1>1, CancelFacts
<1>20. a \in Sockets
  BY <1>2 DEF Cancelled
<1>3. PICK b : b = Cancel(a, "read")
  OBVIOUS
<1>4. /\ Cancelled(b, a) /\ b.expiry = a.expiry /\ ~b.wait["read"]
      /\ Single(a) => Single(b)
      /\ Idle(a) => Idle(b)
  BY <1>0, <1>20, <1>3, CancelFacts
<1>21. b \in Sockets
  BY <1>4 DEF Cancelled
<1>5. PICK c : c = Cancel(b, "write")
  OBVIOUS
<1>6. /\ Cancelled(c, b) /\ c.expiry = b.expiry /\ ~c.wait["write"]
      /\ Single(b) => Single(c)
      /\ Idle(b) => Idle(c)
  BY <1>0, <1>21, <1>5, CancelFacts
<1>7. CancelAll(k) = c
  BY <1>1, <1>3, <1>5 DEF CancelAll
<1>8. Cancelled(c, k)
  BY <1>2, <1>4, <1>6, CancelledTransitive
<1>9. ~c.wait["connect"] /\ ~c.wait["read"]
  BY <1>0, <1>2, <1>4, <1>6 DEF Cancelled
<1> QED BY <1>2, <1>4, <1>6, <1>7, <1>8, <1>9 DEF Timers

LEMMA SetExpiryFacts ==
  ASSUME NEW k \in Sockets, NEW t \in Timers, NEW e \in {"infinite", "future", "passed"}
  PROVE  /\ Cancelled(SetExpiry(k, t, e), k)
         /\ SetExpiry(k, t, e).expiry = [k.expiry EXCEPT ![t] = e]
         /\ ~SetExpiry(k, t, e).wait[t]
         /\ Single(k) => Single(SetExpiry(k, t, e))
         /\ Idle(k) => Idle(SetExpiry(k, t, e))
<1>1. PICK a : a = Cancel(k, t)
  OBVIOUS
<1>2. /\ Cancelled(a, k) /\ a.expiry = k.expiry /\ ~a.wait[t]
      /\ Single(k) => Single(a)
      /\ Idle(k) => Idle(a)
  BY <1>1, CancelFacts
<1>3. PICK s : s = SetExpiry(k, t, e)
  OBVIOUS
<1>4. s = [a EXCEPT !.expiry[t] = e] /\ a \in Sockets
  BY <1>1, <1>2, <1>3 DEF SetExpiry, Cancelled
<1>5. /\ s \in Sockets /\ s.open = a.open /\ s.wait = a.wait /\ s.pending = a.pending
      /\ s.ready = a.ready /\ s.expiry = [a.expiry EXCEPT ![t] = e]
  BY <1>4 DEF Sockets
<1>6. Cancelled(s, k)
  BY <1>2, <1>5 DEF Cancelled, Ready
<1>7. (Single(k) => Single(s)) /\ (Idle(k) => Idle(s))
  BY <1>2, <1>5 DEF Single, Idle, Ready
<1> QED BY <1>2, <1>3, <1>5, <1>6, <1>7

LEMMA StartFacts ==
  ASSUME NEW k \in Sockets, NEW op \in Operations
  PROVE  LET s == Start(k, op)
         IN  /\ s \in Sockets /\ s.open = k.open /\ s.expiry = k.expiry /\ s.wait = k.wait
             /\ s.pending = [k.pending EXCEPT ![op] = @ + 1]
             /\ s.ready = k.ready /\ Ready(s) = Ready(k)
             /\ Idle(k) => Single(s)
<1>1. PICK s : s = Start(k, op)
  OBVIOUS
<1>2. /\ s \in Sockets /\ s.open = k.open /\ s.expiry = k.expiry /\ s.wait = k.wait
      /\ s.pending = [k.pending EXCEPT ![op] = @ + 1] /\ s.ready = k.ready
  <2>1. [k.pending EXCEPT ![op] = @ + 1] \in [Operations -> Nat]
    BY SocketFields
  <2>2. /\ s.open = k.open /\ s.expiry = k.expiry /\ s.wait = k.wait
        /\ s.pending = [k.pending EXCEPT ![op] = @ + 1] /\ s.ready = k.ready
    BY <1>1 DEF Start, Sockets
  <2>3. s = [open |-> s.open, expiry |-> s.expiry, wait |-> s.wait,
             pending |-> s.pending, ready |-> s.ready]
    BY <1>1 DEF Start, Sockets
  <2> QED BY <2>1, <2>2, <2>3, SocketFields DEF Sockets
<1>3. Ready(s) = Ready(k)
  BY <1>2 DEF Ready
<1>4. ASSUME Idle(k) PROVE Single(s)
  <2>1. \A o \in Operations : s.pending[o] = IF o = op THEN 1 ELSE 0
    BY <1>2, <1>4, SocketFields DEF Idle
  <2>2. \A i \in DOMAIN s.ready : s.ready[i].run # "done"
    BY <1>2, <1>4 DEF Idle, Ready
  <2> QED BY <2>1, <2>2 DEF Single
<1> QED BY <1>1, <1>2, <1>3, <1>4

LEMMA AbortedFacts ==
  ASSUME NEW k \in Sockets, NEW op \in Operations
  PROVE  LET s == Aborted(k, op)
         IN  /\ s \in Sockets /\ s.open = k.open /\ s.expiry = k.expiry /\ s.wait = k.wait
             /\ s.pending = [k.pending EXCEPT ![op] = 0]
             /\ Ready(s) = Ready(k) \cup (IF k.pending[op] > 0 THEN {Done(op, FALSE)} ELSE {})
             /\ Single(k) => Single(s)
<1>1. PICK s : s = Aborted(k, op)
  OBVIOUS
<1>2. PICK e : e = Done(op, FALSE)
  OBVIOUS
<1>3. e \in Handlers /\ e.run = "done" /\ e.of = op /\ e.ok = FALSE
  BY <1>2, HandlersTyped
<1>4. PICK n \in Nat : n = k.pending[op]
  BY SocketFields
<1>5. PICK r : r = k.ready \o [i \in 1..n |-> e]
  OBVIOUS
<1>6. s = [k EXCEPT !.pending[op] = 0, !.ready = r]
  BY <1>1, <1>2, <1>4, <1>5 DEF Aborted
<1>7. /\ r \in Seq(Handlers)
      /\ DOMAIN k.ready = 1..Len(k.ready) /\ Len(k.ready) \in Nat
      /\ DOMAIN r = 1..(Len(k.ready) + n)
      /\ \A i \in 1..Len(k.ready) : r[i] = k.ready[i]
      /\ \A i \in (Len(k.ready) + 1)..(Len(k.ready) + n) : r[i] = e
  BY <1>3, <1>5, SocketFields, ConcatFacts
<1>8. /\ s \in Sockets /\ s.open = k.open /\ s.expiry = k.expiry /\ s.wait = k.wait
      /\ s.pending = [k.pending EXCEPT ![op] = 0] /\ s.ready = r
  BY <1>6, <1>7 DEF Sockets
<1>9. Ready(s) = Ready(k) \cup (IF n > 0 THEN {e} ELSE {})
  <2>1. \A h \in Ready(s) : h \in Ready(k) \/ (n > 0 /\ h = e)
    <3> SUFFICES ASSUME NEW i \in DOMAIN s.ready PROVE s.ready[i] \in Ready(k) \/ (n > 0 /\ s.ready[i] = e)
      BY DEF Ready
    <3>1. CASE i \in 1..Len(k.ready)
      <4>1. s.ready[i] = k.ready[i] /\ i \in DOMAIN k.ready
        BY <3>1, <1>7, <1>8
      <4> QED BY <4>1 DEF Ready
    <3>2. CASE i \notin 1..Len(k.ready)
      BY <3>2, <1>7, <1>8
    <3> QED BY <3>1, <3>2
  <2>2. \A h \in Ready(k) : h \in Ready(s)
    <3> SUFFICES ASSUME NEW i \in DOMAIN k.ready PROVE k.ready[i] \in Ready(s)
      BY DEF Ready
    <3>1. i \in DOMAIN s.ready /\ s.ready[i] = k.ready[i]
      BY <1>4, <1>7, <1>8
    <3> QED BY <3>1 DEF Ready
  <2>3. n > 0 => e \in Ready(s)
    <3> SUFFICES ASSUME n > 0 PROVE e \in Ready(s)
      OBVIOUS
    <3>1. Len(k.ready) + 1 \in DOMAIN s.ready /\ s.ready[Len(k.ready) + 1] = e
      BY <1>4, <1>7, <1>8
    <3> QED BY <3>1 DEF Ready
  <2> QED BY <2>1, <2>2, <2>3
<1>10. ASSUME Single(k) PROVE Single(s)
  <2>1. n <= 1
    BY <1>4, <1>10 DEF Single
  <2>2. \A o \in Operations : s.pending[o] = IF o = op THEN 0 ELSE k.pending[o]
    BY <1>8, SocketFields
  <2>3. CASE n = 0
    <3>1. DOMAIN s.ready = DOMAIN k.ready /\ \A i \in DOMAIN k.ready : s.ready[i] = k.ready[i]
      BY <2>3, <1>7, <1>8
    <3> QED BY <3>1, <2>2, <1>10 DEF Single
  <2>4. CASE n = 1
    <3>1. \A i \in DOMAIN k.ready : k.ready[i].run # "done"
      BY <2>4, <1>4, <1>10 DEF Single
    <3>2. \A i \in DOMAIN s.ready : s.ready[i].run = "done" => i = Len(k.ready) + 1
      BY <3>1, <2>4, <1>7, <1>8
    <3>3. \A o \in Operations : s.pending[o] = 0
      <4> SUFFICES ASSUME NEW o \in Operations, o # op PROVE k.pending[o] = 0
        BY <2>2
      <4>1. ~(k.pending[o] > 0) /\ k.pending[o] \in Nat
        BY <2>4, <1>4, <1>10, SocketFields DEF Single
      <4> QED BY <4>1
    <3> QED BY <3>2, <3>3 DEF Single
  <2> QED BY <2>1, <2>3, <2>4
<1> QED BY <1>1, <1>2, <1>4, <1>8, <1>9, <1>10

(* A socket that is closed, or was.  What was outstanding has failed. *)
Closed(c, k) ==
  /\ c \in Sockets /\ c.open = FALSE /\ c.expiry = k.expiry
  /\ \A h \in Ready(c) : \/ h \in Ready(k)
                         \/ h.run = "check" /\ h.ok = FALSE
                         \/ h.run = "done" /\ h.of \in Operations /\ k.pending[h.of] > 0
  /\ Ready(k) \subseteq Ready(c)
  /\ \A op \in Operations : c.pending[op] > 0 => k.pending[op] > 0
  /\ \A op \in Operations : k.pending[op] > 0 =>
       c.pending[op] > 0 \/ \E h \in Ready(c) : h.run = "done" /\ h.of = op
  /\ \A t \in Timers : c.wait[t] => k.wait[t]
  /\ Single(k) => Single(c)
  /\ Idle(k) => Idle(c)

LEMMA CloseFacts == ASSUME NEW k \in Sockets PROVE Closed(close(k), k)
<1>1. CASE ~k.open
  <2>1. close(k) = k
    BY <1>1 DEF close
  <2>2. k.open = FALSE
    BY <1>1, SocketFields
  <2>3. Closed(k, k)
    BY <2>2 DEF Closed
  <2> QED BY <2>1, <2>3
<1>2. CASE k.open
  <2>1. PICK a : a = CancelAll(k)
    OBVIOUS
  <2>2. PICK b : b = Aborted(a, "read")
    OBVIOUS
  <2>3. PICK c : c = Aborted(b, "tls")
    OBVIOUS
  <2>4. PICK d : d = Aborted(c, "write")
    OBVIOUS
  <2>5. PICK e : e = Aborted(d, "connect")
    OBVIOUS
  <2>6. PICK f : f = close(k)
    OBVIOUS
  <2>7. f = [e EXCEPT !.open = FALSE]
    BY <1>2, <2>1, <2>2, <2>3, <2>4, <2>5, <2>6 DEF close
  <2>8. /\ "read" \in Operations /\ "tls" \in Operations
        /\ "write" \in Operations /\ "connect" \in Operations
    BY DEF Operations
  <2>9. /\ a \in Sockets /\ a.expiry = k.expiry /\ a.pending = k.pending
        /\ \A t \in Timers : ~a.wait[t]
        /\ \A h \in Ready(a) : h \in Ready(k) \/ (h.run = "check" /\ h.ok = FALSE)
        /\ Ready(k) \subseteq Ready(a)
        /\ Single(k) => Single(a)
        /\ Idle(k) => Idle(a)
    BY <2>1, CancelAllFacts DEF Cancelled
  <2>10. /\ b \in Sockets /\ b.expiry = a.expiry /\ b.wait = a.wait
         /\ b.pending = [a.pending EXCEPT !["read"] = 0]
         /\ Ready(b) = Ready(a) \cup (IF a.pending["read"] > 0 THEN {Done("read", FALSE)} ELSE {})
         /\ Single(a) => Single(b)
    BY <2>2, <2>8, <2>9, AbortedFacts
  <2>11. /\ c \in Sockets /\ c.expiry = b.expiry /\ c.wait = b.wait
         /\ c.pending = [b.pending EXCEPT !["tls"] = 0]
         /\ Ready(c) = Ready(b) \cup (IF b.pending["tls"] > 0 THEN {Done("tls", FALSE)} ELSE {})
         /\ Single(b) => Single(c)
    BY <2>3, <2>8, <2>10, AbortedFacts
  <2>12. /\ d \in Sockets /\ d.expiry = c.expiry /\ d.wait = c.wait
         /\ d.pending = [c.pending EXCEPT !["write"] = 0]
         /\ Ready(d) = Ready(c) \cup (IF c.pending["write"] > 0 THEN {Done("write", FALSE)} ELSE {})
         /\ Single(c) => Single(d)
    BY <2>4, <2>8, <2>11, AbortedFacts
  <2>13. /\ e \in Sockets /\ e.expiry = d.expiry /\ e.wait = d.wait
         /\ e.pending = [d.pending EXCEPT !["connect"] = 0]
         /\ Ready(e) = Ready(d) \cup (IF d.pending["connect"] > 0 THEN {Done("connect", FALSE)} ELSE {})
         /\ Single(d) => Single(e)
    BY <2>5, <2>8, <2>12, AbortedFacts
  <2>14. /\ f \in Sockets /\ f.open = FALSE /\ f.expiry = e.expiry /\ f.wait = e.wait
         /\ f.pending = e.pending /\ f.ready = e.ready
    BY <2>7, <2>13 DEF Sockets
  <2>15. /\ a.pending \in [Operations -> Nat] /\ b.pending \in [Operations -> Nat]
         /\ c.pending \in [Operations -> Nat] /\ d.pending \in [Operations -> Nat]
    BY <2>9, <2>10, <2>11, <2>12, SocketFields
  <2>16. /\ a.pending["read"] = k.pending["read"] /\ b.pending["tls"] = k.pending["tls"]
         /\ c.pending["write"] = k.pending["write"] /\ d.pending["connect"] = k.pending["connect"]
    BY <2>8, <2>9, <2>10, <2>11, <2>12, <2>15
  <2>17. \A op \in Operations : f.pending[op] = 0
    BY <2>10, <2>11, <2>12, <2>13, <2>14, <2>15 DEF Operations
  <2> DEFINE Failed(op) == IF k.pending[op] > 0 THEN {Done(op, FALSE)} ELSE {}
  <2>18. Ready(f) = Ready(a) \cup Failed("read") \cup Failed("tls")
                       \cup Failed("write") \cup Failed("connect")
    <3>1. Ready(f) = Ready(e)
      BY <2>14 DEF Ready
    <3> QED BY <3>1, <2>10, <2>11, <2>12, <2>13, <2>16
  <2>19. \A op \in Operations : \A h \in Failed(op) :
            h.run = "done" /\ h.of = op /\ k.pending[op] > 0
    BY DEF Done
  <2>20. \A op \in Operations : k.pending[op] > 0 => Done(op, FALSE) \in Failed(op)
    OBVIOUS
  <2> HIDE DEF Failed
  <2>21. \A op \in Operations : Failed(op) \subseteq Ready(f)
    BY <2>18 DEF Operations
  <2>22. \A h \in Ready(f) : h \in Ready(a) \/ \E op \in Operations : h \in Failed(op)
    BY <2>8, <2>18
  <2>23. \A h \in Ready(f) : \/ h \in Ready(k)
                             \/ h.run = "check" /\ h.ok = FALSE
                             \/ h.run = "done" /\ h.of \in Operations /\ k.pending[h.of] > 0
    <3> SUFFICES ASSUME NEW h \in Ready(f), h \notin Ready(a)
                 PROVE  h.run = "done" /\ h.of \in Operations /\ k.pending[h.of] > 0
      BY <2>9
    <3>1. PICK op \in Operations : h \in Failed(op)
      BY <2>22
    <3> QED BY <3>1, <2>19
  <2>24. \A op \in Operations : k.pending[op] > 0 => \E h \in Ready(f) : h.run = "done" /\ h.of = op
    <3> SUFFICES ASSUME NEW op \in Operations, k.pending[op] > 0
                 PROVE  \E h \in Ready(f) : h.run = "done" /\ h.of = op
      OBVIOUS
    <3>1. Done(op, FALSE) \in Ready(f)
      BY <2>20, <2>21
    <3>2. Done(op, FALSE).run = "done" /\ Done(op, FALSE).of = op
      BY DEF Done
    <3> QED BY <3>1, <3>2
  <2>25. Ready(k) \subseteq Ready(f)
    BY <2>9, <2>18
  <2>26. Single(k) => Single(f)
    <3>1. Single(e) => Single(f)
      BY <2>14 DEF Single
    <3> QED BY <3>1, <2>9, <2>10, <2>11, <2>12, <2>13
  <2>27. Idle(k) => Idle(f)
    <3> SUFFICES ASSUME Idle(k) PROVE \A h \in Ready(f) : h.run # "done"
      BY <2>17 DEF Idle
    <3>1. \A op \in Operations : k.pending[op] = 0
      BY DEF Idle
    <3> QED BY <3>1, <2>23 DEF Idle
  <2>28. \A t \in Timers : ~f.wait[t]
    BY <2>9, <2>10, <2>11, <2>12, <2>13, <2>14
  <2>29. f.expiry = k.expiry
    BY <2>9, <2>10, <2>11, <2>12, <2>13, <2>14
  <2> QED BY <2>6, <2>14, <2>17, <2>23, <2>24, <2>25, <2>26, <2>27, <2>28, <2>29 DEF Closed
<1> QED BY <1>1, <1>2, SocketFields

-----------------------------------------------------------------------------
(***************************************************************************)
(* The facts about a socket that the invariant is made of.                 *)
(***************************************************************************)
Unwatched(k) ==
  /\ \A t \in Timers : k.wait[t] => k.expiry[t] = "infinite"
  /\ \A h \in Ready(k) : h.run = "check" => h.ok = FALSE

Watched(k) ==
  \A t \in Timers : k.wait[t] \/ \E h \in Ready(k) : h.run = "check" /\ h.of = t

LateIn(k, t) ==
  \E op \in Operations :
    /\ TimerOf(op) = t
    /\ k.pending[op] > 0 \/ \E h \in Ready(k) : h.run = "done" /\ h.of = op

(* A deadline, unless it is one of T, has its operation. *)
DeadlinesBut(k, T) == \A t \in Timers \ T : k.expiry[t] # "infinite" => LateIn(k, t)

(* After the handshake the socket only reads and writes. *)
ReadsWrites(k) ==
  /\ k.pending["connect"] = 0 /\ k.pending["tls"] = 0
  /\ \A h \in Ready(k) : h.run = "done" => h.of \in {"read", "write"}

LEMMA CancelledKeeps ==
  ASSUME NEW k, NEW c, Cancelled(c, k)
  PROVE  /\ Watched(k) => Watched(c)
         /\ \A t \in Timers : LateIn(k, t) => LateIn(c, t)
         /\ ReadsWrites(k) => ReadsWrites(c)
         /\ Unwatched(k) /\ (\A t \in Timers : c.wait[t] => c.expiry[t] = k.expiry[t])
              => Unwatched(c)
<1>1. Watched(k) => Watched(c)
  BY DEF Cancelled, Watched
<1>2. \A t \in Timers : LateIn(k, t) => LateIn(c, t)
  BY DEF Cancelled, LateIn
<1>3. ReadsWrites(k) => ReadsWrites(c)
  BY DEF Cancelled, ReadsWrites
<1>4. Unwatched(k) /\ (\A t \in Timers : c.wait[t] => c.expiry[t] = k.expiry[t]) => Unwatched(c)
  BY DEF Cancelled, Unwatched
<1> QED BY <1>1, <1>2, <1>3, <1>4

LEMMA SetExpiryKeeps ==
  ASSUME NEW k \in Sockets, NEW t \in Timers, NEW e \in {"infinite", "future", "passed"}
  PROVE  LET s == SetExpiry(k, t, e)
         IN  /\ s \in Sockets /\ s.open = k.open
             /\ Single(k) => Single(s)
             /\ Idle(k) => Idle(s)
             /\ Unwatched(k) => Unwatched(s)
             /\ Watched(k) => Watched(s)
             /\ ReadsWrites(k) => ReadsWrites(s)
             /\ \A T : DeadlinesBut(k, T) => DeadlinesBut(s, T \cup {t})
             /\ e = "infinite" => \A T : DeadlinesBut(k, T) => DeadlinesBut(s, T \ {t})
<1>1. PICK s : s = SetExpiry(k, t, e)
  OBVIOUS
<1>2. /\ Cancelled(s, k) /\ s.expiry = [k.expiry EXCEPT ![t] = e] /\ ~s.wait[t]
      /\ Single(k) => Single(s)
      /\ Idle(k) => Idle(s)
  <2>1. /\ Cancelled(SetExpiry(k, t, e), k)
        /\ SetExpiry(k, t, e).expiry = [k.expiry EXCEPT ![t] = e]
        /\ ~SetExpiry(k, t, e).wait[t]
        /\ Single(k) => Single(SetExpiry(k, t, e))
        /\ Idle(k) => Idle(SetExpiry(k, t, e))
    BY SetExpiryFacts, ZenonT(60)
  <2> QED BY <2>1, <1>1, ZenonT(60)
<1>3. \A u \in Timers : s.expiry[u] = IF u = t THEN e ELSE k.expiry[u]
  BY <1>2, SocketFields
<1>4. s \in Sockets /\ s.open = k.open
  BY <1>2 DEF Cancelled
<1>5. /\ Unwatched(k) => Unwatched(s)
      /\ Watched(k) => Watched(s)
      /\ ReadsWrites(k) => ReadsWrites(s)
      /\ \A u \in Timers : LateIn(k, u) => LateIn(s, u)
  <2>1. \A u \in Timers : s.wait[u] => s.expiry[u] = k.expiry[u]
    BY <1>2, <1>3
  <2> QED BY <2>1, <1>2, CancelledKeeps
<1>6. \A T : DeadlinesBut(k, T) => DeadlinesBut(s, T \cup {t})
  BY <1>3, <1>5 DEF DeadlinesBut
<1>7. e = "infinite" => \A T : DeadlinesBut(k, T) => DeadlinesBut(s, T \ {t})
  BY <1>3, <1>5 DEF DeadlinesBut
<1> QED BY <1>1, <1>2, <1>4, <1>5, <1>6, <1>7

LEMMA StartKeeps ==
  ASSUME NEW k \in Sockets, NEW op \in Operations
  PROVE  LET s == Start(k, op)
         IN  /\ s \in Sockets /\ s.open = k.open
             /\ Idle(k) => Single(s)
             /\ Unwatched(k) => Unwatched(s)
             /\ Watched(k) => Watched(s)
             /\ ReadsWrites(k) /\ op \in {"read", "write"} => ReadsWrites(s)
             /\ \A T : DeadlinesBut(k, T) => DeadlinesBut(s, T \ {TimerOf(op)})
<1>1. PICK s : s = Start(k, op)
  OBVIOUS
<1>2. /\ s \in Sockets /\ s.open = k.open /\ s.expiry = k.expiry /\ s.wait = k.wait
      /\ s.pending = [k.pending EXCEPT ![op] = @ + 1]
      /\ Ready(s) = Ready(k)
      /\ Idle(k) => Single(s)
  BY <1>1, StartFacts
<1>3. (Unwatched(k) => Unwatched(s)) /\ (Watched(k) => Watched(s))
  BY <1>2 DEF Unwatched, Watched
<1>4. /\ k.pending \in [Operations -> Nat]
      /\ \A o \in Operations : s.pending[o] = IF o = op THEN k.pending[o] + 1 ELSE k.pending[o]
  BY <1>2, SocketFields
<1>5. ReadsWrites(k) /\ op \in {"read", "write"} => ReadsWrites(s)
  BY <1>2, <1>4 DEF ReadsWrites, Operations
<1>6. \A t \in Timers : LateIn(k, t) => LateIn(s, t)
  BY <1>2, <1>4 DEF LateIn
<1>7. LateIn(s, TimerOf(op))
  BY <1>4 DEF LateIn
<1>8. \A T : DeadlinesBut(k, T) => DeadlinesBut(s, T \ {TimerOf(op)})
  BY <1>2, <1>6, <1>7 DEF DeadlinesBut
<1> QED BY <1>1, <1>2, <1>3, <1>5, <1>8

(* An operation that begins with its deadline. *)
LEMMA BeginKeeps ==
  ASSUME NEW k \in Sockets, NEW op \in Operations, NEW e \in {"infinite", "future", "passed"}
  PROVE  LET s == Start(SetExpiry(k, TimerOf(op), e), op)
         IN  /\ s \in Sockets /\ s.open = k.open
             /\ Idle(k) => Single(s)
             /\ Unwatched(k) => Unwatched(s)
             /\ Watched(k) => Watched(s)
             /\ ReadsWrites(k) /\ op \in {"read", "write"} => ReadsWrites(s)
             /\ \A T : DeadlinesBut(k, T) => DeadlinesBut(s, T \ {TimerOf(op)})
<1>0. TimerOf(op) \in Timers
  BY DEF TimerOf, Timers, Operations
<1>1. PICK a : a = SetExpiry(k, TimerOf(op), e)
  OBVIOUS
<1>2. PICK s : s = Start(a, op)
  OBVIOUS
<1>3. /\ a \in Sockets /\ a.open = k.open
      /\ Idle(k) => Idle(a)
      /\ Unwatched(k) => Unwatched(a)
      /\ Watched(k) => Watched(a)
      /\ ReadsWrites(k) => ReadsWrites(a)
      /\ \A T : DeadlinesBut(k, T) => DeadlinesBut(a, T \cup {TimerOf(op)})
  BY <1>0, <1>1, SetExpiryKeeps
<1>4. /\ s \in Sockets /\ s.open = a.open
      /\ Idle(a) => Single(s)
      /\ Unwatched(a) => Unwatched(s)
      /\ Watched(a) => Watched(s)
      /\ ReadsWrites(a) /\ op \in {"read", "write"} => ReadsWrites(s)
      /\ \A T : DeadlinesBut(a, T) => DeadlinesBut(s, T \ {TimerOf(op)})
  BY <1>2, <1>3, StartKeeps
<1>5. \A T : DeadlinesBut(k, T) => DeadlinesBut(s, T \ {TimerOf(op)})
  <2>1. \A T : (T \cup {TimerOf(op)}) \ {TimerOf(op)} = T \ {TimerOf(op)}
    OBVIOUS
  <2> QED BY <2>1, <1>3, <1>4
<1> QED BY <1>1, <1>2, <1>3, <1>4, <1>5

LEMMA CloseKeeps ==
  ASSUME NEW k \in Sockets
  PROVE  LET c == close(k)
         IN  /\ c \in Sockets /\ c.open = FALSE
             /\ Single(k) => Single(c)
             /\ Idle(k) => Idle(c)
             /\ Unwatched(k) => Unwatched(c)
             /\ ReadsWrites(k) => ReadsWrites(c)
             /\ \A T : DeadlinesBut(k, T) => DeadlinesBut(c, T)
<1>1. PICK c : c = close(k)
  OBVIOUS
<1>2. Closed(c, k)
  BY <1>1, CloseFacts
<1>3. Unwatched(k) => Unwatched(c)
  BY <1>2 DEF Closed, Unwatched
<1>4. ReadsWrites(k) => ReadsWrites(c)
  <2> SUFFICES ASSUME ReadsWrites(k) PROVE ReadsWrites(c)
    OBVIOUS
  <2>1. "connect" \in Operations /\ "tls" \in Operations
    BY DEF Operations
  <2>2. c.pending["connect"] = 0 /\ c.pending["tls"] = 0
    <3>1. c.pending["connect"] \in Nat /\ c.pending["tls"] \in Nat
      BY <1>2, <2>1, SocketFields DEF Closed
    <3>2. ~(c.pending["connect"] > 0) /\ ~(c.pending["tls"] > 0)
      BY <1>2, <2>1 DEF Closed, ReadsWrites
    <3> QED BY <3>1, <3>2
  <2>3. \A h \in Ready(c) : h.run = "done" => h.of \in {"read", "write"}
    <3> SUFFICES ASSUME NEW h \in Ready(c), h.run = "done", h \notin Ready(k)
                 PROVE  h.of \in {"read", "write"}
      BY DEF ReadsWrites
    <3>1. h.of \in Operations /\ k.pending[h.of] > 0
      BY <1>2 DEF Closed
    <3> QED BY <3>1 DEF ReadsWrites, Operations
  <2> QED BY <2>2, <2>3 DEF ReadsWrites
<1>5. \A t \in Timers : LateIn(k, t) => LateIn(c, t)
  BY <1>2 DEF Closed, LateIn
<1>6. \A T : DeadlinesBut(k, T) => DeadlinesBut(c, T)
  BY <1>2, <1>5 DEF Closed, DeadlinesBut
<1> QED BY <1>1, <1>2, <1>3, <1>4, <1>6 DEF Closed

(* A socket that is deleted when nothing is outstanding leaves only the
   handlers of its timers. *)
LEMMA DestroyedKeeps ==
  ASSUME NEW k \in Sockets
  PROVE  /\ Destroyed(k) \in Sockets
         /\ Idle(k) => Idle(Destroyed(k))
         /\ Unwatched(k) => Unwatched(Destroyed(k))
<1>1. PICK c : c = close(k)
  OBVIOUS
<1>2. /\ c \in Sockets
      /\ Idle(k) => Idle(c)
      /\ Unwatched(k) => Unwatched(c)
  BY <1>1, CloseKeeps
<1>3. PICK d : d = CancelAll(c)
  OBVIOUS
<1>4. /\ Cancelled(d, c) /\ \A t \in Timers : ~d.wait[t]
      /\ Idle(c) => Idle(d)
  BY <1>2, <1>3, CancelAllFacts
<1>5. (Unwatched(c) => Unwatched(d)) /\ d \in Sockets
  BY <1>4, CancelledKeeps DEF Cancelled
<1> QED BY <1>1, <1>2, <1>3, <1>4, <1>5 DEF Destroyed

(* The first handler is taken. *)
LEMMA PoppedKeeps ==
  ASSUME sock \in Sockets, sock.ready # <<>>
  PROVE  LET h == Head(sock.ready)
         IN  /\ Popped \in Sockets /\ h \in Handlers /\ h \in Ready(sock)
             /\ Popped.open = sock.open /\ Popped.expiry = sock.expiry
             /\ Popped.pending = sock.pending /\ Popped.wait = sock.wait
             /\ Ready(sock) = Ready(Popped) \cup {h}
             /\ Single(sock) => Single(Popped)
             /\ Single(sock) /\ h.run = "done" => Idle(Popped)
             /\ Idle(sock) => Idle(Popped)
<1>1. PICK p : p = Popped
  OBVIOUS
<1>2. PICK h : h = Head(sock.ready)
  OBVIOUS
<1>3. /\ Tail(sock.ready) \in Seq(Handlers)
      /\ DOMAIN sock.ready = 1..Len(sock.ready) /\ Len(sock.ready) \in Nat \ {0}
      /\ DOMAIN Tail(sock.ready) = 1..(Len(sock.ready) - 1)
      /\ \A i \in 1..(Len(sock.ready) - 1) : Tail(sock.ready)[i] = sock.ready[i + 1]
      /\ h = sock.ready[1] /\ h \in Handlers
  BY <1>2, SocketFields, TailFacts
<1>4. /\ p \in Sockets /\ p.open = sock.open /\ p.expiry = sock.expiry
      /\ p.pending = sock.pending /\ p.wait = sock.wait /\ p.ready = Tail(sock.ready)
  BY <1>1, <1>3 DEF Popped, Sockets
<1>5. Ready(sock) = Ready(p) \cup {h}
  <2>1. \A i \in DOMAIN p.ready : i + 1 \in DOMAIN sock.ready /\ p.ready[i] = sock.ready[i + 1]
    BY <1>3, <1>4
  <2>2. Ready(p) \subseteq Ready(sock)
    BY <2>1 DEF Ready
  <2>3. h \in Ready(sock)
    BY <1>3 DEF Ready
  <2>4. \A i \in DOMAIN sock.ready : i # 1 => i - 1 \in DOMAIN p.ready /\ p.ready[i - 1] = sock.ready[i]
    BY <1>3, <1>4
  <2>5. \A i \in DOMAIN sock.ready : sock.ready[i] \in Ready(p) \/ sock.ready[i] = h
    BY <1>3, <2>4 DEF Ready
  <2> QED BY <2>2, <2>3, <2>5 DEF Ready
<1>6. Single(sock) => Single(p)
  <2> SUFFICES ASSUME Single(sock),
                      NEW i \in DOMAIN p.ready, NEW j \in DOMAIN p.ready,
                      p.ready[i].run = "done", p.ready[j].run = "done"
               PROVE  i = j
    <3>1. \A i \in DOMAIN p.ready : \E j \in DOMAIN sock.ready : p.ready[i] = sock.ready[j]
      BY <1>3, <1>4
    <3> QED BY <3>1, <1>4 DEF Single
  <2>1. /\ i + 1 \in DOMAIN sock.ready /\ j + 1 \in DOMAIN sock.ready
        /\ p.ready[i] = sock.ready[i + 1] /\ p.ready[j] = sock.ready[j + 1]
    BY <1>3, <1>4
  <2>2. i + 1 = j + 1
    BY <2>1 DEF Single
  <2> QED BY <2>2, <1>3, <1>4
<1>7. ASSUME Single(sock), h.run = "done" PROVE Idle(p)
  <2>1. 1 \in DOMAIN sock.ready
    BY <1>3
  <2>2. \A o \in Operations : p.pending[o] = 0
    BY <2>1, <1>3, <1>4, <1>7 DEF Single
  <2>3. \A i \in DOMAIN p.ready : p.ready[i].run # "done"
    <3> SUFFICES ASSUME NEW i \in DOMAIN p.ready, p.ready[i].run = "done" PROVE FALSE
      OBVIOUS
    <3>1. i + 1 \in DOMAIN sock.ready /\ p.ready[i] = sock.ready[i + 1] /\ i + 1 # 1
      BY <1>3, <1>4
    <3>2. i + 1 = 1
      BY <3>1, <2>1, <1>3, <1>7 DEF Single
    <3> QED BY <3>1, <3>2
  <2> QED BY <2>2, <2>3 DEF Idle, Ready
<1>8. Idle(sock) => Idle(p)
  BY <1>4, <1>5 DEF Idle
<1> QED BY <1>1, <1>2, <1>3, <1>4, <1>5, <1>6, <1>7, <1>8

(* What is then left, but for the handler. *)
LEMMA RunsKeeps ==
  ASSUME sock \in Sockets, NEW run, NEW of, Runs(run, of)
  PROVE  /\ Popped \in Sockets /\ Popped.open = sock.open
         /\ Head(sock.ready) \in Handlers /\ Head(sock.ready) \in Ready(sock)
         /\ Head(sock.ready).run = run /\ Head(sock.ready).of = of
         /\ Single(sock) => Single(Popped)
         /\ Single(sock) /\ run = "done" => Idle(Popped)
         /\ Unwatched(sock) => Unwatched(Popped)
         /\ ReadsWrites(sock) => ReadsWrites(Popped)
         /\ run = "done" /\ Watched(sock) => Watched(Popped)
         /\ run = "check" /\ DeadlinesBut(sock, {}) => DeadlinesBut(Popped, {})
         /\ run = "done" /\ DeadlinesBut(sock, {}) => DeadlinesBut(Popped, {TimerOf(of)})
<1>1. PICK p : p = Popped
  OBVIOUS
<1>2. PICK h : h = Head(sock.ready)
  OBVIOUS
<1>3. sock.ready # <<>> /\ h.run = run /\ h.of = of
  BY <1>2 DEF Runs
<1>4. /\ p \in Sockets /\ h \in Handlers /\ h \in Ready(sock)
      /\ p.open = sock.open /\ p.expiry = sock.expiry
      /\ p.pending = sock.pending /\ p.wait = sock.wait
      /\ Ready(sock) = Ready(p) \cup {h}
      /\ Single(sock) => Single(p)
      /\ Single(sock) /\ h.run = "done" => Idle(p)
  BY <1>1, <1>2, <1>3, PoppedKeeps
<1>5. Unwatched(sock) => Unwatched(p)
  BY <1>4 DEF Unwatched
<1>6. ReadsWrites(sock) => ReadsWrites(p)
  BY <1>4 DEF ReadsWrites
<1>7. run = "done" /\ Watched(sock) => Watched(p)
  BY <1>3, <1>4 DEF Watched
<1>8. run = "check" /\ DeadlinesBut(sock, {}) => DeadlinesBut(p, {})
  <2>1. run = "check" => \A t \in Timers : LateIn(sock, t) => LateIn(p, t)
    BY <1>3, <1>4 DEF LateIn
  <2> QED BY <2>1, <1>4 DEF DeadlinesBut
<1>9. run = "done" /\ DeadlinesBut(sock, {}) => DeadlinesBut(p, {TimerOf(of)})
  <2>1. \A t \in Timers \ {TimerOf(of)} : LateIn(sock, t) => LateIn(p, t)
    BY <1>3, <1>4 DEF LateIn
  <2> QED BY <2>1, <1>4 DEF DeadlinesBut
<1> QED BY <1>1, <1>2, <1>3, <1>4, <1>5, <1>6, <1>7, <1>8, <1>9

-----------------------------------------------------------------------------
(***************************************************************************)
(* The invariant.                                                          *)
(***************************************************************************)
Handshake == {"connect", "tls", "request", "response"}

TlsUnwatched == Tls => Unwatched(sock)

PlainWatched ==
  Alive /\ ~Tls /\ ~reopened /\ (sock.open \/ stage = "new") => Watched(sock)

DeadlinesHeld == Alive => DeadlinesBut(sock, {})

OneOperation ==
  /\ stage = "new" => Idle(sock) /\ sock.ready = <<>> /\ endpoints # 0
  /\ stage \in Handshake => Single(sock)
  /\ stage = "running" => ReadsWrites(sock)
  /\ ~Alive => \A h \in Ready(sock) : h.run = "check"

Touching ==
  /\ Alive => touched = {}
  /\ \E op \in {"connect", "read", "write"} : touched \subseteq {op, "check"}
  /\ Tls => "check" \notin touched

(* TypeOK, but for to_read, which nothing else depends on. *)
Typed ==
  /\ role \in Roles /\ stage \in Stages /\ sock \in Sockets
  /\ endpoints \in 0..MaxEndpoints
  /\ process_write \in BOOLEAN /\ reopened \in BOOLEAN
  /\ waiting \in 0..MaxWrites /\ requested \in 0..MaxWrites
  /\ touched \subseteq Operations \cup {"check", "done"}

IInv ==
  /\ Typed /\ waiting <= requested
  /\ TlsUnwatched /\ PlainWatched /\ DeadlinesHeld /\ OneOperation /\ Touching

LEMMA InitIInv == Init => IInv
<1> SUFFICES ASSUME Init PROVE IInv
  OBVIOUS
<1>1. /\ sock.open = FALSE /\ sock.expiry = [t \in Timers |-> "infinite"]
      /\ sock.wait = [t \in Timers |-> TRUE]
      /\ sock.pending = [op \in Operations |-> 0] /\ sock.ready = <<>>
      /\ sock \in Sockets
  <2>1. <<>> \in Seq(Handlers)
    OBVIOUS
  <2> QED BY <2>1 DEF Init, Sockets
<1>2. Typed
  <2>1. /\ endpoints \in 0..MaxEndpoints /\ waiting \in 0..MaxWrites
        /\ requested \in 0..MaxWrites
    BY SocketAssumption DEF Init
  <2>2. /\ role \in Roles /\ stage \in Stages /\ touched = {}
        /\ process_write \in BOOLEAN /\ reopened \in BOOLEAN
    BY DEF Init, Stages
  <2> QED BY <1>1, <2>1, <2>2 DEF Typed
<1>3. Ready(sock) = {}
  BY <1>1 DEF Ready
<1>4. Unwatched(sock) /\ Watched(sock) /\ DeadlinesBut(sock, {}) /\ Idle(sock)
  BY <1>1, <1>3 DEF Unwatched, Watched, DeadlinesBut, Idle
<1>5. OneOperation
  BY <1>1, <1>4, SocketAssumption DEF Init, OneOperation, Handshake, Alive
<1>6. Touching /\ waiting <= requested
  BY DEF Init, Touching
<1> QED BY <1>2, <1>4, <1>5, <1>6 DEF IInv, TlsUnwatched, PlainWatched, DeadlinesHeld

(* A step of a socket that goes on from one stage to the next. *)
LEMMA GoesOn ==
  ASSUME IInv, Alive, UNCHANGED <<role, touched>>,
         sock' \in Sockets, stage' \in Stages \ {"new", "destroyed", "aborted"},
         endpoints' \in 0..MaxEndpoints,
         process_write' \in BOOLEAN, waiting' \in Nat, requested' \in 0..MaxWrites,
         waiting' <= requested',
         reopened' \in BOOLEAN,
         Tls => Unwatched(sock'),
         ~Tls /\ ~reopened' /\ sock'.open => Watched(sock'),
         DeadlinesBut(sock', {}),
         stage' \in Handshake => Single(sock'),
         stage' = "running" => ReadsWrites(sock')
  PROVE  IInv'
<1>1. Typed'
  <2>1. waiting' \in 0..MaxWrites
    BY SocketAssumption
  <2> QED BY <2>1 DEF IInv, Typed
<1>2. Tls' = Tls /\ Alive'
  BY DEF Tls, Alive, Stages
<1>3. TlsUnwatched' /\ PlainWatched' /\ DeadlinesHeld'
  BY <1>2 DEF TlsUnwatched, PlainWatched, DeadlinesHeld
<1>4. OneOperation'
  BY <1>2 DEF OneOperation
<1>5. Touching'
  BY <1>2 DEF IInv, Touching
<1> QED BY <1>1, <1>3, <1>4, <1>5 DEF IInv

(* A step that ends the life of the owner. *)
LEMMA Ends ==
  ASSUME IInv, Alive,
         UNCHANGED <<role, endpoints, process_write, waiting, requested, reopened>>,
         stage' \in {"destroyed", "aborted"}, sock' \in Sockets,
         Idle(sock'), Tls => Unwatched(sock'),
         NEW op \in {"connect", "read", "write"}, touched' \subseteq {op}
  PROVE  IInv'
<1>1. Typed'
  BY DEF IInv, Typed, Stages, Operations
<1>2. Tls' = Tls /\ ~Alive'
  BY DEF Tls, Alive
<1>3. TlsUnwatched' /\ PlainWatched' /\ DeadlinesHeld'
  BY <1>2 DEF TlsUnwatched, PlainWatched, DeadlinesHeld
<1>4. OneOperation'
  <2>1. \A h \in Ready(sock') : h.run = "check"
    <3> SUFFICES ASSUME NEW h \in Ready(sock') PROVE h.run = "check"
      OBVIOUS
    <3>1. h.run # "done"
      BY DEF Idle
    <3>2. h \in Handlers
      <4>1. sock'.ready \in Seq(Handlers)
        BY SocketFields
      <4> QED BY <4>1 DEF Ready
    <3> QED BY <3>1, <3>2 DEF Handlers
  <2> QED BY <2>1, <1>2 DEF OneOperation, Handshake
<1>5. Touching'
  BY <1>2 DEF Touching
<1> QED BY <1>1, <1>3, <1>4, <1>5 DEF IInv

(* A step that takes the socket with its owner. *)
LEMMA Dies ==
  ASSUME IInv, Alive, NEW k \in Sockets,
         UNCHANGED <<role, endpoints, process_write, waiting, requested, reopened>>,
         stage' = "destroyed", sock' = Destroyed(k),
         Idle(k), Tls => Unwatched(k),
         NEW op \in {"connect", "read", "write"}, touched' \subseteq {op}
  PROVE  IInv'
<1>1. /\ sock' \in Sockets /\ Idle(sock')
      /\ Tls => Unwatched(sock')
  BY DestroyedKeeps
<1> QED BY <1>1, Ends

(* What the socket of an owner has in every stage, but for the deadlines of T. *)
Good(k, T) ==
  /\ k \in Sockets
  /\ Tls => Unwatched(k)
  /\ ~Tls /\ ~reopened /\ k.open => Watched(k)
  /\ DeadlinesBut(k, T)

LEMMA GoodSock == IInv /\ Alive => Good(sock, {})
BY DEF IInv, Typed, TlsUnwatched, PlainWatched, DeadlinesHeld, Good

LEMMA GoodInfinite ==
  ASSUME NEW k, NEW T, NEW t \in Timers, Good(k, T)
  PROVE  Good(SetExpiry(k, t, "infinite"), T \ {t})
<1>1. PICK s : s = SetExpiry(k, t, "infinite")
  OBVIOUS
<1>2. k \in Sockets
  BY DEF Good
<1>3. /\ s \in Sockets /\ s.open = k.open
      /\ Unwatched(k) => Unwatched(s)
      /\ Watched(k) => Watched(s)
      /\ DeadlinesBut(k, T) => DeadlinesBut(s, T \ {t})
  BY <1>1, <1>2, SetExpiryKeeps
<1> QED BY <1>1, <1>3 DEF Good

LEMMA GoodBegin ==
  ASSUME NEW k, NEW T, NEW op \in {"read", "write"}, NEW e \in {"infinite", "future"}, Good(k, T)
  PROVE  LET s == Start(SetExpiry(k, op, e), op)
         IN  /\ Good(s, T \ {op}) /\ s \in Sockets /\ s.open = k.open
             /\ Idle(k) => Single(s)
             /\ ReadsWrites(k) => ReadsWrites(s)
<1>1. PICK s : s = Start(SetExpiry(k, op, e), op)
  OBVIOUS
<1>2. k \in Sockets
  BY DEF Good
<1>3. TimerOf(op) = op /\ op \in Operations /\ e \in {"infinite", "future", "passed"}
  BY DEF TimerOf, Operations
<1>4. /\ s \in Sockets /\ s.open = k.open
      /\ Idle(k) => Single(s)
      /\ Unwatched(k) => Unwatched(s)
      /\ Watched(k) => Watched(s)
      /\ ReadsWrites(k) => ReadsWrites(s)
      /\ DeadlinesBut(k, T) => DeadlinesBut(s, T \ {op})
  BY <1>1, <1>2, <1>3, BeginKeeps
<1> QED BY <1>1, <1>4 DEF Good

LEMMA GoodClose ==
  ASSUME NEW k, NEW T, Good(k, T)
  PROVE  /\ Good(close(k), T) /\ close(k).open = FALSE
         /\ Single(k) => Single(close(k))
         /\ ReadsWrites(k) => ReadsWrites(close(k))
<1>1. PICK s : s = close(k)
  OBVIOUS
<1>2. k \in Sockets
  BY DEF Good
<1>3. /\ s \in Sockets /\ s.open = FALSE
      /\ Single(k) => Single(s)
      /\ Unwatched(k) => Unwatched(s)
      /\ ReadsWrites(k) => ReadsWrites(s)
      /\ DeadlinesBut(k, T) => DeadlinesBut(s, T)
  BY <1>1, <1>2, CloseKeeps
<1> QED BY <1>1, <1>3 DEF Good

(* The end of an operation. *)
LEMMA GoodDone ==
  ASSUME IInv, NEW op \in Operations, Runs("done", op)
  PROVE  /\ Good(Popped, {TimerOf(op)}) /\ Popped.open = sock.open
         /\ stage \in Handshake => Idle(Popped)
         /\ ReadsWrites(sock) => ReadsWrites(Popped)
         /\ stage = "running" \/ stage \in Handshake
         /\ op \in {"connect", "tls"} => stage \in Handshake
<1>1. PICK p : p = Popped
  OBVIOUS
<1>2. PICK h : h = Head(sock.ready)
  OBVIOUS
<1>3. sock \in Sockets /\ Alive /\ sock.ready # <<>> /\ stage \in Stages
  BY DEF IInv, Typed, Runs
<1>4. Good(sock, {})
  BY <1>3, GoodSock
<1>5. /\ p \in Sockets /\ p.open = sock.open
      /\ h \in Ready(sock) /\ h.run = "done" /\ h.of = op
      /\ Single(sock) => Idle(p)
      /\ Unwatched(sock) => Unwatched(p)
      /\ ReadsWrites(sock) => ReadsWrites(p)
      /\ Watched(sock) => Watched(p)
      /\ DeadlinesBut(sock, {}) => DeadlinesBut(p, {TimerOf(op)})
  BY <1>1, <1>2, <1>3, RunsKeeps
<1>6. Good(p, {TimerOf(op)})
  BY <1>4, <1>5 DEF Good
<1>7. stage = "running" \/ stage \in Handshake
  BY <1>3 DEF IInv, OneOperation, Alive, Stages, Handshake
<1>8. op \in {"connect", "tls"} => stage \in Handshake
  BY <1>5, <1>7 DEF IInv, OneOperation, ReadsWrites
<1>9. stage \in Handshake => Idle(p)
  BY <1>5 DEF IInv, OneOperation
<1> QED BY <1>1, <1>5, <1>6, <1>7, <1>8, <1>9

(* A step that changes the socket and the stage of a living owner, and no more. *)
LEMMA Moves ==
  ASSUME IInv, Alive, UNCHANGED owner_vars, Good(sock', {}),
         \/ stage' \in Handshake /\ Single(sock')
         \/ stage' = "running" /\ ReadsWrites(sock')
  PROVE  IInv'
<1>1. /\ stage' \in Stages \ {"new", "destroyed", "aborted"}
      /\ stage' \in Handshake => Single(sock')
      /\ stage' = "running" => ReadsWrites(sock')
  BY DEF Handshake, Stages
<1>2. /\ endpoints' \in 0..MaxEndpoints /\ requested' \in 0..MaxWrites
      /\ process_write' \in BOOLEAN /\ waiting' \in Nat /\ waiting' <= requested'
      /\ reopened' = reopened /\ reopened \in BOOLEAN
      /\ UNCHANGED <<role, touched>>
  BY SocketAssumption DEF IInv, Typed, owner_vars
<1>3. /\ sock' \in Sockets
      /\ Tls => Unwatched(sock')
      /\ ~Tls /\ ~reopened' /\ sock'.open => Watched(sock')
      /\ DeadlinesBut(sock', {})
  BY <1>2 DEF Good
<1> QED BY <1>1, <1>2, <1>3, GoesOn

(* A step within a stage. *)
LEMMA Stays ==
  ASSUME IInv, Alive, stage # "new", UNCHANGED <<stage, owner_vars>>, Good(sock', {}),
         Single(sock) => Single(sock'),
         ReadsWrites(sock) => ReadsWrites(sock')
  PROVE  IInv'
<1>1. stage \in Handshake \/ stage = "running"
  BY DEF IInv, Typed, Alive, Stages, Handshake
<1>2. \/ stage' \in Handshake /\ Single(sock')
      \/ stage' = "running" /\ ReadsWrites(sock')
  BY <1>1 DEF IInv, OneOperation
<1>3. UNCHANGED owner_vars
  OBVIOUS
<1> QED BY <1>2, <1>3, Moves

(* The owner begins. *)
LEMMA OpenedKeeps ==
  ASSUME NEW k \in Sockets
  PROVE  LET o == [k EXCEPT !.open = TRUE]
         IN  /\ o \in Sockets /\ o.open = TRUE
             /\ Idle(k) => Idle(o)
             /\ Unwatched(k) => Unwatched(o)
             /\ Watched(k) => Watched(o)
             /\ \A T : DeadlinesBut(k, T) => DeadlinesBut(o, T)
<1>1. PICK o : o = [k EXCEPT !.open = TRUE]
  OBVIOUS
<1>2. /\ o \in Sockets /\ o.open = TRUE /\ o.expiry = k.expiry /\ o.wait = k.wait
      /\ o.pending = k.pending /\ o.ready = k.ready
  BY <1>1 DEF Sockets
<1>3. Ready(o) = Ready(k)
  BY <1>2 DEF Ready
<1>4. Idle(k) => Idle(o)
  BY <1>2, <1>3 DEF Idle
<1>5. Unwatched(k) => Unwatched(o)
  BY <1>2, <1>3 DEF Unwatched
<1>6. Watched(k) => Watched(o)
  BY <1>2, <1>3 DEF Watched
<1>7. \A T : DeadlinesBut(k, T) => DeadlinesBut(o, T)
  BY <1>2, <1>3 DEF DeadlinesBut, LateIn
<1> QED BY <1>1, <1>2, <1>4, <1>5, <1>6, <1>7

LEMMA BeginsPreserve == IInv /\ (AcceptTls \/ AcceptPlain \/ Connect) => IInv'
<1> SUFFICES ASSUME IInv, stage = "new"
             PROVE  AcceptTls \/ AcceptPlain \/ Connect => IInv'
  BY DEF AcceptTls, AcceptPlain, Connect
<1>1. PICK o : o = [sock EXCEPT !.open = TRUE]
  OBVIOUS
<1>2. /\ sock \in Sockets /\ Idle(sock) /\ DeadlinesBut(sock, {}) /\ Alive
      /\ endpoints \in 0..MaxEndpoints /\ endpoints # 0
      /\ Tls => Unwatched(sock)
      /\ ~Tls /\ ~reopened => Watched(sock)
  BY DEF IInv, Typed, TlsUnwatched, PlainWatched, DeadlinesHeld, OneOperation, Alive
<1>3. /\ o \in Sockets /\ Idle(o) /\ DeadlinesBut(o, {})
      /\ Tls => Unwatched(o)
      /\ ~Tls /\ ~reopened => Watched(o)
  BY <1>1, <1>2, OpenedKeeps
<1>4. \A op \in Operations : LET s == Start(SetExpiry(o, TimerOf(op), "future"), op)
                             IN  Good(s, {}) /\ Single(s)
  <2> SUFFICES ASSUME NEW op \in Operations
               PROVE  LET s == Start(SetExpiry(o, TimerOf(op), "future"), op)
                      IN  Good(s, {}) /\ Single(s)
    OBVIOUS
  <2>1. PICK s : s = Start(SetExpiry(o, TimerOf(op), "future"), op)
    OBVIOUS
  <2>2. /\ s \in Sockets
        /\ Idle(o) => Single(s)
        /\ Unwatched(o) => Unwatched(s)
        /\ Watched(o) => Watched(s)
        /\ DeadlinesBut(o, {}) => DeadlinesBut(s, {} \ {TimerOf(op)})
    BY <1>3, <2>1, BeginKeeps
  <2>3. {} \ {TimerOf(op)} = {}
    OBVIOUS
  <2> QED BY <1>3, <2>1, <2>2, <2>3 DEF Good
<1>5. /\ "tls" \in Operations /\ "read" \in Operations /\ "connect" \in Operations
      /\ TimerOf("tls") = "connect" /\ TimerOf("read") = "read" /\ TimerOf("connect") = "connect"
  BY DEF Operations, TimerOf
<1>6. ASSUME AcceptTls PROVE IInv'
  <2>1. Good(sock', {}) /\ Single(sock') /\ stage' = "tls" /\ UNCHANGED owner_vars
    BY <1>1, <1>4, <1>5, <1>6 DEF AcceptTls
  <2> QED BY <2>1, <1>2, Moves DEF Handshake
<1>7. ASSUME AcceptPlain PROVE IInv'
  <2>1. Good(sock', {}) /\ Single(sock') /\ stage' = "request" /\ UNCHANGED owner_vars
    BY <1>1, <1>4, <1>5, <1>7 DEF AcceptPlain, read
  <2> QED BY <2>1, <1>2, Moves DEF Handshake
<1>8. ASSUME Connect PROVE IInv'
  <2>1. /\ Good(sock', {}) /\ Single(sock') /\ stage' = "connect" /\ endpoints' = endpoints - 1
        /\ UNCHANGED <<role, process_write, waiting, requested, reopened, touched>>
    BY <1>1, <1>4, <1>5, <1>8 DEF Connect
  <2>2. endpoints' \in 0..MaxEndpoints
    BY <1>2, <2>1, SocketAssumption
  <2>3. /\ waiting' \in Nat /\ waiting' <= requested' /\ requested' \in 0..MaxWrites
        /\ process_write' \in BOOLEAN /\ reopened' \in BOOLEAN
    BY <2>1 DEF IInv, Typed
  <2>4. /\ sock' \in Sockets /\ DeadlinesBut(sock', {})
        /\ Tls => Unwatched(sock')
        /\ ~Tls /\ ~reopened' /\ sock'.open => Watched(sock')
    BY <2>1 DEF Good
  <2>5. stage' \in Stages \ {"new", "destroyed", "aborted"} /\ stage' # "running"
    BY <2>1 DEF Stages
  <2> QED BY <2>1, <2>2, <2>3, <2>4, <2>5, <1>2, GoesOn
<1> QED BY <1>6, <1>7, <1>8

-----------------------------------------------------------------------------
(* The world. *)
LEMMA WorldPreserves ==
  ASSUME IInv, Alive
  PROVE  /\ \A t \in Timers : TimePasses(t) \/ WaitFires(t) => IInv'
         /\ \A op \in Operations, ok \in BOOLEAN : Complete(op, ok) => IInv'
<1>1. sock \in Sockets /\ Good(sock, {}) /\ DeadlinesBut(sock, {})
  BY GoodSock DEF Good
<1>2. stage = "new" => (\A t \in Timers : sock.expiry[t] = "infinite")
                         /\ \A op \in Operations : sock.pending[op] = 0
  <2>1. stage = "new" => \A t \in Timers : ~LateIn(sock, t)
    BY DEF IInv, OneOperation, Idle, LateIn
  <2> QED BY <1>1, <2>1 DEF IInv, OneOperation, Idle, DeadlinesBut
<1>3. ASSUME NEW t \in Timers, TimePasses(t) PROVE IInv'
  <2>1. /\ sock.expiry[t] = "future" /\ sock' = [sock EXCEPT !.expiry[t] = "passed"]
        /\ UNCHANGED <<stage, owner_vars>>
    BY <1>3 DEF TimePasses
  <2>2. [sock.expiry EXCEPT ![t] = "passed"] \in [Timers -> {"infinite", "future", "passed"}]
    BY <1>1, SocketFields
  <2>3. /\ sock'.open = sock.open /\ sock'.wait = sock.wait /\ sock'.pending = sock.pending
        /\ sock'.ready = sock.ready /\ sock'.expiry = [sock.expiry EXCEPT ![t] = "passed"]
        /\ sock' \in Sockets
    BY <1>1, <2>1, <2>2 DEF Sockets
  <2>4. \A u \in Timers : sock'.expiry[u] = IF u = t THEN "passed" ELSE sock.expiry[u]
    BY <1>1, <2>3, SocketFields
  <2>5. Ready(sock') = Ready(sock)
    BY <2>3 DEF Ready
  <2>6. Unwatched(sock) => Unwatched(sock')
    BY <2>1, <2>3, <2>4, <2>5 DEF Unwatched
  <2>7. Watched(sock) => Watched(sock')
    BY <2>3, <2>5 DEF Watched
  <2>8. DeadlinesBut(sock', {})
    <3>1. \A u \in Timers : LateIn(sock, u) => LateIn(sock', u)
      BY <2>3, <2>5 DEF LateIn
    <3> QED BY <3>1, <1>1, <2>1, <2>4 DEF DeadlinesBut
  <2>9. Good(sock', {})
    BY <1>1, <2>3, <2>6, <2>7, <2>8 DEF Good
  <2>10. (Single(sock) => Single(sock')) /\ (ReadsWrites(sock) => ReadsWrites(sock'))
    BY <2>3, <2>5 DEF Single, ReadsWrites
  <2>11. stage # "new"
    BY <1>2, <2>1
  <2> QED BY <2>1, <2>9, <2>10, <2>11, Stays
<1>4. ASSUME NEW t \in Timers, WaitFires(t) PROVE IInv'
  <2> DEFINE e == Check(t, TRUE)
  <2>1. /\ sock.wait[t] /\ sock.expiry[t] = "passed"
        /\ sock' = [sock EXCEPT !.wait[t] = FALSE, !.ready = Append(@, e)]
        /\ UNCHANGED <<stage, owner_vars>>
    BY <1>4 DEF WaitFires
  <2>2. e \in Handlers /\ e.run = "check" /\ e.of = t
    BY HandlersTyped
  <2> HIDE DEF e
  <2>3. /\ Append(sock.ready, e) \in Seq(Handlers)
        /\ DOMAIN Append(sock.ready, e) = 1..(Len(sock.ready) + 1)
        /\ DOMAIN sock.ready = 1..Len(sock.ready) /\ Len(sock.ready) \in Nat
        /\ \A i \in 1..Len(sock.ready) : Append(sock.ready, e)[i] = sock.ready[i]
        /\ Append(sock.ready, e)[Len(sock.ready) + 1] = e
    BY <1>1, <2>2, SocketFields, AppendFacts
  <2>4. [sock.wait EXCEPT ![t] = FALSE] \in [Timers -> BOOLEAN]
    BY <1>1, SocketFields
  <2>5. /\ sock'.open = sock.open /\ sock'.wait = [sock.wait EXCEPT ![t] = FALSE]
        /\ sock'.pending = sock.pending /\ sock'.expiry = sock.expiry
        /\ sock'.ready = Append(sock.ready, e)
    BY <1>1, <2>1 DEF Sockets
  <2>6. sock' \in Sockets
    <3>1. sock' = [open |-> sock'.open, expiry |-> sock'.expiry, wait |-> sock'.wait,
                   pending |-> sock'.pending, ready |-> sock'.ready]
      BY <1>1, <2>1 DEF Sockets
    <3> QED BY <3>1, <1>1, <2>3, <2>4, <2>5, SocketFields DEF Sockets
  <2>7. Ready(sock') = Ready(sock) \cup {e}
    <3>1. \A i \in DOMAIN sock'.ready : sock'.ready[i] \in Ready(sock) \/ sock'.ready[i] = e
      <4> SUFFICES ASSUME NEW i \in DOMAIN sock'.ready, i # Len(sock.ready) + 1
                   PROVE  sock'.ready[i] \in Ready(sock)
        BY <2>3, <2>5
      <4>1. i \in DOMAIN sock.ready /\ sock'.ready[i] = sock.ready[i]
        BY <2>3, <2>5
      <4> QED BY <4>1 DEF Ready
    <3>2. \A i \in DOMAIN sock.ready : i \in DOMAIN sock'.ready /\ sock'.ready[i] = sock.ready[i]
      BY <2>3, <2>5
    <3>3. Len(sock.ready) + 1 \in DOMAIN sock'.ready /\ sock'.ready[Len(sock.ready) + 1] = e
      BY <2>3, <2>5
    <3>4. Ready(sock) \subseteq Ready(sock')
      BY <3>2 DEF Ready
    <3>5. e \in Ready(sock')
      BY <3>3 DEF Ready
    <3> QED BY <3>1, <3>4, <3>5 DEF Ready
  <2>8. ~Tls
    BY <1>1, <2>1 DEF Good, Unwatched
  <2>9. Watched(sock) => Watched(sock')
    <3>1. \A u \in Timers : u # t => sock'.wait[u] = sock.wait[u]
      BY <1>1, <2>5, SocketFields
    <3> QED BY <3>1, <2>2, <2>7 DEF Watched
  <2>10. DeadlinesBut(sock', {})
    BY <1>1, <2>5, <2>7 DEF DeadlinesBut, LateIn
  <2>11. Good(sock', {})
    BY <1>1, <2>5, <2>6, <2>8, <2>9, <2>10 DEF Good
  <2>12. Single(sock) => Single(sock')
    BY <2>2, <2>3, <2>5 DEF Single
  <2>13. ReadsWrites(sock) => ReadsWrites(sock')
    BY <2>2, <2>5, <2>7 DEF ReadsWrites
  <2>14. stage # "new"
    BY <1>2, <2>1
  <2> QED BY <2>1, <2>11, <2>12, <2>13, <2>14, Stays
<1>5. ASSUME NEW op \in Operations, NEW ok \in BOOLEAN, Complete(op, ok) PROVE IInv'
  <2> DEFINE e == Done(op, ok)
  <2>1. /\ sock.pending[op] > 0
        /\ sock' = [sock EXCEPT !.pending[op] = @ - 1, !.ready = Append(@, e)]
        /\ UNCHANGED <<stage, owner_vars>>
    BY <1>5 DEF Complete
  <2>2. e \in Handlers /\ e.run = "done" /\ e.of = op
    BY HandlersTyped
  <2> HIDE DEF e
  <2>3. /\ Append(sock.ready, e) \in Seq(Handlers)
        /\ DOMAIN Append(sock.ready, e) = 1..(Len(sock.ready) + 1)
        /\ DOMAIN sock.ready = 1..Len(sock.ready) /\ Len(sock.ready) \in Nat
        /\ \A i \in 1..Len(sock.ready) : Append(sock.ready, e)[i] = sock.ready[i]
        /\ Append(sock.ready, e)[Len(sock.ready) + 1] = e
    BY <1>1, <2>2, SocketFields, AppendFacts
  <2>4. [sock.pending EXCEPT ![op] = @ - 1] \in [Operations -> Nat]
    BY <1>1, <2>1, SocketFields
  <2>5. /\ sock'.open = sock.open /\ sock'.wait = sock.wait
        /\ sock'.pending = [sock.pending EXCEPT ![op] = @ - 1] /\ sock'.expiry = sock.expiry
        /\ sock'.ready = Append(sock.ready, e)
    BY <1>1, <2>1 DEF Sockets
  <2>6. sock' \in Sockets
    <3>1. sock' = [open |-> sock'.open, expiry |-> sock'.expiry, wait |-> sock'.wait,
                   pending |-> sock'.pending, ready |-> sock'.ready]
      BY <1>1, <2>1 DEF Sockets
    <3> QED BY <3>1, <1>1, <2>3, <2>4, <2>5, SocketFields DEF Sockets
  <2>7. Ready(sock') = Ready(sock) \cup {e}
    <3>1. \A i \in DOMAIN sock'.ready : sock'.ready[i] \in Ready(sock) \/ sock'.ready[i] = e
      <4> SUFFICES ASSUME NEW i \in DOMAIN sock'.ready, i # Len(sock.ready) + 1
                   PROVE  sock'.ready[i] \in Ready(sock)
        BY <2>3, <2>5
      <4>1. i \in DOMAIN sock.ready /\ sock'.ready[i] = sock.ready[i]
        BY <2>3, <2>5
      <4> QED BY <4>1 DEF Ready
    <3>2. \A i \in DOMAIN sock.ready : i \in DOMAIN sock'.ready /\ sock'.ready[i] = sock.ready[i]
      BY <2>3, <2>5
    <3>3. Len(sock.ready) + 1 \in DOMAIN sock'.ready /\ sock'.ready[Len(sock.ready) + 1] = e
      BY <2>3, <2>5
    <3>4. Ready(sock) \subseteq Ready(sock')
      BY <3>2 DEF Ready
    <3>5. e \in Ready(sock')
      BY <3>3 DEF Ready
    <3> QED BY <3>1, <3>4, <3>5 DEF Ready
  <2>8. /\ sock.pending \in [Operations -> Nat]
        /\ \A o \in Operations :
             sock'.pending[o] = IF o = op THEN sock.pending[o] - 1 ELSE sock.pending[o]
    BY <1>1, <2>5, SocketFields
  <2>9. (Unwatched(sock) => Unwatched(sock')) /\ (Watched(sock) => Watched(sock'))
    BY <2>2, <2>5, <2>7 DEF Unwatched, Watched
  <2>10. DeadlinesBut(sock', {})
    <3>1. \A t \in Timers : LateIn(sock, t) => LateIn(sock', t)
      BY <2>2, <2>7, <2>8 DEF LateIn
    <3> QED BY <3>1, <1>1, <2>5 DEF DeadlinesBut
  <2>11. Good(sock', {})
    BY <1>1, <2>5, <2>6, <2>9, <2>10 DEF Good
  <2>12. ASSUME Single(sock) PROVE Single(sock')
    <3>1. \A i \in DOMAIN sock.ready : sock.ready[i].run # "done"
      BY <2>1, <2>12 DEF Single
    <3>2. \A i \in DOMAIN sock'.ready : sock'.ready[i].run = "done" => i = Len(sock.ready) + 1
      BY <3>1, <2>3, <2>5
    <3>3. \A o \in Operations : sock'.pending[o] = 0
      <4> SUFFICES ASSUME NEW o \in Operations PROVE sock'.pending[o] = 0
        OBVIOUS
      <4>1. CASE o = op
        BY <4>1, <2>1, <2>8, <2>12 DEF Single
      <4>2. CASE o # op
        <5>1. ~(sock.pending[o] > 0) /\ sock.pending[o] \in Nat
          BY <4>2, <2>1, <2>8, <2>12 DEF Single
        <5> QED BY <5>1, <4>2, <2>8
      <4> QED BY <4>1, <4>2
    <3> QED BY <3>2, <3>3 DEF Single
  <2>13. ReadsWrites(sock) => ReadsWrites(sock')
    <3> SUFFICES ASSUME ReadsWrites(sock) PROVE ReadsWrites(sock')
      OBVIOUS
    <3>1. op \in {"read", "write"}
      BY <2>1 DEF ReadsWrites, Operations
    <3> QED BY <3>1, <2>2, <2>7, <2>8 DEF ReadsWrites, Operations
  <2>14. stage # "new"
    BY <1>2, <2>1
  <2> QED BY <2>1, <2>11, <2>12, <2>13, <2>14, Stays
<1> QED BY <1>3, <1>4, <1>5

(* The handlers of the timers. *)
LEMMA CheckPreserves == ASSUME NEW t \in Timers PROVE IInv /\ checkDeadline(t) => IInv'
<1> SUFFICES ASSUME IInv, checkDeadline(t) PROVE IInv'
  OBVIOUS
<1>1. PICK p : p = Popped
  OBVIOUS
<1>2. PICK h : h = Head(sock.ready)
  OBVIOUS
<1>3. Runs("check", t) /\ Alive /\ UNCHANGED <<stage, owner_vars>> /\ sock.ready # <<>>
  BY DEF checkDeadline, Runs
<1>4. sock \in Sockets /\ Good(sock, {}) /\ stage # "new"
  BY <1>3, GoodSock DEF Good, IInv, OneOperation
<1>5. /\ p \in Sockets /\ p.open = sock.open
      /\ h \in Ready(sock) /\ h.run = "check" /\ h.of = t
      /\ Single(sock) => Single(p)
      /\ Unwatched(sock) => Unwatched(p)
      /\ ReadsWrites(sock) => ReadsWrites(p)
      /\ DeadlinesBut(p, {})
  BY <1>1, <1>2, <1>3, <1>4, RunsKeeps DEF Good
<1>6. CASE Tls
  <2>1. h.ok = FALSE
    BY <1>4, <1>5, <1>6 DEF Good, Unwatched
  <2>2. sock' = p
    BY <1>1, <1>2, <1>6, <2>1 DEF checkDeadline, Ok
  <2>3. Good(sock', {})
    BY <1>4, <1>5, <1>6, <2>2 DEF Good
  <2> QED BY <2>2, <2>3, <1>3, <1>4, <1>5, Stays
<1>7. CASE ~Tls
  <2>1. PICK e : e = Expired(p, t)
    OBVIOUS
  <2>2. sock' = WaitAgain(e, t)
    BY <1>1, <1>7, <2>1 DEF checkDeadline
  <2>3. /\ e \in Sockets /\ DeadlinesBut(e, {})
        /\ Single(p) => Single(e)
        /\ ReadsWrites(p) => ReadsWrites(e)
        /\ e.open => e = p
    <3>1. CASE p.expiry[t] # "passed"
      <4>1. e = p
        BY <2>1, <3>1 DEF Expired
      <4> QED BY <4>1, <1>5
    <3>2. CASE p.expiry[t] = "passed"
      <4>1. PICK c : c = close(p)
        OBVIOUS
      <4>2. /\ c \in Sockets /\ c.open = FALSE
            /\ Single(p) => Single(c)
            /\ ReadsWrites(p) => ReadsWrites(c)
            /\ DeadlinesBut(c, {})
        BY <4>1, <1>5, CloseKeeps
      <4>3. e = SetExpiry(c, t, "infinite")
        BY <2>1, <3>2, <4>1 DEF Expired
      <4>4. /\ e \in Sockets /\ e.open = c.open
            /\ Single(c) => Single(e)
            /\ ReadsWrites(c) => ReadsWrites(e)
            /\ DeadlinesBut(e, {} \ {t})
        BY <4>2, <4>3, SetExpiryKeeps
      <4>5. {} \ {t} = {}
        OBVIOUS
      <4> QED BY <4>2, <4>4, <4>5
    <3> QED BY <3>1, <3>2
  <2>4. CASE ~e.open
    <3>1. sock' = e
      BY <2>2, <2>4 DEF WaitAgain
    <3>2. Good(sock', {})
      BY <3>1, <1>7, <2>3, <2>4 DEF Good
    <3> QED BY <3>1, <3>2, <2>3, <1>3, <1>4, <1>5, Stays
  <2>5. CASE e.open
    <3>1. sock' = [p EXCEPT !.wait[t] = TRUE] /\ p.open
      BY <2>2, <2>3, <2>5 DEF WaitAgain
    <3>2. [p.wait EXCEPT ![t] = TRUE] \in [Timers -> BOOLEAN]
      BY <1>5, SocketFields
    <3>3. /\ sock' \in Sockets /\ sock'.open = p.open /\ sock'.expiry = p.expiry
          /\ sock'.pending = p.pending /\ sock'.ready = p.ready
          /\ sock'.wait = [p.wait EXCEPT ![t] = TRUE]
      BY <3>1, <3>2, <1>5 DEF Sockets
    <3>4. Ready(sock') = Ready(p)
      BY <3>3 DEF Ready
    <3>5. ~reopened => Watched(sock')
      <4>1. ~reopened => Watched(sock)
        BY <3>1, <1>4, <1>5, <1>7 DEF Good
      <4>2. Ready(sock) = Ready(p) \cup {h} /\ p.wait = sock.wait
        BY <1>1, <1>2, <1>3, <1>4, PoppedKeeps
      <4>3. \A u \in Timers : sock'.wait[u] = IF u = t THEN TRUE ELSE p.wait[u]
        BY <3>3, <1>5, SocketFields
      <4> QED BY <4>1, <4>2, <4>3, <3>4, <1>5 DEF Watched
    <3>6. DeadlinesBut(sock', {})
      BY <3>3, <3>4, <1>5 DEF DeadlinesBut, LateIn
    <3>7. Good(sock', {})
      BY <3>3, <3>5, <3>6, <1>7 DEF Good
    <3>8. Single(p) => Single(sock')
      BY <3>3 DEF Single
    <3>9. ReadsWrites(p) => ReadsWrites(sock')
      BY <3>3, <3>4 DEF ReadsWrites
    <3> QED BY <3>7, <3>8, <3>9, <1>3, <1>4, <1>5, Stays
  <2> QED BY <2>4, <2>5
<1> QED BY <1>6, <1>7

(* The handlers of the handshake. *)
LEMMA FailPreserves ==
  ASSUME IInv, NEW op \in Operations, Runs("done", op), stage \in Handshake, Fail(op)
  PROVE  IInv'
<1>1. Good(Popped, {TimerOf(op)}) /\ Idle(Popped) /\ Alive
  BY GoodDone DEF Runs
<1>2. Popped \in Sockets /\ (Tls => Unwatched(Popped))
  BY <1>1 DEF Good
<1>3. touched = {}
  BY <1>1 DEF IInv, Touching
<1>4. \E o \in {"connect", "read", "write"} : touched' \subseteq {o}
  <2>1. touched' = {op} \ {"tls"}
    BY <1>3 DEF Fail, EndsWithCallback
  <2>2. CASE op = "tls"
    BY <2>1, <2>2
  <2>3. CASE op # "tls"
    BY <2>1, <2>3 DEF Operations
  <2> QED BY <2>2, <2>3
<1> QED BY <1>1, <1>2, <1>4, Dies DEF Fail

LEMMA ConnectDonePreserves == IInv /\ ConnectDone => IInv'
<1> SUFFICES ASSUME IInv, ConnectDone PROVE IInv'
  OBVIOUS
<1>1. Runs("done", "connect") /\ Alive /\ "connect" \in Operations /\ TimerOf("connect") = "connect"
  BY DEF ConnectDone, Runs, Operations, TimerOf
<1>2. /\ Good(Popped, {"connect"}) /\ Popped.open = sock.open
      /\ Idle(Popped) /\ stage \in Handshake
  BY <1>1, GoodDone
<1>3. ASSUME Proceed(write(Popped, "future"), "connect", "request"), UNCHANGED owner_vars
      PROVE  IInv'
  <2>1. PICK w : w = write(Popped, "future")
    OBVIOUS
  <2>2. Good(w, {"connect"} \ {"write"}) /\ w \in Sockets /\ Single(w)
    BY <2>1, <1>2, GoodBegin DEF write
  <2>3. sock' = SetExpiry(w, "connect", "infinite") /\ stage' = "request"
    BY <1>3, <2>1 DEF Proceed
  <2>4. Good(sock', ({"connect"} \ {"write"}) \ {"connect"}) /\ Single(sock')
    BY <2>2, <2>3, GoodInfinite, SetExpiryKeeps DEF Timers
  <2>5. ({"connect"} \ {"write"}) \ {"connect"} = {}
    OBVIOUS
  <2> QED BY <2>3, <2>4, <2>5, <1>1, <1>3, Moves DEF Handshake
<1>4. ASSUME endpoints > 0, sock' = Start([Popped EXCEPT !.open = TRUE], "connect"),
             endpoints' = endpoints - 1, reopened' = (reopened \/ ~sock.open),
             UNCHANGED <<role, stage, process_write, waiting, requested, touched>>
      PROVE  IInv'
  <2>1. PICK o : o = [Popped EXCEPT !.open = TRUE]
    OBVIOUS
  <2>2. /\ Popped \in Sockets /\ DeadlinesBut(Popped, {"connect"})
        /\ Tls => Unwatched(Popped)
        /\ ~Tls /\ ~reopened /\ Popped.open => Watched(Popped)
    BY <1>2 DEF Good
  <2>3. /\ o \in Sockets /\ Idle(o) /\ DeadlinesBut(o, {"connect"})
        /\ Tls => Unwatched(o)
        /\ ~Tls /\ ~reopened /\ Popped.open => Watched(o)
    BY <1>2, <2>1, <2>2, OpenedKeeps
  <2>4. sock' = Start(o, "connect")
    BY <1>4, <2>1
  <2>5. /\ sock' \in Sockets /\ Single(sock') /\ DeadlinesBut(sock', {"connect"} \ {"connect"})
        /\ Tls => Unwatched(sock')
        /\ ~Tls /\ ~reopened /\ Popped.open => Watched(sock')
    BY <1>1, <2>3, <2>4, StartKeeps
  <2>6. {"connect"} \ {"connect"} = {}
    OBVIOUS
  <2>7. /\ reopened \in BOOLEAN /\ sock.open \in BOOLEAN
        /\ reopened' \in BOOLEAN /\ (~reopened' => ~reopened /\ sock.open)
    BY <1>4, SocketFields DEF IInv, Typed
  <2>8. endpoints' \in 0..MaxEndpoints
    BY <1>4, SocketAssumption DEF IInv, Typed
  <2>9. /\ waiting' \in Nat /\ waiting' <= requested' /\ requested' \in 0..MaxWrites
        /\ process_write' \in BOOLEAN /\ UNCHANGED <<role, touched>>
    BY <1>4 DEF IInv, Typed
  <2>10. stage' \in Stages \ {"new", "destroyed", "aborted"} /\ stage' # "running"
    BY <1>2, <1>4 DEF Handshake, Stages
  <2> QED BY <1>1, <1>2, <2>5, <2>6, <2>7, <2>8, <2>9, <2>10, GoesOn
<1>5. ASSUME Fail("connect") PROVE IInv'
  BY <1>1, <1>2, <1>5, FailPreserves
<1> QED BY <1>3, <1>4, <1>5 DEF ConnectDone

LEMMA ConnectThrowsPreserves == IInv /\ ConnectThrows => IInv'
<1> SUFFICES ASSUME IInv, ConnectThrows PROVE IInv'
  OBVIOUS
<1>1. Runs("done", "connect") /\ Alive /\ "connect" \in Operations
  BY DEF ConnectThrows, Runs, Operations
<1>2. Good(Popped, {TimerOf("connect")}) /\ Idle(Popped)
  BY <1>1, GoodDone
<1>3. Popped \in Sockets /\ (Tls => Unwatched(Popped))
  BY <1>2 DEF Good
<1>4. /\ stage' = "aborted" /\ sock' = Popped /\ touched' \subseteq {"read"}
      /\ UNCHANGED <<role, endpoints, process_write, waiting, requested, reopened>>
  BY <1>1 DEF ConnectThrows, owner_vars, IInv, Touching
<1> QED BY <1>1, <1>2, <1>3, <1>4, Ends

LEMMA TlsDonePreserves == IInv /\ TlsDone => IInv'
<1> SUFFICES ASSUME IInv, TlsDone PROVE IInv'
  OBVIOUS
<1>1. Runs("done", "tls") /\ Alive /\ "tls" \in Operations /\ TimerOf("tls") = "connect"
  BY DEF TlsDone, Runs, Operations, TimerOf
<1>2. Good(Popped, {"connect"}) /\ Idle(Popped) /\ stage \in Handshake
  BY <1>1, GoodDone
<1>3. ASSUME sock' = read(SetExpiry(Popped, "connect", "infinite"), "future"),
             stage' = "request", UNCHANGED owner_vars
      PROVE  IInv'
  <2>1. PICK e : e = SetExpiry(Popped, "connect", "infinite")
    OBVIOUS
  <2>2. Popped \in Sockets
    BY <1>2 DEF Good
  <2>3. Good(e, {"connect"} \ {"connect"}) /\ Idle(e)
    BY <1>2, <2>1, <2>2, GoodInfinite, SetExpiryKeeps DEF Timers
  <2>4. sock' = Start(SetExpiry(e, "read", "future"), "read")
    BY <1>3, <2>1 DEF read
  <2>5. Good(sock', ({"connect"} \ {"connect"}) \ {"read"}) /\ Single(sock')
    BY <2>3, <2>4, GoodBegin
  <2>6. ({"connect"} \ {"connect"}) \ {"read"} = {}
    OBVIOUS
  <2> QED BY <2>5, <2>6, <1>1, <1>3, Moves DEF Handshake
<1>4. ASSUME Fail("tls") PROVE IInv'
  BY <1>1, <1>2, <1>4, FailPreserves
<1> QED BY <1>3, <1>4 DEF TlsDone

(* A message of the handshake has been read, or written, and the next is to
   be, or the handshake is over. *)
LEMMA ProceedPreserves ==
  ASSUME IInv, NEW done \in {"read", "write"}, Runs("done", done), stage \in Handshake,
         UNCHANGED owner_vars, NEW next
  PROVE  /\ \A op \in {"read", "write"} : next \in Handshake
              /\ Proceed(Start(SetExpiry(Popped, op, "future"), op), done, next) => IInv'
         /\ Proceed(Popped, done, "running") => IInv'
<1>1. Alive /\ done \in Operations /\ TimerOf(done) = done /\ done \in Timers
  BY DEF Runs, Operations, TimerOf, Timers
<1>2. Good(Popped, {done}) /\ Idle(Popped) /\ Popped \in Sockets
  BY <1>1, GoodDone DEF Good
<1>3. ASSUME NEW op \in {"read", "write"}, next \in Handshake,
             Proceed(Start(SetExpiry(Popped, op, "future"), op), done, next)
      PROVE  IInv'
  <2>1. PICK w : w = Start(SetExpiry(Popped, op, "future"), op)
    OBVIOUS
  <2>2. Good(w, {done} \ {op}) /\ w \in Sockets /\ Single(w)
    BY <2>1, <1>2, GoodBegin
  <2>3. sock' = SetExpiry(w, done, "infinite") /\ stage' = next
    BY <1>3, <2>1 DEF Proceed
  <2>4. Good(sock', ({done} \ {op}) \ {done}) /\ Single(sock')
    BY <2>2, <2>3, <1>1, GoodInfinite, SetExpiryKeeps
  <2>5. ({done} \ {op}) \ {done} = {}
    OBVIOUS
  <2> QED BY <2>3, <2>4, <2>5, <1>1, <1>3, Moves
<1>4. ASSUME Proceed(Popped, done, "running") PROVE IInv'
  <2>1. sock' = SetExpiry(Popped, done, "infinite") /\ stage' = "running"
    BY <1>4 DEF Proceed
  <2>2. Good(sock', {done} \ {done}) /\ Idle(sock')
    BY <2>1, <1>1, <1>2, GoodInfinite, SetExpiryKeeps
  <2>3. {done} \ {done} = {}
    OBVIOUS
  <2>4. ReadsWrites(sock')
    BY <2>2 DEF Idle, ReadsWrites, Operations
  <2> QED BY <2>1, <2>2, <2>3, <2>4, <1>1, Moves
<1> QED BY <1>3, <1>4

LEMMA HandshakePreserves == IInv /\ (ReadHandshake \/ WriteHandshake) => IInv'
<1> SUFFICES ASSUME IInv PROVE ReadHandshake \/ WriteHandshake => IInv'
  OBVIOUS
<1>0. "request" \in Handshake /\ "response" \in Handshake /\ "read" \in Operations /\ "write" \in Operations
  BY DEF Handshake, Operations
<1>1. ASSUME ReadHandshake PROVE IInv'
  <2>1. Runs("done", "read") /\ stage \in Handshake
    BY <1>0, <1>1 DEF ReadHandshake
  <2>2. CASE Fail("read")
    BY <1>0, <2>1, <2>2, FailPreserves
  <2>3. CASE /\ UNCHANGED owner_vars
             /\ \/ Proceed(Start(SetExpiry(Popped, "read", "future"), "read"), "read", "request")
                \/ Proceed(Start(SetExpiry(Popped, "write", "future"), "write"), "read", "response")
                \/ Proceed(Popped, "read", "running")
    BY <1>0, <2>1, <2>3, ProceedPreserves
  <2> QED BY <1>1, <2>2, <2>3 DEF ReadHandshake, read, write
<1>2. ASSUME WriteHandshake PROVE IInv'
  <2>1. Runs("done", "write") /\ stage \in Handshake
    BY <1>0, <1>2 DEF WriteHandshake
  <2>2. CASE Fail("write")
    BY <1>0, <2>1, <2>2, FailPreserves
  <2>3. CASE /\ UNCHANGED owner_vars
             /\ \/ Proceed(Start(SetExpiry(Popped, "read", "future"), "read"), "write", "response")
                \/ Proceed(Popped, "write", "running")
    BY <1>0, <2>1, <2>3, ProceedPreserves
  <2> QED BY <1>2, <2>2, <2>3 DEF WriteHandshake, read
<1> QED BY <1>1, <1>2

-----------------------------------------------------------------------------
(* After the handshake. *)
LEMMA RunningPreserves ==
  IInv /\ (onReceiveFinish \/ readAsync \/ receivePacket \/ writeAsync \/ WriteDone \/ closeAsync) => IInv'
<1> SUFFICES ASSUME IInv, stage = "running"
             PROVE  onReceiveFinish \/ readAsync \/ receivePacket \/ writeAsync \/ WriteDone \/ closeAsync => IInv'
  BY DEF onReceiveFinish, readAsync, receivePacket, writeAsync, WriteDone, closeAsync
<1>1. Alive /\ Good(sock, {}) /\ ReadsWrites(sock) /\ sock \in Sockets
  BY GoodSock DEF Alive, Good, IInv, OneOperation
<1>2. \A op : {} \ {op} = {}
  OBVIOUS
<1>3. ASSUME readAsync PROVE IInv'
  <2>1. sock' = Start(SetExpiry(sock, "read", "infinite"), "read") /\ UNCHANGED <<stage, owner_vars>>
    BY <1>3 DEF readAsync, read
  <2>2. Good(sock', {} \ {"read"}) /\ ReadsWrites(sock')
    BY <1>1, <2>1, GoodBegin
  <2> QED BY <2>1, <2>2, <1>1, <1>2, Moves
<1>10. ASSUME onReceiveFinish PROVE IInv'
  <2>1. Good(sock', {}) /\ ReadsWrites(sock') /\ UNCHANGED <<stage, owner_vars>>
    BY <1>1, <1>10 DEF onReceiveFinish
  <2> QED BY <2>1, <1>1, Moves
<1>4. ASSUME NEW op \in {"read", "write"}, Runs("done", op)
      PROVE  LET k == IF Ok THEN Popped ELSE close(Popped)
             IN  Good(k, {op}) /\ ReadsWrites(k)
  <2>1. op \in Operations /\ TimerOf(op) = op
    BY DEF Operations, TimerOf
  <2>2. Good(Popped, {op}) /\ ReadsWrites(Popped)
    BY <1>1, <1>4, <2>1, GoodDone
  <2> QED BY <2>2, GoodClose
<1>5. ASSUME receivePacket PROVE IInv'
  <2>1. PICK k : k = IF Ok THEN Popped ELSE close(Popped)
    OBVIOUS
  <2>2. Good(k, {"read"}) /\ ReadsWrites(k) /\ k \in Sockets
    BY <1>4, <1>5, <2>1 DEF receivePacket, Good
  <2>3. sock' = SetExpiry(k, "read", "infinite") /\ UNCHANGED <<stage, owner_vars>>
    BY <1>5, <2>1 DEF receivePacket
  <2>4. Good(sock', {"read"} \ {"read"}) /\ ReadsWrites(sock')
    BY <2>2, <2>3, GoodInfinite, SetExpiryKeeps DEF Timers
  <2>5. {"read"} \ {"read"} = {}
    OBVIOUS
  <2> QED BY <2>3, <2>4, <2>5, <1>1, Moves
<1>6. ASSUME closeAsync PROVE IInv'
  <2>1. Good(sock', {}) /\ ReadsWrites(sock') /\ UNCHANGED <<stage, owner_vars>>
    BY <1>1, <1>6, GoodClose DEF closeAsync
  <2> QED BY <2>1, <1>1, Moves
<1>7. ASSUME Good(sock', {}), ReadsWrites(sock'), UNCHANGED <<role, stage, endpoints, reopened, touched>>,
             process_write' \in BOOLEAN, waiting' \in Nat, requested' \in 0..MaxWrites,
             waiting' <= requested'
      PROVE  IInv'
  <2>1. /\ stage' \in Stages \ {"new", "destroyed", "aborted"} /\ stage' \notin Handshake
        /\ endpoints' \in 0..MaxEndpoints /\ reopened' \in BOOLEAN /\ reopened' = reopened
        /\ UNCHANGED <<role, touched>>
    BY <1>7 DEF IInv, Typed, Stages, Handshake
  <2>2. /\ sock' \in Sockets /\ DeadlinesBut(sock', {})
        /\ Tls => Unwatched(sock')
        /\ ~Tls /\ ~reopened' /\ sock'.open => Watched(sock')
    BY <1>7, <2>1 DEF Good
  <2> QED BY <1>1, <1>7, <2>1, <2>2, GoesOn
<1>8. ASSUME writeAsync PROVE IInv'
  <2>1. /\ UNCHANGED <<role, stage, endpoints, reopened, touched>>
        /\ requested' = requested + 1 /\ requested < MaxWrites
        /\ \/ waiting' = waiting + 1 /\ UNCHANGED <<sock, process_write>>
           \/ /\ sock' = Start(SetExpiry(sock, "write", "future"), "write")
              /\ process_write' = TRUE /\ waiting' = waiting
    BY <1>8 DEF writeAsync, write
  <2>2. Good(sock', {}) /\ ReadsWrites(sock')
    <3>1. CASE sock' = sock
      BY <3>1, <1>1
    <3>2. CASE sock' = Start(SetExpiry(sock, "write", "future"), "write")
      <4>1. Good(sock', {} \ {"write"}) /\ ReadsWrites(sock')
        BY <1>1, <3>2, GoodBegin
      <4> QED BY <4>1, <1>2
    <3> QED BY <2>1, <3>1, <3>2
  <2>3. /\ waiting \in Nat /\ requested \in Nat /\ waiting <= requested /\ MaxWrites \in Nat
        /\ process_write \in BOOLEAN
    BY SocketAssumption DEF IInv, Typed
  <2>4. waiting' \in Nat /\ waiting' <= requested' /\ requested' \in 0..MaxWrites
    BY <2>1, <2>3
  <2>5. process_write' \in BOOLEAN
    BY <2>1, <2>3
  <2> QED BY <2>1, <2>2, <2>4, <2>5, <1>7
<1>9. ASSUME WriteDone PROVE IInv'
  <2>1. PICK k : k = IF Ok THEN Popped ELSE close(Popped)
    OBVIOUS
  <2>2. Good(k, {"write"}) /\ ReadsWrites(k) /\ k \in Sockets
    BY <1>4, <1>9, <2>1 DEF WriteDone, Good
  <2>3. PICK next \in BOOLEAN : next = (k.open /\ waiting > 0)
    OBVIOUS
  <2>4. PICK w : w = IF next THEN write(k, "future") ELSE k
    OBVIOUS
  <2>5. /\ sock' = SetExpiry(w, "write", "infinite")
        /\ waiting' = IF next THEN waiting - 1 ELSE waiting
        /\ process_write' = FALSE
        /\ UNCHANGED <<role, stage, endpoints, requested, reopened, touched>>
    BY <1>9, <2>1, <2>3, <2>4 DEF WriteDone
  <2>6. \E T \in {{"write"}, {"write"} \ {"write"}} : Good(w, T) /\ ReadsWrites(w) /\ w \in Sockets
    <3>1. CASE next
      <4>1. w = Start(SetExpiry(k, "write", "future"), "write")
        BY <2>4, <3>1 DEF write
      <4>2. Good(w, {"write"} \ {"write"}) /\ ReadsWrites(w) /\ w \in Sockets
        BY <2>2, <4>1, GoodBegin
      <4> QED BY <4>2
    <3>2. CASE ~next
      BY <2>2, <2>4, <3>2
    <3> QED BY <3>1, <3>2
  <2>7. PICK T \in {{"write"}, {"write"} \ {"write"}} : Good(w, T) /\ ReadsWrites(w) /\ w \in Sockets
    BY <2>6
  <2>8. Good(sock', T \ {"write"}) /\ ReadsWrites(sock')
    BY <2>5, <2>7, GoodInfinite, SetExpiryKeeps DEF Timers
  <2>9. T \ {"write"} = {}
    BY <2>7
  <2>10. /\ waiting \in Nat /\ requested \in 0..MaxWrites /\ waiting <= requested
         /\ next => waiting > 0
    <3>1. waiting \in Nat /\ requested \in 0..MaxWrites /\ waiting <= requested
      BY SocketAssumption DEF IInv, Typed
    <3> QED BY <3>1, <2>3
  <2>11. waiting' \in Nat /\ waiting' <= requested' /\ requested' \in 0..MaxWrites
    BY <2>5, <2>10
  <2> QED BY <2>5, <2>8, <2>9, <2>11, <1>7
<1> QED BY <1>3, <1>5, <1>6, <1>8, <1>9, <1>10

LEMMA DestroyPreserves == IInv /\ destroyAsync => IInv'
<1> SUFFICES ASSUME IInv, destroyAsync PROVE IInv'
  OBVIOUS
<1>1. Alive /\ Good(sock, {}) /\ touched = {}
  BY GoodSock DEF destroyAsync, Alive, IInv, Touching
<1>2. sock \in Sockets /\ (Tls => Unwatched(sock))
  BY <1>1 DEF Good
<1>3. Idle(sock)
  <2>1. Ready(sock) = {}
    BY DEF destroyAsync, Ready
  <2> QED BY <2>1 DEF destroyAsync, Idle
<1>4. /\ stage' = "destroyed" /\ sock' = Destroyed(sock) /\ touched' \subseteq {"read"}
      /\ UNCHANGED <<role, endpoints, process_write, waiting, requested, reopened>>
  BY <1>1 DEF destroyAsync, owner_vars
<1> QED BY <1>1, <1>2, <1>3, <1>4, Dies

(* What is left of a destroyed socket are the handlers of its timers. *)
LEMMA DanglingPreserves == IInv /\ Dangling => IInv'
<1> SUFFICES ASSUME IInv, Dangling PROVE IInv'
  OBVIOUS
<1>1. PICK h : h = Head(sock.ready)
  OBVIOUS
<1>2. /\ ~Alive /\ sock \in Sockets /\ sock.ready # <<>>
      /\ sock' = Popped /\ UNCHANGED <<role, stage, endpoints, process_write, waiting, requested, reopened>>
      /\ \A g \in Ready(sock) : g.run = "check"
  BY DEF Dangling, Alive, IInv, Typed, OneOperation
<1>3. /\ sock' \in Sockets /\ h \in Ready(sock) /\ sock'.wait = sock.wait
      /\ sock'.expiry = sock.expiry /\ Ready(sock) = Ready(sock') \cup {h}
  BY <1>1, <1>2, PoppedKeeps
<1>4. h.run = "check" /\ (Tls => Unwatched(sock) /\ h.ok = FALSE)
  BY <1>2, <1>3 DEF IInv, TlsUnwatched, Unwatched
<1>5. touched' \subseteq touched \cup {"check"} /\ (Tls => touched' = touched)
  BY <1>1, <1>2, <1>4 DEF Dangling, Ok
<1>6. Typed'
  BY <1>2, <1>3, <1>5 DEF IInv, Typed
<1>7. TlsUnwatched' /\ PlainWatched' /\ DeadlinesHeld'
  BY <1>2, <1>3, <1>4 DEF Tls, Alive, TlsUnwatched, Unwatched, PlainWatched, DeadlinesHeld
<1>8. OneOperation'
  BY <1>2, <1>3 DEF Alive, OneOperation, Handshake
<1>9. Touching'
  <2>1. PICK op \in {"connect", "read", "write"} : touched \subseteq {op, "check"}
    BY DEF IInv, Touching
  <2>2. touched' \subseteq {op, "check"}
    BY <1>5, <2>1
  <2> QED BY <1>2, <1>5, <2>2 DEF IInv, Touching, Tls, Alive
<1> QED BY <1>2, <1>6, <1>7, <1>8, <1>9 DEF IInv

LEMMA NextPreserves == IInv /\ [Next]_vars => IInv'
<1> SUFFICES ASSUME IInv, [Next]_vars PROVE IInv'
  OBVIOUS
<1>1. CASE AcceptTls \/ AcceptPlain \/ Connect
  BY <1>1, BeginsPreserve
<1>2. CASE \E t \in Timers : Alive /\ (TimePasses(t) \/ WaitFires(t))
  BY <1>2, WorldPreserves
<1>3. CASE \E op \in Operations, ok \in BOOLEAN : Alive /\ Complete(op, ok)
  BY <1>3, WorldPreserves
<1>4. CASE onReceiveFinish \/ readAsync \/ writeAsync \/ closeAsync \/ receivePacket \/ WriteDone
  BY <1>4, RunningPreserves
<1>5. CASE destroyAsync
  BY <1>5, DestroyPreserves
<1>6. CASE \E t \in Timers : checkDeadline(t)
  BY <1>6, CheckPreserves
<1>7. CASE ConnectDone \/ ConnectThrows \/ TlsDone
  BY <1>7, ConnectDonePreserves, ConnectThrowsPreserves, TlsDonePreserves
<1>8. CASE ReadHandshake \/ WriteHandshake
  BY <1>8, HandshakePreserves
<1>9. CASE Dangling
  BY <1>9, DanglingPreserves
<1>10. CASE UNCHANGED vars
  <2>1. UNCHANGED <<role, stage, sock, endpoints, process_write, waiting, requested, reopened, touched>>
    BY <1>10 DEF vars
  <2>2. Typed'
    BY <2>1 DEF IInv, Typed
  <2>3. TlsUnwatched' /\ PlainWatched'
    BY <2>1 DEF IInv, TlsUnwatched, PlainWatched, Tls, Alive, Unwatched, Watched, Ready
  <2>4. DeadlinesHeld'
    BY <2>1 DEF IInv, DeadlinesHeld, DeadlinesBut, LateIn, Alive, Ready
  <2>5. OneOperation'
    BY <2>1 DEF IInv, OneOperation, Idle, Single, ReadsWrites, Alive, Ready, Handshake
  <2>6. Touching' /\ waiting' <= requested'
    BY <2>1 DEF IInv, Touching, Tls, Alive
  <2> QED BY <2>2, <2>3, <2>4, <2>5, <2>6 DEF IInv
<1> QED BY <1>1, <1>2, <1>3, <1>4, <1>5, <1>6, <1>7, <1>8, <1>9, <1>10 DEF Next, Handler

-----------------------------------------------------------------------------
(* The inductive invariant of a socket and its owner. *)
THEOREM SocketInvariance == Spec => []IInv
<1>1. Init => IInv
  BY InitIInv
<1>2. IInv /\ [Next]_vars => IInv'
  BY NextPreserves
<1> QED BY <1>1, <1>2, PTL DEF Spec

(* Every variable keeps its type. *)
THEOREM SocketTypeCorrect == Spec => []TypeOK
<1> DEFINE Asked == to_read \in {"no", "told", "go"}
<1>1. Init => Asked
  BY DEF Init
<1>2. Asked /\ [Next]_vars => Asked'
  <2> SUFFICES ASSUME Asked, [Next]_vars, to_read' # to_read PROVE Asked'
    OBVIOUS
  <2>1. CASE ReadHandshake \/ WriteHandshake \/ ConnectDone
    BY <2>1 DEF ReadHandshake, WriteHandshake, ConnectDone, Proceed, Fail
  <2>2. CASE onReceiveFinish \/ readAsync \/ receivePacket
    BY <2>2 DEF onReceiveFinish, readAsync, receivePacket
  <2> QED BY <2>1, <2>2 DEF Next, Handler, vars, AcceptTls, AcceptPlain, Connect, TimePasses,
               WaitFires, Complete, checkDeadline, ConnectThrows, TlsDone, Fail, writeAsync,
               WriteDone, closeAsync, destroyAsync, Dangling
<1>3. IInv /\ Asked => TypeOK
  BY DEF IInv, Typed, TypeOK
<1> QED BY <1>1, <1>2, <1>3, SocketInvariance, PTL DEF Spec

(* AsyncSSLSocket's deadlines never fire: no timer of a user's connection is
   ever waited for while it has an expiry time. *)
THEOREM TlsHasNoDeadline == Spec => []TlsIsUnwatched
<1>1. IInv => TlsIsUnwatched
  <2> SUFFICES ASSUME IInv, Tls,
                      NEW i \in DOMAIN sock.ready, sock.ready[i].run = "check", sock.ready[i].ok
               PROVE  FALSE
    BY DEF TlsIsUnwatched, IInv, TlsUnwatched, Unwatched
  <2>1. sock.ready[i].ok = FALSE
    BY DEF IInv, TlsUnwatched, Unwatched, Ready
  <2> QED BY <2>1
<1> QED BY <1>1, SocketInvariance, PTL

(* AsyncSocket takes every cancelled wait up again. *)
THEOREM PlainIsAlwaysWatched == Spec => []PlainIsWatched
<1>1. IInv => PlainIsWatched
  BY DEF IInv, PlainWatched, Watched, Ready, PlainIsWatched, CheckReady
<1> QED BY <1>1, SocketInvariance, PTL

LEMMA LateIsLate == ASSUME NEW t PROVE LateIn(sock, t) <=> Late(t)
<1>1. \A op : Handled(op) <=> \E h \in Ready(sock) : h.run = "done" /\ h.of = op
  BY DEF Handled, Ready
<1> QED BY <1>1 DEF LateIn, Late

(* A deadline closes the socket only while the operation it was set for is
   late: the handlers that wait in line never close it for another. *)
THEOREM DeadlinesCloseTheLate == Spec => ClosesTheLate
<1>1. IInv /\ [Next]_vars
        => [\A t \in Timers : checkDeadline(t) /\ sock.open /\ ~sock'.open => Late(t)]_vars
  <2> SUFFICES ASSUME IInv, NEW t \in Timers, checkDeadline(t), sock.open, ~sock'.open
               PROVE  Late(t)
    OBVIOUS
  <2>1. PICK p : p = Popped
    OBVIOUS
  <2>2. Alive /\ sock \in Sockets /\ Runs("check", t) /\ DeadlinesBut(sock, {})
    BY DEF checkDeadline, Runs, IInv, Typed, DeadlinesHeld
  <2>3. p \in Sockets /\ p.open = sock.open /\ p.expiry = sock.expiry
    BY <2>1, <2>2, PoppedKeeps DEF Runs
  <2>4. sock' = p \/ sock' = WaitAgain(Expired(p, t), t)
    BY <2>1 DEF checkDeadline
  <2>5. sock.expiry[t] = "passed"
    <3> SUFFICES ASSUME p.expiry[t] # "passed" PROVE FALSE
      BY <2>3
    <3>1. Expired(p, t) = p
      BY DEF Expired
    <3>2. sock' = p \/ sock' = [p EXCEPT !.wait[t] = TRUE]
      BY <2>3, <2>4, <3>1 DEF WaitAgain
    <3>3. sock'.open = p.open
      BY <3>2, <2>3 DEF Sockets
    <3> QED BY <3>3, <2>3
  <2>6. LateIn(sock, t)
    BY <2>2, <2>5 DEF DeadlinesBut
  <2> QED BY <2>6, LateIsLate
<1> QED BY <1>1, SocketInvariance, PTL DEF Spec, ClosesTheLate

(* What comes to a deleted socket: the rest of the handler that has deleted
   it, and the handlers of its timers, which for AsyncSSLSocket is nothing. *)
THEOREM DeletedIsTouchedOnlyBy == Spec => []TouchedOnlyBy
<1>1. IInv => TouchedOnlyBy
  <2> SUFFICES ASSUME IInv PROVE TouchedOnlyBy
    OBVIOUS
  <2>1. PICK op \in {"connect", "read", "write"} : touched \subseteq {op, "check"}
    BY DEF IInv, Touching
  <2>2. touched \ {"check"} \subseteq {op}
    BY <2>1
  <2>3. IsFiniteSet({op}) /\ Cardinality({op}) = 1
    BY FS_Singleton
  <2>4. IsFiniteSet(touched \ {"check"}) /\ Cardinality(touched \ {"check"}) <= 1
    BY <2>2, <2>3, FS_Subset
  <2>5. touched \subseteq {"connect", "read", "write", "check"}
    BY <2>1
  <2> QED BY <2>4, <2>5 DEF TouchedOnlyBy, IInv, Touching
<1> QED BY <1>1, SocketInvariance, PTL

=============================================================================
