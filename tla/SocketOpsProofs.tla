--------------------------- MODULE SocketOpsProofs ---------------------------
(***************************************************************************)
(* Proofs about SocketOps: the type invariant and the four properties of   *)
(* the calls that move data, for any number of threads, any capacity, any  *)
(* buffer sizes and any number of signals.                                 *)
(*                                                                         *)
(* What a call does next depends on its own record, on the reply of the    *)
(* kernel and on two facts about the socket that never change, so the      *)
(* inductive invariant is one predicate, GoodCall, over a call and the     *)
(* socket.  The proof says what the kernel may reply, that a good call is  *)
(* good again after each reply, and that it stays good when another thread *)
(* or the peer changes the socket.                                         *)
(***************************************************************************)
EXTENDS SocketOps, SequenceTheorems, TLAPS

Socks == [stream : BOOLEAN, nonblock : BOOLEAN, space : 0 .. Capacity,
          data : {d \in Seq(Nat) : Len(d) <= Capacity},
          eof : BOOLEAN, reset : BOOLEAN, err : BOOLEAN,
          shut : SUBSET Directions]

(* The end of what can be read: the peer's, or this side's own.            *)
Ended(s) == s.stream /\ (s.eof \/ "read" \in s.shut)

Calls == [fn : Fns, pc : {"io", "poll", "back"}, asked : Sizes \cup {0},
          state : SUBSET Flags, moved : Nat, bytes : Nat,
          ec : Errors \cup {"ok"}, unpolled : BOOLEAN]

(* A call that is still going has moved nothing, only the two that may     *)
(* wait are polling, and a sync_recv that got as far as the kernel has     *)
(* room to fill if its flags say it reads a stream.                        *)
Going(c) ==
  c.pc # "back" =>
    /\ c.fn \in DataCalls
    /\ c.moved = 0
    /\ c.pc = "poll" => c.fn # "non_blocking_send"
    /\ c.fn = "sync_recv" /\ "stream_oriented" \in c.state => c.asked > 0

(* A call that is back reports what was moved, and an error exactly when   *)
(* it owes one.                                                            *)
Reported(c) ==
  c.pc = "back" /\ c.fn \in DataCalls =>
    /\ c.bytes = c.moved
    /\ c.asked > 0 /\ c.moved = 0 => c.ec # "ok" \/ c.unpolled
    /\ c.ec # "ok" => c.moved = 0
    /\ c.fn = "sync_send" /\ c.ec = "EAGAIN"
         => "user_set_non_blocking" \in c.state
    /\ c.fn = "sync_recv" => c.ec # "EAGAIN"

(* What a call makes of the socket: the kind its flags name, and the end   *)
(* of a stream.                                                            *)
Suits(c, s) ==
  /\ ~s.stream /\ "stream_oriented" \in c.state
       => "datagram_oriented" \in c.state
  /\ c.pc = "back" /\ c.fn = "sync_recv" /\ c.ec = "EOF"
       => Ended(s) \/ Spoiled(c.state)

GoodCall(c, s) == c \in Calls /\ Going(c) /\ Reported(c) /\ Suits(c, s)

(* Only a stream ends, and a socket that is not a stream never loses the   *)
(* flag that says so.                                                      *)
GoodSock(s, flags) ==
  /\ s \in Socks
  /\ flags \subseteq Flags
  /\ s.eof => s.stream
  /\ s.stream \/ "datagram_oriented" \in flags

SocketInv ==
  /\ GoodSock(sock, state)
  /\ errno \in [Threads -> Errors \cup {"ok"}]
  /\ signals \in 0 .. SignalBound
  /\ call \in [Threads -> Calls]
  /\ \A t \in Threads : GoodCall(call[t], sock)

-----------------------------------------------------------------------------
(* The kernel's replies.                                                   *)

(* What may follow s for the threads that use it: the kind of a socket     *)
(* never changes, and neither an end of file nor a shutdown is taken back. *)
Later(s, u) ==
  /\ u.stream = s.stream
  /\ s.shut \subseteq u.shut
  /\ s.eof => u.eof
  /\ u.eof => u.stream

(* Of every reply: a value or an error, and never both.                    *)
GoodReply(r, s) ==
  /\ r.n \in Int /\ r.n >= -1
  /\ r.err \in Errors \cup {"ok"} /\ r.err # "EOF"
  /\ r.n >= 0 <=> r.err = "ok"
  /\ r.sock \in Socks
  /\ Later(s, r.sock)

(* The lesser of two amounts.                                              *)
LEMMA LesserBounds ==
  ASSUME NEW a \in Nat, NEW b \in Nat
  PROVE  /\ Lesser(a, b) \in Nat
         /\ Lesser(a, b) <= a
         /\ Lesser(a, b) <= b
         /\ a > 0 /\ b > 0 => Lesser(a, b) > 0
BY DEF Lesser

(* The changes a reply makes to a socket: an error is taken, room is used, *)
(* data leaves the queue.                                                  *)
LEMMA ErrorTaken ==
  ASSUME NEW s \in Socks, s.eof => s.stream
  PROVE  /\ [s EXCEPT !.err = FALSE] \in Socks
         /\ Later(s, [s EXCEPT !.err = FALSE])
<1>1. [s EXCEPT !.err = FALSE] \in Socks
  BY DEF Socks
<1>2. Later(s, [s EXCEPT !.err = FALSE])
  BY DEF Socks, Later
<1> QED
  BY <1>1, <1>2

(* The peer reads: the socket is a later state of itself.                  *)
LEMMA SpaceChanged ==
  ASSUME NEW s \in Socks, s.eof => s.stream, NEW k \in 0 .. Capacity
  PROVE  /\ [s EXCEPT !.space = k] \in Socks
         /\ Later(s, [s EXCEPT !.space = k])
<1>1. [s EXCEPT !.space = k] \in Socks
  BY DEF Socks
<1>2. Later(s, [s EXCEPT !.space = k])
  BY DEF Socks, Later
<1> QED
  BY <1>1, <1>2

(* The peer writes, or data is read: the socket is a later state of        *)
(* itself.                                                                 *)
LEMMA DataChanged ==
  ASSUME NEW s \in Socks, s.eof => s.stream,
         NEW d \in Seq(Nat), Len(d) <= Capacity
  PROVE  /\ [s EXCEPT !.data = d] \in Socks
         /\ Later(s, [s EXCEPT !.data = d])
<1>1. [s EXCEPT !.data = d] \in Socks
  BY DEF Socks
<1>2. Later(s, [s EXCEPT !.data = d])
  BY DEF Socks, Later
<1> QED
  BY <1>1, <1>2

(* shutdown: the socket is a later state of itself.                        *)
LEMMA ShutChanged ==
  ASSUME NEW s \in Socks, s.eof => s.stream, NEW what \in SUBSET Directions
  PROVE  /\ [s EXCEPT !.shut = @ \cup what] \in Socks
         /\ Later(s, [s EXCEPT !.shut = @ \cup what])
<1>1. [s EXCEPT !.shut = @ \cup what] \in Socks
  BY DEF Socks
<1>2. Later(s, [s EXCEPT !.shut = @ \cup what])
  BY DEF Socks, Later
<1> QED
  BY <1>1, <1>2

(* A reply with a socket that may follow s.                                *)
LEMMA ReplyIsGood ==
  ASSUME NEW s, NEW u \in Socks, Later(s, u), NEW n \in Int, n >= -1,
         NEW err \in Errors \cup {"ok"}, err # "EOF", n >= 0 <=> err = "ok"
  PROVE  /\ GoodReply(Reply(n, err, u), s)
         /\ Reply(n, err, u).n = n /\ Reply(n, err, u).err = err
BY DEF Reply, GoodReply

(* A send that was asked to move something moves something or fails.       *)
LEMMA SendReply ==
  ASSUME NEW s \in Socks, s.eof => s.stream, NEW asked \in Nat,
         NEW r \in SendReplies(s, asked)
  PROVE  GoodReply(r, s) /\ r.err # "EINTR" /\ (asked > 0 => r.n # 0)
<1>1. s.space \in Nat /\ s.space <= Capacity /\ Capacity \in Nat
  BY SocketAssumption DEF Socks
<1>2. Later(s, s)
  BY DEF Later
<1>4. CASE r = ErrorReply(s)
  <2> DEFINE u == [s EXCEPT !.err = FALSE]
  <2>1. u \in Socks /\ Later(s, u)
    BY ErrorTaken
  <2>2. r = Reply(-1, "OTHER", u)
    BY <1>4 DEF ErrorReply
  <2> HIDE DEF u
  <2>3. GoodReply(r, s) /\ r.n = -1 /\ r.err # "EINTR"
    BY <2>1, <2>2, ReplyIsGood DEF Errors
  <2> QED
    BY <2>3
<1>5. CASE r = Reply(-1, "OTHER", s) \/ r = Reply(-1, "EAGAIN", s)
  <2>1. GoodReply(r, s) /\ r.n = -1 /\ r.err # "EINTR"
    BY <1>2, <1>5, ReplyIsGood DEF Errors
  <2> QED
    BY <2>1
<1>6. CASE asked = 0 /\ r = Reply(0, "ok", s)
  BY <1>2, <1>6, ReplyIsGood
<1>7. CASE \E n \in 1 .. Lesser(asked, s.space) :
             r = Reply(n, "ok", [s EXCEPT !.space = @ - n])
  <2>1. PICK n \in 1 .. Lesser(asked, s.space) :
          r = Reply(n, "ok", [s EXCEPT !.space = @ - n])
    BY <1>7
  <2> DEFINE u == [s EXCEPT !.space = s.space - n]
  <2>2. n \in Nat /\ n >= 1 /\ s.space - n \in 0 .. Capacity
    <3>1. Lesser(asked, s.space) \in Nat /\ Lesser(asked, s.space) <= s.space
      BY <1>1, LesserBounds
    <3> QED
      BY <1>1, <3>1
  <2>3. u \in Socks /\ Later(s, u)
    BY <2>2, SpaceChanged
  <2>4. r = Reply(n, "ok", u)
    BY <2>1
  <2> HIDE DEF u
  <2>5. GoodReply(r, s) /\ r.n = n /\ r.err # "EINTR"
    BY <2>2, <2>3, <2>4, ReplyIsGood
  <2> QED
    BY <2>2, <2>5
<1>8. CASE s.space # 0 /\ r = Reply(asked, "ok", [s EXCEPT !.space = @ - 1])
  <2> DEFINE u == [s EXCEPT !.space = s.space - 1]
  <2>1. s.space - 1 \in 0 .. Capacity
    BY <1>1, <1>8
  <2>2. u \in Socks /\ Later(s, u)
    BY <2>1, SpaceChanged
  <2>3. r = Reply(asked, "ok", u)
    BY <1>8
  <2> HIDE DEF u
  <2>4. GoodReply(r, s) /\ r.n = asked /\ r.err # "EINTR"
    BY <2>2, <2>3, ReplyIsGood
  <2> QED
    BY <2>4
<1> QED
  BY <1>4, <1>5, <1>6, <1>7, <1>8 DEF SendReplies

(* A receive of 0 bytes is the end of a stream, an empty buffer, an empty  *)
(* datagram or a datagram socket shut down for reading.                    *)
LEMMA RecvReply ==
  ASSUME NEW s \in Socks, s.eof => s.stream, NEW asked \in Nat,
         NEW r \in RecvReplies(s, asked)
  PROVE  /\ GoodReply(r, s) /\ r.err # "EINTR"
         /\ r.n = 0 /\ s.stream /\ asked > 0 => Ended(s)
<1>1. s.data \in Seq(Nat) /\ Len(s.data) \in Nat /\ Len(s.data) <= Capacity
  BY DEF Socks
<1>2. Later(s, s)
  BY DEF Later
<1>4. CASE r = ErrorReply(s)
  <2> DEFINE u == [s EXCEPT !.err = FALSE]
  <2>1. u \in Socks /\ Later(s, u)
    BY ErrorTaken
  <2>2. r = Reply(-1, "OTHER", u)
    BY <1>4 DEF ErrorReply
  <2> HIDE DEF u
  <2>3. GoodReply(r, s) /\ r.n = -1 /\ r.err # "EINTR"
    BY <2>1, <2>2, ReplyIsGood DEF Errors
  <2> QED
    BY <2>3
<1>5. CASE r = Reply(-1, "EAGAIN", s)
  <2>1. GoodReply(r, s) /\ r.n = -1 /\ r.err # "EINTR"
    BY <1>2, <1>5, ReplyIsGood DEF Errors
  <2> QED
    BY <2>1
<1>6. CASE r = Reply(0, "ok", s) /\ (asked = 0 \/ Ended(s) \/ ~s.stream)
  BY <1>2, <1>6, ReplyIsGood
<1>7. CASE \E n \in 1 .. Lesser(asked, Len(s.data)) :
             r = Reply(n, "ok",
                       [s EXCEPT !.data = SubSeq(@, n + 1, Len(@))])
  <2>1. PICK n \in 1 .. Lesser(asked, Len(s.data)) :
          r = Reply(n, "ok", [s EXCEPT !.data = SubSeq(@, n + 1, Len(@))])
    BY <1>7
  <2>2. n \in Nat /\ n >= 1 /\ n <= Len(s.data)
    <3>1. /\ Lesser(asked, Len(s.data)) \in Nat
          /\ Lesser(asked, Len(s.data)) <= Len(s.data)
      BY <1>1, LesserBounds
    <3> QED
      BY <1>1, <3>1
  <2> DEFINE rest == SubSeq(s.data, n + 1, Len(s.data))
             u == [s EXCEPT !.data = rest]
  <2>3. rest \in Seq(Nat) /\ Len(rest) <= Capacity
    <3>1. \A i \in n + 1 .. Len(s.data) : s.data[i] \in Nat
      BY <1>1, <2>2, ElementOfSeq
    <3>2. /\ rest \in Seq(Nat)
          /\ Len(rest) = IF n + 1 <= Len(s.data)
                           THEN Len(s.data) - (n + 1) + 1 ELSE 0
      BY <1>1, <2>2, <3>1, SubSeqProperties
    <3> QED
      BY <1>1, <2>2, <3>2, SocketAssumption
  <2>4. r = Reply(n, "ok", u)
    BY <2>1
  <2> HIDE DEF rest
  <2>5. u \in Socks /\ Later(s, u)
    BY <2>3, DataChanged
  <2> HIDE DEF u
  <2>6. GoodReply(r, s) /\ r.n = n /\ r.err # "EINTR"
    BY <2>2, <2>4, <2>5, ReplyIsGood
  <2> QED
    BY <2>2, <2>6
<1>8. CASE /\ ~s.stream /\ s.data # <<>>
           /\ r = Reply(Lesser(asked, Head(s.data)), "ok",
                        [s EXCEPT !.data = Tail(@)])
  <2> DEFINE rest == Tail(s.data)
             u == [s EXCEPT !.data = rest]
             n == Lesser(asked, Head(s.data))
  <2>1. /\ Head(s.data) \in Nat
        /\ rest \in Seq(Nat) /\ Len(rest) <= Capacity
    <3>1. /\ Head(s.data) \in Nat /\ rest \in Seq(Nat)
          /\ Len(rest) = Len(s.data) - 1
      BY <1>1, <1>8, HeadTailProperties
    <3> QED
      BY <1>1, <3>1, SocketAssumption
  <2>2. n \in Nat
    BY <2>1, LesserBounds
  <2>3. r = Reply(n, "ok", u)
    BY <1>8
  <2> HIDE DEF rest, n
  <2>4. u \in Socks /\ Later(s, u)
    BY <2>1, DataChanged
  <2> HIDE DEF u
  <2>5. GoodReply(r, s) /\ r.err # "EINTR"
    BY <2>2, <2>3, <2>4, ReplyIsGood
  <2> QED
    BY <1>8, <2>5
<1> QED
  BY <1>4, <1>5, <1>6, <1>7, <1>8 DEF RecvReplies, Ended

(* An interrupted system call returns -1 with EINTR, and a signal was due. *)
LEMMA InterruptedReply ==
  ASSUME sock \in Socks, sock.eof => sock.stream, NEW r \in Interruption
  PROVE  GoodReply(r, sock) /\ r.n = -1 /\ r.err = "EINTR" /\ signals > 0
BY DEF Interruption, Reply, GoodReply, Later, Errors

-----------------------------------------------------------------------------
(* A call after one reply.                                                 *)

(* What the change of a socket by anyone else leaves true of a call.       *)
LEMMA StillGood ==
  ASSUME NEW c, NEW s, NEW u, GoodCall(c, s), Later(s, u)
  PROVE  GoodCall(c, u)
BY DEF GoodCall, Suits, Ended, Later

(* A good call that has made its system call, with what it moved added.    *)
MovedBy(c, n) == [c EXCEPT !.moved = @ + (IF n > 0 THEN n ELSE 0)]

(* A call that had moved nothing has moved what the system call did.       *)
LEMMA MovedByIs ==
  ASSUME NEW c \in Calls, c.moved = 0, NEW n \in Int
  PROVE  /\ MovedBy(c, n) \in Calls
         /\ MovedBy(c, n) = [c EXCEPT !.moved = IF n > 0 THEN n ELSE 0]
BY DEF MovedBy, Calls

ReturnedOf(c, b, ec) ==
  LET d == Returned(c, b, ec)
  IN /\ d \in Calls /\ d.pc = "back" /\ d.bytes = b /\ d.ec = ec
     /\ d.fn = c.fn /\ d.asked = c.asked /\ d.state = c.state
     /\ d.moved = c.moved /\ d.unpolled = c.unpolled

(* What a call is when it returns.                                         *)
LEMMA ReturnedIs ==
  ASSUME NEW c \in Calls, NEW b \in Nat, NEW ec \in Errors \cup {"ok"}
  PROVE  ReturnedOf(c, b, ec)
BY DEF ReturnedOf, Returned, Calls

PollingOf(c) ==
  LET d == Polling(c)
  IN /\ d \in Calls /\ d.pc = "poll" /\ d.fn = c.fn /\ d.asked = c.asked
     /\ d.state = c.state /\ d.moved = c.moved

(* What a call is when it goes to poll().                                  *)
LEMMA PollingIs ==
  ASSUME NEW c \in Calls
  PROVE  PollingOf(c)
BY DEF PollingOf, Polling, Calls

(* sync_send.                                                              *)
LEMMA GoodAfterSend ==
  ASSUME NEW c, NEW s, GoodCall(c, s), c.pc = "io", c.fn = "sync_send",
         NEW n \in Int, NEW ec \in Errors \cup {"ok"},
         n >= 0 => ec = "ok", n < 0 => ec # "ok",
         c.asked > 0 => n # 0
  PROVE  GoodCall(AfterSend(MovedBy(c, n), n, ec), s)
<1> DEFINE m == IF n > 0 THEN n ELSE 0
<1>1. c \in Calls /\ c.moved = 0
  BY DEF GoodCall, Going
<1>2. m \in Nat /\ (n >= 0 => m = n) /\ (n < 0 => m = 0)
  OBVIOUS
<1>3. MovedBy(c, n) = [c EXCEPT !.moved = m]
  BY <1>1, MovedByIs
<1> HIDE DEF m
<1>4. CASE n >= 0
  BY <1>1, <1>2, <1>3, <1>4
     DEF AfterSend, Returned, GoodCall, Going, Reported, Suits, Calls, DataCalls
<1>5. CASE n < 0 /\ ("user_set_non_blocking" \in c.state \/ ec # "EAGAIN")
  BY <1>1, <1>2, <1>3, <1>5
     DEF AfterSend, Returned, GoodCall, Going, Reported, Suits, Calls, DataCalls
<1>6. CASE n < 0 /\ ~("user_set_non_blocking" \in c.state \/ ec # "EAGAIN")
  BY <1>1, <1>2, <1>3, <1>6
     DEF AfterSend, Polling, GoodCall, Going, Reported, Suits, Calls, DataCalls
<1> QED
  BY <1>4, <1>5, <1>6

(* sync_recv.                                                              *)
LEMMA GoodAfterRecv ==
  ASSUME NEW c, NEW s, GoodCall(c, s), c.pc = "io", c.fn = "sync_recv",
         s \in Socks,
         NEW n \in Int, NEW ec \in Errors \cup {"ok"}, ec # "EOF",
         n >= 0 => ec = "ok", n < 0 => ec # "ok",
         n = 0 /\ s.stream /\ c.asked > 0 => Ended(s)
  PROVE  GoodCall(AfterRecv(MovedBy(c, n), n, ec), s)
<1> DEFINE m == IF n > 0 THEN n ELSE 0
<1>1. c \in Calls /\ c.moved = 0
  BY DEF GoodCall, Going
<1>2. m \in Nat /\ (n > 0 => m = n) /\ (n <= 0 => m = 0)
  OBVIOUS
<1>3. MovedBy(c, n) = [c EXCEPT !.moved = m]
  BY <1>1, MovedByIs
<1> HIDE DEF m
<1> DEFINE d == [c EXCEPT !.moved = m]
<1>4. /\ d \in Calls /\ d.state = c.state /\ d.moved = m /\ d.fn = c.fn
      /\ d.asked = c.asked
  BY <1>1, <1>2 DEF Calls
<1>5. MovedBy(c, n) = d
  BY <1>3
<1> HIDE DEF d
<1>6. CASE n > 0
  <2>1. AfterRecv(d, n, ec) = Returned(d, n, ec)
    BY <1>6 DEF AfterRecv
  <2>2. ReturnedOf(d, n, ec)
    BY <1>4, <1>6, ReturnedIs
  <2> QED
    BY <1>2, <1>4, <1>5, <1>6, <2>1, <2>2
       DEF ReturnedOf, GoodCall, Going, Reported, Suits
<1>7. CASE n = 0 /\ "stream_oriented" \in c.state
  <2>1. Ended(s) \/ Spoiled(c.state)
    BY <1>7 DEF GoodCall, Going, Suits, Spoiled, Socks
  <2>2. AfterRecv(d, n, ec) = Returned(d, 0, "EOF")
    BY <1>4, <1>7 DEF AfterRecv
  <2>3. ReturnedOf(d, 0, "EOF")
    BY <1>4, ReturnedIs DEF Errors
  <2> QED
    BY <1>2, <1>4, <1>5, <1>7, <2>1, <2>2, <2>3
       DEF ReturnedOf, GoodCall, Going, Reported, Suits
<1>8. CASE n < 0 /\ "stream_oriented" \in c.state /\ ec # "EAGAIN"
  <2>1. AfterRecv(d, n, ec) = Returned(d, 0, ec)
    BY <1>4, <1>8 DEF AfterRecv
  <2>2. ReturnedOf(d, 0, ec)
    BY <1>4, ReturnedIs
  <2> QED
    BY <1>2, <1>4, <1>5, <1>8, <2>1, <2>2
       DEF ReturnedOf, GoodCall, Going, Reported, Suits
<1>9. CASE n <= 0 /\ ("stream_oriented" \notin c.state
                        \/ (n < 0 /\ ec = "EAGAIN"))
  <2>1. AfterRecv(d, n, ec) = Polling(d)
    BY <1>4, <1>9 DEF AfterRecv
  <2>2. PollingOf(d)
    BY <1>4, PollingIs
  <2> QED
    BY <1>1, <1>2, <1>4, <1>5, <1>9, <2>1, <2>2
       DEF PollingOf, GoodCall, Going, Reported, Suits, DataCalls
<1> QED
  BY <1>6, <1>7, <1>8, <1>9

(* non_blocking_send.                                                      *)
LEMMA GoodAfterTry ==
  ASSUME NEW c, NEW s, GoodCall(c, s), c.pc = "io",
         c.fn = "non_blocking_send",
         NEW n \in Int, NEW ec \in Errors \cup {"ok"},
         n >= 0 => ec = "ok", n < 0 => ec # "ok",
         c.asked > 0 => n # 0
  PROVE  GoodCall(AfterTry(MovedBy(c, n), n, ec), s)
<1> DEFINE m == IF n > 0 THEN n ELSE 0
<1>1. c \in Calls /\ c.moved = 0
  BY DEF GoodCall, Going
<1>2. m \in Nat /\ (n >= 0 => m = n) /\ (n < 0 => m = 0)
  OBVIOUS
<1>3. MovedBy(c, n) = [c EXCEPT !.moved = m]
  BY <1>1, MovedByIs
<1> HIDE DEF m
<1>4. CASE ec = "EINTR"
  <2>1. m = 0 /\ [c EXCEPT !.moved = m] = c
    BY <1>1, <1>2, <1>4 DEF Calls
  <2> QED
    BY <1>3, <1>4, <2>1 DEF AfterTry
<1>5. CASE ec # "EINTR" /\ n >= 0
  BY <1>1, <1>2, <1>3, <1>5
     DEF AfterTry, Returned, GoodCall, Going, Reported, Suits, Calls, DataCalls
<1>6. CASE ec # "EINTR" /\ n < 0
  BY <1>1, <1>2, <1>3, <1>6
     DEF AfterTry, Returned, GoodCall, Going, Reported, Suits, Calls, DataCalls
<1> QED
  BY <1>4, <1>5, <1>6

(* The error that is passed on is the one of the reply.                    *)
LEMMA WrappedErrorIs ==
  ASSUME NEW t, NEW r, NEW s, GoodReply(r, s)
  PROVE  WrappedError(t, r) = r.err /\ ErrnoAfter(t, r.err) = r.err
BY DEF WrappedError, ErrnoAfter, GoodReply

-----------------------------------------------------------------------------
(* The steps.                                                              *)

(* A thread makes a good call of its own; all the others stay good.        *)
LEMMA OneCall ==
  ASSUME SocketInv, NEW t \in Threads, NEW c, NEW u,
         GoodCall(c, u), Later(sock, u)
  PROVE  /\ [call EXCEPT ![t] = c] \in [Threads -> Calls]
         /\ \A x \in Threads : GoodCall([call EXCEPT ![t] = c][x], u)
<1>1. c \in Calls
  BY DEF GoodCall
<1>2. \A x \in Threads : GoodCall(call[x], u)
  BY StillGood DEF SocketInv
<1> QED
  BY <1>1, <1>2 DEF SocketInv

(* A system call whose reply and outcome are as they should be keeps the   *)
(* invariant.                                                              *)
LEMMA AttemptStep ==
  ASSUME SocketInv, NEW t \in Threads, NEW r, NEW after,
         GoodReply(r, sock), r.err = "EINTR" => signals > 0,
         GoodCall(after, sock), Attempt(t, r, after)
  PROVE  SocketInv'
<1>1. sock' = r.sock /\ state' = state /\ Later(sock, sock')
  BY DEF Attempt, GoodReply
<1>2. GoodSock(sock', state')
  BY <1>1 DEF SocketInv, GoodSock, GoodReply, Later
<1>3. errno' \in [Threads -> Errors \cup {"ok"}]
  BY DEF Attempt, ErrnoAfter, GoodReply, SocketInv
<1>4. signals' \in 0 .. SignalBound
  BY SocketAssumption DEF Attempt, TakeSignal, SocketInv
<1>5. GoodCall(after, sock')
  BY <1>1, StillGood
<1>6. /\ call' \in [Threads -> Calls]
      /\ \A x \in Threads : GoodCall(call'[x], sock')
  BY <1>1, <1>5, OneCall DEF Attempt
<1> QED
  BY <1>2, <1>3, <1>4, <1>6 DEF SocketInv

(* The sock of an invariant state.                                         *)
LEMMA SockFacts ==
  ASSUME SocketInv
  PROVE  sock \in Socks /\ (sock.eof => sock.stream)
BY DEF SocketInv, GoodSock

(* What the invariant says of one call.                                    *)
LEMMA CallFacts ==
  ASSUME SocketInv, NEW t \in Threads
  PROVE  /\ GoodCall(call[t], sock)
         /\ call[t].asked \in Nat
<1>1. GoodCall(call[t], sock)
  BY DEF SocketInv
<1>2. call[t].asked \in Sizes \cup {0}
  BY <1>1 DEF GoodCall, Calls
<1>3. Sizes \cup {0} \subseteq Nat
  BY SocketAssumption
<1> QED
  BY <1>1, <1>2, <1>3

(* sync_send keeps the invariant.                                          *)
LEMMA SyncSendStep ==
  ASSUME SocketInv, NEW t \in Threads, SyncSend(t)
  PROVE  SocketInv'
<1> DEFINE c == call[t]
<1>1. c.fn = "sync_send" /\ c.pc = "io"
  BY DEF SyncSend, Attempt
<1>2. PICK r \in SendReplies(sock, c.asked) \cup Interruption :
        Attempt(t, r, AfterSend(Moved(t, r), r.n, WrappedError(t, r)))
  BY DEF SyncSend
<1>3. /\ GoodReply(r, sock)
      /\ r.err = "EINTR" => signals > 0
      /\ c.asked > 0 => r.n # 0
  <2>1. CASE r \in SendReplies(sock, c.asked)
    BY <2>1, SockFacts, CallFacts, SendReply
  <2>2. CASE r \in Interruption
    BY <2>2, SockFacts, CallFacts, InterruptedReply
  <2> QED
    BY <2>1, <2>2
<1>4. /\ r.n \in Int /\ r.err \in Errors \cup {"ok"}
      /\ r.n >= 0 => r.err = "ok"
      /\ r.n < 0 => r.err # "ok"
      /\ WrappedError(t, r) = r.err
      /\ Moved(t, r) = MovedBy(c, r.n)
  BY <1>3, WrappedErrorIs DEF GoodReply, Moved, MovedBy
<1>5. GoodCall(AfterSend(MovedBy(c, r.n), r.n, r.err), sock)
  BY <1>1, <1>3, <1>4, CallFacts, GoodAfterSend
<1> QED
  BY <1>2, <1>3, <1>4, <1>5, AttemptStep

(* sync_recv keeps the invariant.                                          *)
LEMMA SyncRecvStep ==
  ASSUME SocketInv, NEW t \in Threads, SyncRecv(t)
  PROVE  SocketInv'
<1> DEFINE c == call[t]
<1>1. c.fn = "sync_recv" /\ c.pc = "io"
  BY DEF SyncRecv, Attempt
<1>2. PICK r \in RecvReplies(sock, c.asked) \cup Interruption :
        Attempt(t, r, AfterRecv(Moved(t, r), r.n, WrappedError(t, r)))
  BY DEF SyncRecv
<1>3. /\ GoodReply(r, sock)
      /\ r.err = "EINTR" => signals > 0
      /\ r.n = 0 /\ sock.stream /\ c.asked > 0 => Ended(sock)
  <2>1. CASE r \in RecvReplies(sock, c.asked)
    BY <2>1, SockFacts, CallFacts, RecvReply
  <2>2. CASE r \in Interruption
    BY <2>2, SockFacts, CallFacts, InterruptedReply
  <2> QED
    BY <2>1, <2>2
<1>4. /\ r.n \in Int /\ r.err \in Errors \cup {"ok"} /\ r.err # "EOF"
      /\ r.n >= 0 => r.err = "ok"
      /\ r.n < 0 => r.err # "ok"
      /\ WrappedError(t, r) = r.err
      /\ Moved(t, r) = MovedBy(c, r.n)
  BY <1>3, WrappedErrorIs DEF GoodReply, Moved, MovedBy
<1>5. GoodCall(AfterRecv(MovedBy(c, r.n), r.n, r.err), sock)
  BY <1>1, <1>3, <1>4, SockFacts, CallFacts, GoodAfterRecv
<1> QED
  BY <1>2, <1>3, <1>4, <1>5, AttemptStep

(* non_blocking_send keeps the invariant.                                  *)
LEMMA NonBlockingSendStep ==
  ASSUME SocketInv, NEW t \in Threads, NonBlockingSend(t)
  PROVE  SocketInv'
<1> DEFINE c == call[t]
<1>1. c.fn = "non_blocking_send" /\ c.pc = "io"
  BY DEF NonBlockingSend, Attempt
<1>2. PICK r \in SendReplies(sock, c.asked) \cup Interruption :
        Attempt(t, r, AfterTry(Moved(t, r), r.n, WrappedError(t, r)))
  BY DEF NonBlockingSend
<1>3. /\ GoodReply(r, sock)
      /\ r.err = "EINTR" => signals > 0
      /\ c.asked > 0 => r.n # 0
  <2>1. CASE r \in SendReplies(sock, c.asked)
    BY <2>1, SockFacts, CallFacts, SendReply
  <2>2. CASE r \in Interruption
    BY <2>2, SockFacts, CallFacts, InterruptedReply
  <2> QED
    BY <2>1, <2>2
<1>4. /\ r.n \in Int /\ r.err \in Errors \cup {"ok"}
      /\ r.n >= 0 => r.err = "ok"
      /\ r.n < 0 => r.err # "ok"
      /\ WrappedError(t, r) = r.err
      /\ Moved(t, r) = MovedBy(c, r.n)
  BY <1>3, WrappedErrorIs DEF GoodReply, Moved, MovedBy
<1>5. GoodCall(AfterTry(MovedBy(c, r.n), r.n, r.err), sock)
  BY <1>1, <1>3, <1>4, CallFacts, GoodAfterTry
<1> QED
  BY <1>2, <1>3, <1>4, <1>5, AttemptStep

(* A poll ends: the call tries again, or returns 0 if the poll failed.     *)
LEMMA GoodAfterPoll ==
  ASSUME NEW c, NEW s, GoodCall(c, s), c.pc = "poll"
  PROVE  /\ GoodCall([c EXCEPT !.pc = "io"], s)
         /\ GoodCall([Returned(c, 0, "ok") EXCEPT !.unpolled = TRUE], s)
<1>1. c \in Calls /\ c.moved = 0
  BY DEF GoodCall, Going
<1>2. GoodCall([c EXCEPT !.pc = "io"], s)
  BY <1>1 DEF GoodCall, Going, Reported, Suits, Calls, DataCalls
<1> DEFINE d == Returned(c, 0, "ok")
           e == [d EXCEPT !.unpolled = TRUE]
<1>3. ReturnedOf(c, 0, "ok")
  BY <1>1, ReturnedIs
<1>4. /\ d \in Calls /\ d.pc = "back" /\ d.bytes = 0 /\ d.ec = "ok"
      /\ d.fn = c.fn /\ d.state = c.state /\ d.moved = 0
  BY <1>1, <1>3 DEF ReturnedOf
<1> HIDE DEF d
<1>5. /\ e \in Calls /\ e.pc = "back" /\ e.bytes = 0 /\ e.ec = "ok"
      /\ e.fn = c.fn /\ e.state = c.state /\ e.moved = 0
      /\ e.unpolled = TRUE
  BY <1>4 DEF Calls
<1> HIDE DEF e
<1>6. GoodCall(e, s)
  BY <1>5 DEF GoodCall, Going, Reported, Suits
<1> QED
  BY <1>2, <1>6 DEF d, e

(* poll_read and poll_write keep the invariant.                            *)
LEMMA PollStep ==
  ASSUME SocketInv, NEW t \in Threads, Poll(t)
  PROVE  SocketInv'
<1>1. /\ call[t].pc = "poll" /\ GoodCall(call[t], sock)
      /\ sock' = sock /\ state' = state /\ Later(sock, sock)
  BY CallFacts, SockFacts DEF Poll, Later
<1>2. /\ GoodCall([call[t] EXCEPT !.pc = "io"], sock)
      /\ GoodCall([Returned(call[t], 0, "ok") EXCEPT !.unpolled = TRUE],
                  sock)
  BY <1>1, GoodAfterPoll
<1>3. /\ call' \in [Threads -> Calls]
      /\ \A x \in Threads : GoodCall(call'[x], sock)
  <2>1. CASE call' = [call EXCEPT ![t].pc = "io"]
    <3>1. call' = [call EXCEPT ![t] = [call[t] EXCEPT !.pc = "io"]]
      BY <2>1 DEF SocketInv
    <3> QED
      BY <1>1, <1>2, <3>1, OneCall
  <2>2. CASE call' = [call EXCEPT ![t] =
               [Returned(@, 0, "ok") EXCEPT !.unpolled = TRUE]]
    <3>1. call' = [call EXCEPT ![t] =
                    [Returned(call[t], 0, "ok") EXCEPT !.unpolled = TRUE]]
      BY <2>2 DEF SocketInv
    <3> QED
      BY <1>1, <1>2, <3>1, OneCall
  <2> QED
    BY <2>1, <2>2 DEF Poll
<1>4. errno' \in [Threads -> Errors \cup {"ok"}]
  BY DEF Poll, Failing, ErrnoAfter, SocketInv, Errors
<1>5. signals' \in 0 .. SignalBound
  BY SocketAssumption DEF Poll, Failing, TakeSignal, SocketInv
<1> QED
  BY <1>1, <1>3, <1>4, <1>5 DEF SocketInv

FreshOf(fn, asked, flags) ==
  LET c == Fresh(fn, asked, flags)
  IN /\ c \in Calls /\ c.fn = fn /\ c.pc = "io" /\ c.asked = asked
     /\ c.state = flags /\ c.moved = 0 /\ c.bytes = 0 /\ c.ec = "ok"

(* What a call is when it begins.                                          *)
LEMMA FreshIs ==
  ASSUME NEW fn \in Fns, NEW asked \in Sizes \cup {0},
         NEW flags \in SUBSET Flags
  PROVE  FreshOf(fn, asked, flags)
BY DEF FreshOf, Fresh, Calls

(* A call begins, and one that needs no system call ends at once.          *)
LEMMA GoodBegin ==
  ASSUME NEW fn \in DataCalls, NEW asked \in Sizes, NEW s, NEW flags,
         GoodSock(s, flags)
  PROVE  LET seen == IF fn = "non_blocking_send" THEN {} ELSE flags
             c == Fresh(fn, asked, seen)
         IN /\ GoodCall(Returned(c, 0, "ok"), s) \/ asked > 0
            /\ ~(fn = "sync_recv" /\ asked = 0
                   /\ "stream_oriented" \in flags) => GoodCall(c, s)
<1> DEFINE seen == IF fn = "non_blocking_send" THEN {} ELSE flags
           c == Fresh(fn, asked, seen)
           d == Returned(c, 0, "ok")
<1>1. /\ seen \in SUBSET Flags
      /\ fn # "non_blocking_send" => seen = flags
      /\ fn = "non_blocking_send" => seen = {}
  BY DEF GoodSock
<1>2. fn \in Fns /\ asked \in Nat
  BY SocketAssumption DEF Fns
<1> HIDE DEF seen
<1>3. /\ c \in Calls /\ c.fn = fn /\ c.pc = "io" /\ c.asked = asked
      /\ c.state = seen /\ c.moved = 0
  BY <1>1, <1>2, FreshIs DEF FreshOf
<1> HIDE DEF c
<1>4. /\ d \in Calls /\ d.fn = fn /\ d.pc = "back" /\ d.asked = asked
      /\ d.state = seen /\ d.moved = 0 /\ d.bytes = 0 /\ d.ec = "ok"
  BY <1>3, ReturnedIs DEF ReturnedOf
<1> HIDE DEF d
<1>5. ~s.stream /\ "stream_oriented" \in seen => "datagram_oriented" \in seen
  BY <1>1 DEF GoodSock
<1>6. GoodCall(d, s) \/ asked > 0
  BY <1>2, <1>4, <1>5 DEF GoodCall, Going, Reported, Suits
<1>7. ~(fn = "sync_recv" /\ asked = 0 /\ "stream_oriented" \in flags)
        => GoodCall(c, s)
  BY <1>1, <1>2, <1>3, <1>5 DEF GoodCall, Going, Reported, Suits
<1> QED
  BY <1>6, <1>7 DEF c, d, seen

(* A call begins.                                                          *)
LEMMA BeginStep ==
  ASSUME SocketInv, NEW t \in Threads, NEW fn \in DataCalls,
         NEW asked \in Sizes, Begin(t, fn, asked)
  PROVE  SocketInv'
<1> DEFINE seen == IF fn = "non_blocking_send" THEN {} ELSE state
           c == Fresh(fn, asked, seen)
           nothing == /\ fn = "sync_recv" /\ asked = 0
                      /\ "stream_oriented" \in state
           begun == IF nothing THEN Returned(c, 0, "ok") ELSE c
<1>1. call' = [call EXCEPT ![t] = begun]
  BY DEF Begin
<1>2. GoodCall(begun, sock)
  <2>1. /\ GoodCall(Returned(c, 0, "ok"), sock) \/ asked > 0
        /\ ~nothing => GoodCall(c, sock)
    BY GoodBegin DEF SocketInv
  <2> QED
    BY <2>1
<1>3. Later(sock, sock)
  BY SockFacts DEF Later
<1> HIDE DEF begun
<1>4. /\ call' \in [Threads -> Calls]
      /\ \A x \in Threads : GoodCall(call'[x], sock)
  BY <1>1, <1>2, <1>3, OneCall
<1> QED
  BY <1>4 DEF Begin, SocketInv

(* The calls that are not looked at any further.                           *)
LEMMA GoodPlain ==
  ASSUME NEW s, NEW ec \in Errors \cup {"ok"}
  PROVE  GoodCall(Returned(Fresh("plain", 0, {}), 0, ec), s)
<1> DEFINE c == Fresh("plain", 0, {})
           d == Returned(c, 0, ec)
<1>1. c \in Calls /\ c.fn = "plain" /\ c.state = {}
  BY FreshIs DEF FreshOf, Fns
<1> HIDE DEF c
<1>2. d \in Calls /\ d.fn = "plain" /\ d.pc = "back" /\ d.state = {}
  BY <1>1, ReturnedIs DEF ReturnedOf
<1> HIDE DEF d
<1>3. GoodCall(d, s)
  BY <1>2 DEF GoodCall, Going, Reported, Suits, DataCalls
<1> QED
  BY <1>3 DEF c, d

(* The calls that wrap a system call, or return before it, and what they   *)
(* make of the socket.                                                     *)
LEMMA WrapsStep ==
  ASSUME SocketInv, NEW t \in Threads, NEW r,
         GoodReply(r, sock), r.err = "EINTR" => signals > 0, Wraps(t, r)
  PROVE  SocketInv'
<1> DEFINE ec == WrappedError(t, r)
<1>1. ec \in Errors \cup {"ok"} /\ ErrnoAfter(t, r.err) = r.err
  BY WrappedErrorIs DEF GoodReply
<1>2. call' = [call EXCEPT ![t] = Returned(Fresh("plain", 0, {}), 0, ec)]
  BY DEF Wraps, Plain
<1> HIDE DEF ec
<1>3. sock' = r.sock /\ state' = state /\ Later(sock, sock')
  BY DEF Wraps, GoodReply
<1>4. GoodSock(sock', state')
  BY <1>3 DEF SocketInv, GoodSock, GoodReply, Later
<1>5. /\ call' \in [Threads -> Calls]
      /\ \A x \in Threads : GoodCall(call'[x], sock')
  BY <1>1, <1>2, <1>3, GoodPlain, OneCall
<1>6. errno' \in [Threads -> Errors \cup {"ok"}]
  BY <1>1 DEF Wraps, GoodReply, SocketInv
<1>7. signals' \in 0 .. SignalBound
  BY SocketAssumption DEF Wraps, TakeSignal, SocketInv
<1> QED
  BY <1>4, <1>5, <1>6, <1>7 DEF SocketInv

(* A call that returns before its system call keeps the invariant.         *)
LEMMA ReturnsStep ==
  ASSUME SocketInv, NEW t \in Threads, NEW ec \in Errors \cup {"ok"},
         Returns(t, ec), GoodSock(sock, state')
  PROVE  SocketInv'
<1>1. Later(sock, sock)
  BY SockFacts DEF Later
<1>2. /\ call' \in [Threads -> Calls]
      /\ \A x \in Threads : GoodCall(call'[x], sock)
  BY <1>1, GoodPlain, OneCall DEF Returns, Plain
<1> QED
  BY <1>2 DEF Returns, SocketInv

(* What the system calls that move no data may reply.                      *)
LEMMA PlainReply ==
  ASSUME SocketInv, NEW r, NEW u \in Socks, Later(sock, u),
         \/ r \in Failed
         \/ r \in {Reply(0, "ok", u), Reply(1, "ok", u), Reply(-1, "OTHER", u)}
  PROVE  GoodReply(r, sock) /\ (r.err = "EINTR" => signals > 0)
<1>1. sock \in Socks /\ Later(sock, sock)
  BY SockFacts DEF Later
<1>2. CASE r \in Failed
  <2>1. PICK err \in Failing : r = Reply(-1, err, sock)
    BY <1>2 DEF Failed
  <2>2. /\ err \in Errors /\ err # "EOF" /\ err # "ok"
        /\ err = "EINTR" => signals > 0
    BY DEF Failing, Errors
  <2> QED
    BY <1>1, <2>1, <2>2, ReplyIsGood
<1>3. CASE r \in {Reply(0, "ok", u), Reply(1, "ok", u), Reply(-1, "OTHER", u)}
  BY <1>3, ReplyIsGood DEF Errors
<1> QED
  BY <1>2, <1>3

(* bind, accept and connect keep the invariant.                            *)
LEMMA OpeningStep ==
  ASSUME SocketInv, NEW t \in Threads, Bind(t) \/ Accept(t) \/ Connect(t)
  PROVE  SocketInv'
<1>1. PICK r \in Failed \cup {Reply(0, "ok", sock), Reply(1, "ok", sock)} :
        Wraps(t, r)
  BY DEF Bind, Accept, Connect
<1>2. sock \in Socks /\ Later(sock, sock)
  BY SockFacts DEF Later
<1> QED
  BY <1>1, <1>2, PlainReply, WrapsStep

(* shutdown keeps the invariant.                                           *)
LEMMA ShutdownStep ==
  ASSUME SocketInv, NEW t \in Threads, NEW what \in Shutdowns,
         Shutdown(t, what)
  PROVE  SocketInv'
<1> DEFINE shut == [sock EXCEPT !.shut = @ \cup what]
<1>1. PICK r \in Failed \cup {Reply(0, "ok", shut), Reply(-1, "OTHER", shut)} :
        Wraps(t, r)
  BY DEF Shutdown
<1>2. shut \in Socks /\ Later(sock, shut)
  BY SockFacts, ShutChanged, SocketAssumption
<1> HIDE DEF shut
<1> QED
  BY <1>1, <1>2, PlainReply, WrapsStep

(* setsockopt keeps the invariant.                                         *)
LEMMA SetsockoptStep ==
  ASSUME SocketInv, NEW t \in Threads, NEW on \in Options, Setsockopt(t, on)
  PROVE  SocketInv'
<1>1. CASE Returns(t, "OTHER") /\ UNCHANGED state
  BY <1>1, ReturnsStep DEF SocketInv, Errors
<1>2. CASE SetConnectionAborted(t, on)
  <2>1. GoodSock(sock, state')
    BY <1>2 DEF SetConnectionAborted, SocketInv, GoodSock, Flags
  <2> QED
    BY <1>2, <2>1, ReturnsStep DEF SetConnectionAborted
<1>3. ASSUME NEW r \in Failed \cup {Reply(0, "ok", sock)}, Wraps(t, r)
      PROVE  SocketInv'
  <2>1. sock \in Socks /\ Later(sock, sock)
    BY SockFacts DEF Later
  <2> QED
    BY <1>3, <2>1, PlainReply, WrapsStep
<1> QED
  BY <1>1, <1>2, <1>3 DEF Setsockopt

(* getsockopt keeps the invariant.                                         *)
LEMMA GetsockoptStep ==
  ASSUME SocketInv, NEW t \in Threads, Getsockopt(t)
  PROVE  SocketInv'
<1> DEFINE taken == [sock EXCEPT !.err = FALSE]
<1>1. ASSUME NEW ec \in {"OTHER", "ok"}, Returns(t, ec), UNCHANGED state
      PROVE  SocketInv'
  BY <1>1, ReturnsStep DEF SocketInv, Errors
<1>2. ASSUME NEW r \in Failed \cup {Reply(0, "ok", sock), Reply(0, "ok", taken)},
             Wraps(t, r)
      PROVE  SocketInv'
  <2>1. /\ sock \in Socks /\ Later(sock, sock)
        /\ taken \in Socks /\ Later(sock, taken)
    BY SockFacts, ErrorTaken DEF Later
  <2> HIDE DEF taken
  <2>2. GoodReply(r, sock) /\ (r.err = "EINTR" => signals > 0)
    <3>1. CASE r \in Failed \cup {Reply(0, "ok", sock)}
      BY <2>1, <3>1, PlainReply
    <3>2. CASE r = Reply(0, "ok", taken)
      BY <2>1, <3>2, PlainReply
    <3> QED
      BY <1>2, <3>1, <3>2
  <2> QED
    BY <1>2, <2>2, WrapsStep
<1> QED
  BY <1>1, <1>2 DEF Getsockopt

(* A call on an object that is not open keeps the invariant.               *)
LEMMA CallNotOpenStep ==
  ASSUME SocketInv, NEW t \in Threads, NEW fn \in Fns, CallNotOpen(t, fn)
  PROVE  SocketInv'
<1> DEFINE c == Fresh(fn, 0, {})
           d == Returned(c, 0, "OTHER")
<1>1. c \in Calls /\ c.fn = fn /\ c.state = {} /\ c.asked = 0 /\ c.moved = 0
  BY FreshIs DEF FreshOf
<1> HIDE DEF c
<1>2. /\ d \in Calls /\ d.fn = fn /\ d.pc = "back" /\ d.state = {}
      /\ d.asked = 0 /\ d.moved = 0 /\ d.bytes = 0 /\ d.ec = "OTHER"
  <2>1. ReturnedOf(c, 0, "OTHER")
    BY <1>1, ReturnedIs DEF Errors
  <2> QED
    BY <1>1, <2>1 DEF ReturnedOf
<1>3. call' = [call EXCEPT ![t] = d]
  BY DEF CallNotOpen, c
<1> HIDE DEF d
<1>4. GoodCall(d, sock)
  BY <1>2 DEF GoodCall, Going, Reported, Suits
<1>5. Later(sock, sock)
  BY SockFacts DEF Later
<1>6. /\ call' \in [Threads -> Calls]
      /\ \A x \in Threads : GoodCall(call'[x], sock)
  BY <1>3, <1>4, <1>5, OneCall
<1>7. errno' \in [Threads -> Errors \cup {"ok"}]
  BY DEF CallNotOpen, Errors, SocketInv
<1> QED
  BY <1>6, <1>7 DEF CallNotOpen, SocketInv

(* The peer.                                                               *)
LEMMA PeerStep ==
  ASSUME SocketInv, PeerReads \/ PeerSends \/ PeerLeaves
  PROVE  SocketInv'
<1>1. sock' \in Socks /\ Later(sock, sock')
  <2>1. CASE PeerReads
    <3>1. sock.space + 1 \in 0 .. Capacity
      BY <2>1, SockFacts, SocketAssumption DEF PeerReads, Socks
    <3> QED
      BY <2>1, <3>1, SockFacts, SpaceChanged DEF PeerReads
  <2>2. CASE PeerSends
    <3>1. PICK n \in Nat : sock' = [sock EXCEPT !.data = Append(@, n)]
      <4>1. (IF sock.stream THEN {1} ELSE 0 .. 1) \subseteq Nat
        OBVIOUS
      <4> QED
        BY <2>2, <4>1 DEF PeerSends
    <3>2. sock.data \in Seq(Nat) /\ Len(sock.data) < Capacity
      BY <2>2, SockFacts DEF PeerSends, Socks
    <3> DEFINE d == Append(sock.data, n)
    <3>3. d \in Seq(Nat) /\ Len(d) <= Capacity
      BY <3>2, AppendProperties, SocketAssumption
    <3> HIDE DEF d
    <3>4. sock' = [sock EXCEPT !.data = d]
      BY <3>1 DEF d
    <3> QED
      BY <3>3, <3>4, SockFacts, DataChanged
  <2>3. CASE PeerLeaves
    <3>1. sock \in Socks /\ (sock.eof => sock.stream) /\ <<>> \in Seq(Nat)
          /\ Len(<<>>) <= Capacity
      BY SockFacts, SocketAssumption
    <3>2. CASE sock.stream /\ sock' = [sock EXCEPT !.eof = TRUE]
      BY <3>1, <3>2 DEF Socks, Later
    <3>3. CASE sock.stream /\ sock' =
                 [sock EXCEPT !.eof = TRUE, !.reset = TRUE, !.err = TRUE,
                              !.data = <<>>]
      BY <3>1, <3>3 DEF Socks, Later
    <3>4. CASE sock' = [sock EXCEPT !.err = TRUE]
      BY <3>1, <3>4 DEF Socks, Later
    <3> QED
      BY <2>3, <3>2, <3>3, <3>4 DEF PeerLeaves
  <2> QED
    BY <2>1, <2>2, <2>3
<1>2. UNCHANGED <<state, errno, call, signals>>
  BY DEF PeerReads, PeerSends, PeerLeaves
<1>3. GoodSock(sock', state')
  BY <1>1, <1>2 DEF SocketInv, GoodSock, Later
<1>4. \A x \in Threads : GoodCall(call'[x], sock')
  BY <1>1, <1>2, StillGood DEF SocketInv
<1> QED
  BY <1>2, <1>3, <1>4 DEF SocketInv

-----------------------------------------------------------------------------
(* The theorems.                                                           *)

(* No call has been made.                                                  *)
LEMMA InitSocketInv == Init => SocketInv
<1> SUFFICES ASSUME Init PROVE SocketInv
  OBVIOUS
<1>1. PICK stream \in BOOLEAN : \E mode \in Modes :
        /\ state = mode \cup
             {IF stream THEN "stream_oriented" ELSE "datagram_oriented"}
        /\ sock = [stream |-> stream, nonblock |-> mode # {},
                   space |-> Capacity, data |-> <<>>, eof |-> FALSE,
                   reset |-> FALSE, err |-> FALSE, shut |-> {}]
  BY DEF Init
<1>2. sock \in Socks
  BY <1>1, SocketAssumption DEF Socks
<1>3. GoodSock(sock, state)
  BY <1>1, <1>2, SocketAssumption DEF GoodSock, Flags, non_blocking
<1>4. \A t \in Threads : GoodCall(call[t], sock)
  BY GoodPlain DEF Init
<1>5. call \in [Threads -> Calls]
  BY <1>4 DEF Init, GoodCall
<1> QED
  BY <1>3, <1>4, <1>5, SocketAssumption DEF Init, SocketInv

(* Every step keeps the invariant.                                         *)
LEMMA NextSocketInv == SocketInv /\ [Next]_vars => SocketInv'
<1> SUFFICES ASSUME SocketInv, [Next]_vars PROVE SocketInv'
  OBVIOUS
<1>1. ASSUME NEW t \in Threads, Continue(t) PROVE SocketInv'
  BY <1>1, SyncSendStep, SyncRecvStep, NonBlockingSendStep, PollStep
     DEF Continue
<1>2. ASSUME NEW t \in Threads, Choose(t) PROVE SocketInv'
  BY <1>2, BeginStep, CallNotOpenStep, OpeningStep, ShutdownStep,
     SetsockoptStep, GetsockoptStep DEF Choose
<1>3. CASE PeerReads \/ PeerSends \/ PeerLeaves
  BY <1>3, PeerStep
<1>4. CASE UNCHANGED vars
  BY <1>4 DEF vars, SocketInv
<1> QED
  BY <1>1, <1>2, <1>3, <1>4 DEF Next

(* Every state the socket's threads and its peer reach is one of the       *)
(* invariant, with any number of threads and signals and any sizes.        *)
THEOREM SocketInvariant == Spec => []SocketInv
BY InitSocketInv, NextSocketInv, PTL DEF Spec

(* What the threads hand to socket_ops and get back has its types, and the *)
(* kernel's buffers stay within their capacity.                            *)
THEOREM SocketTypes == Spec => []TypeOK
<1>1. SocketInv => TypeOK
  BY DEF SocketInv, GoodSock, TypeOK, Socks, Calls
<1> QED
  BY <1>1, SocketInvariant, PTL

(* sync_send, sync_recv and non_blocking_send report exactly the bytes the *)
(* kernel moved for them, and loop only while nothing was moved.           *)
THEOREM BytesReported == Spec => []ReportsWhatMoved
<1>1. SocketInv => ReportsWhatMoved
  BY DEF SocketInv, GoodCall, Going, Reported, ReportsWhatMoved, Back
<1> QED
  BY <1>1, SocketInvariant, PTL

(* sync_send gives would_block only where the flags say the user asked for *)
(* non-blocking mode, and sync_recv never does.                            *)
THEOREM WouldBlockAsked == Spec => []WouldBlockOnlyOnRequest
<1>1. SocketInv => WouldBlockOnlyOnRequest
  BY DEF SocketInv, GoodCall, Reported, WouldBlockOnlyOnRequest, Back,
         DataCalls
<1> QED
  BY <1>1, SocketInvariant, PTL

(* A call that moved nothing of what it was given gives an error, or its   *)
(* poll failed; and an error means that nothing moved.                     *)
THEOREM ErrorOrProgress == Spec => []NothingMovedHasError
<1>1. SocketInv => NothingMovedHasError
  BY DEF SocketInv, GoodCall, Reported, NothingMovedHasError, Back
<1> QED
  BY <1>1, SocketInvariant, PTL

(* sync_recv gives end of file only for a stream that the peer has ended   *)
(* or this side has shut down for reading, or with flags that setsockopt   *)
(* spoiled.                                                                *)
THEOREM EofIsTheEnd == Spec => []EofAtEnd
<1>1. SocketInv => EofAtEnd
  BY DEF SocketInv, GoodCall, Suits, Ended, EofAtEnd, Back
<1> QED
  BY <1>1, SocketInvariant, PTL
=============================================================================
