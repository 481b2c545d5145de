------------------------------ MODULE SocketOps -------------------------------
(***************************************************************************)
(* boost::asio::detail::socket_ops (socket_ops.cc): the calls that move    *)
(* data - sync_send, sync_recv and non_blocking_send, with the wrappers    *)
(* send, recv, poll_read and poll_write they loop over - and the calls     *)
(* that wrap one system call, all on one socket shared by several threads. *)
(*                                                                         *)
(* A step is one system call with what the code does until the next one.   *)
(* errno is explicit: it belongs to the thread, a system call only sets it *)
(* when it fails, and what the code makes of it decides whether data is    *)
(* sent again.  Data is counted, not compared.                             *)
(***************************************************************************)
EXTENDS Integers, Sequences, FiniteSets

CONSTANTS
  Threads,       (* threads that use the socket                              *)
  Capacity,      (* what the send buffer and the receive queue hold          *)
  Sizes,         (* total sizes of the buffer sequences they pass            *)
  Modes,         (* non-blocking modes the socket may be in                  *)
  Options,       (* values they give to enable_connection_aborted            *)
  Shutdowns,     (* what they may ask of shutdown                            *)
  SignalBound    (* how many signals interrupt system calls                  *)

non_blocking == {"user_set_non_blocking", "internal_non_blocking"}
Directions == {"read", "write"}

ASSUME SocketAssumption ==
  /\ IsFiniteSet(Threads) /\ Capacity \in Nat \ {0} /\ SignalBound \in Nat
  /\ Sizes \subseteq Nat /\ Options \subseteq BOOLEAN
  /\ Modes \subseteq SUBSET non_blocking
  /\ Shutdowns \subseteq SUBSET Directions

(* state_type, without user_set_linger and possible_dup, which are never   *)
(* looked at.                                                              *)
Flags == {"user_set_non_blocking", "internal_non_blocking",
          "enable_connection_aborted", "stream_oriented", "datagram_oriented"}

(* EAGAIN and EWOULDBLOCK are one number on Linux.  "EOF" is               *)
(* errc::invalid_seek, which sync_recv gives for end of file.  "OTHER" is  *)
(* every other error: a broken connection, a socket that is not open, a    *)
(* bad argument.                                                           *)
Errors == {"EINTR", "EAGAIN", "EOF", "OTHER"}

DataCalls == {"sync_send", "sync_recv", "non_blocking_send"}

VARIABLES
  state,     (* the socket's flags, shared by its threads                    *)
  errno,     (* of each thread                                               *)
  call,      (* of each thread: its call in progress, or the last one        *)
  sock,      (* the kernel's socket                                          *)
  signals    (* how many are still to come                                   *)

vars == <<state, errno, call, sock, signals>>

Fns == {"plain"} \cup DataCalls

(* state: the flags as they were when the call began; it has a copy.       *)
(* moved: the bytes the kernel took from, or gave to, the call.            *)
(* unpolled: a poll of the call failed.                                    *)
TypeOK ==
  /\ state \subseteq Flags
  /\ errno \in [Threads -> Errors \cup {"ok"}]
  /\ call \in [Threads ->
       [fn : Fns, pc : {"io", "poll", "back"}, asked : Sizes \cup {0},
        state : SUBSET Flags, moved : Nat, bytes : Nat,
        ec : Errors \cup {"ok"}, unpolled : BOOLEAN]]
  /\ sock.stream \in BOOLEAN /\ sock.nonblock \in BOOLEAN
  /\ sock.space \in 0 .. Capacity
  /\ sock.data \in Seq(Nat) /\ Len(sock.data) <= Capacity
  /\ sock.eof \in BOOLEAN /\ sock.reset \in BOOLEAN /\ sock.err \in BOOLEAN
  /\ sock.shut \subseteq Directions
  /\ signals \in 0 .. SignalBound

-----------------------------------------------------------------------------
(***************************************************************************)
(* The kernel.  A reply is [n, err, sock]: the value returned, -1 with err *)
(* for a failure, and the socket afterwards.                               *)
(***************************************************************************)
Lesser(a, b) == IF a < b THEN a ELSE b

Reply(n, err, s) == [n |-> n, err |-> err, sock |-> s]

(* An error of the socket is reported once.                                *)
ErrorReply(s) == Reply(-1, "OTHER", [s EXCEPT !.err = FALSE])

(* sendmsg on the socket.  A stream takes as much as it has room for, or   *)
(* less; a datagram takes all or nothing.                                  *)
SendReplies(s, asked) ==
  IF s.err THEN {ErrorReply(s)}
  ELSE IF s.reset \/ "write" \in s.shut THEN {Reply(-1, "OTHER", s)}
  ELSE IF s.stream /\ asked = 0 THEN {Reply(0, "ok", s)}
  ELSE IF s.space = 0
    THEN IF s.nonblock THEN {Reply(-1, "EAGAIN", s)} ELSE {}
  ELSE IF s.stream
    THEN {Reply(n, "ok", [s EXCEPT !.space = @ - n]) :
            n \in 1 .. Lesser(asked, s.space)}
  ELSE {Reply(asked, "ok", [s EXCEPT !.space = @ - 1])}

(* recvmsg.  The receive queue of a stream is one of single bytes.  With   *)
(* the queue empty it returns 0 at the end of a stream, and for a socket   *)
(* that this side has shut down for reading.                               *)
RecvReplies(s, asked) ==
  IF s.err THEN {ErrorReply(s)}
  ELSE IF s.stream /\ asked = 0 THEN {Reply(0, "ok", s)}
  ELSE IF s.data # <<>>
    THEN IF s.stream
      THEN {Reply(n, "ok", [s EXCEPT !.data = SubSeq(@, n + 1, Len(@))]) :
              n \in 1 .. Lesser(asked, Len(s.data))}
      ELSE {Reply(Lesser(asked, Head(s.data)), "ok",
                  [s EXCEPT !.data = Tail(@)])}
  ELSE IF s.stream /\ (s.eof \/ "read" \in s.shut) THEN {Reply(0, "ok", s)}
  ELSE IF s.nonblock THEN {Reply(-1, "EAGAIN", s)}
  ELSE IF "read" \in s.shut THEN {Reply(0, "ok", s)} ELSE {}

Readable(s) == s.data # <<>> \/ s.eof \/ s.err \/ "read" \in s.shut
Writable(s) == s.space > 0 \/ s.reset \/ s.err \/ "write" \in s.shut

(* A signal may interrupt any of the calls.                                *)
Interruption ==
  IF signals > 0 THEN {Reply(-1, "EINTR", sock)} ELSE {}

(* What a call that does not move data may fail with; EAGAIN (of accept,   *)
(* say) is one of the others to it.                                        *)
Failing == {"OTHER"} \cup (IF signals > 0 THEN {"EINTR"} ELSE {})

(* A signal that interrupted a call is gone.                               *)
TakeSignal(err) == signals' = IF err = "EINTR" THEN signals - 1 ELSE signals

(* The peer.                                                               *)
PeerReads ==
  /\ sock.space < Capacity
  /\ sock' = [sock EXCEPT !.space = @ + 1]
  /\ UNCHANGED <<state, errno, call, signals>>

PeerSends ==
  /\ ~sock.eof /\ Len(sock.data) < Capacity
  /\ \E n \in IF sock.stream THEN {1} ELSE 0 .. 1 :
       sock' = [sock EXCEPT !.data = Append(@, n)]
  /\ UNCHANGED <<state, errno, call, signals>>

(* A stream ends, or is reset; a datagram was refused.                     *)
PeerLeaves ==
  /\ \/ sock.stream /\ sock' = [sock EXCEPT !.eof = TRUE]
     \/ /\ sock.stream /\ ~sock.reset
        /\ sock' = [sock EXCEPT !.eof = TRUE, !.reset = TRUE, !.err = TRUE,
                                !.data = <<>>]
     \/ ~sock.stream /\ sock' = [sock EXCEPT !.err = TRUE]
  /\ UNCHANGED <<state, errno, call, signals>>

-----------------------------------------------------------------------------
(***************************************************************************)
(* Errors.                                                                 *)
(***************************************************************************)

(* Variant: clear_last_error is not called.                                *)
ErrnoKept(t, err) == IF err = "ok" THEN errno[t] ELSE err

(* errno after clear_last_error and a system call.                         *)
ErrnoAfter(t, err) == IF err = "ok" THEN "ok" ELSE err

(* Variant: the error is always cleared, as by poll_read and poll_write.   *)
NoError(t, r) == "ok"

(* error_wrapper, then clear_current_error(result == 0).                   *)
WrappedError(t, r) == IF r.n = 0 THEN "ok" ELSE ErrnoAfter(t, r.err)

-----------------------------------------------------------------------------
(***************************************************************************)
(* The calls.                                                              *)
(***************************************************************************)
Fresh(fn, asked, flags) ==
  [fn |-> fn, pc |-> "io", asked |-> asked, state |-> flags, moved |-> 0,
   bytes |-> 0, ec |-> "ok", unpolled |-> FALSE]

Returned(c, bytes, ec) ==
  [c EXCEPT !.pc = "back", !.bytes = bytes, !.ec = ec]

(* Variant: empty buffers are not looked at.                               *)
BeginUnchecked(t, fn, asked) ==
  /\ call[t].pc = "back"
  /\ call' = [call EXCEPT ![t] = Fresh(fn, asked, state)]
  /\ UNCHANGED <<state, errno, sock, signals>>

(* A call begins.  sync_recv of nothing on a stream returns at once.       *)
Begin(t, fn, asked) ==
  /\ call[t].pc = "back"
  /\ LET c == Fresh(fn, asked, IF fn = "non_blocking_send" THEN {} ELSE state)
         nothing == /\ fn = "sync_recv" /\ asked = 0
                    /\ "stream_oriented" \in state
         begun == IF nothing THEN Returned(c, 0, "ok") ELSE c
     IN call' = [call EXCEPT ![t] = begun]
  /\ UNCHANGED <<state, errno, sock, signals>>

(* The call in progress, with what the kernel moved for it added.          *)
Moved(t, r) == [call[t] EXCEPT !.moved = @ + (IF r.n > 0 THEN r.n ELSE 0)]

(* One attempt of a call that moves data: the system call, and how the     *)
(* code goes on after it.                                                  *)
Attempt(t, r, after) ==
  /\ call[t].pc = "io"
  /\ sock' = r.sock
  /\ errno' = [errno EXCEPT ![t] = ErrnoAfter(t, r.err)]
  /\ TakeSignal(r.err)
  /\ call' = [call EXCEPT ![t] = after]
  /\ UNCHANGED state

Polling(c) == [c EXCEPT !.pc = "poll"]

(* Variant: would_block is given to every caller.                          *)
AfterSendImpatient(c, n, ec) ==
  IF n >= 0 THEN Returned(c, n, ec) ELSE Returned(c, 0, ec)

(* sync_send after a send.                                                 *)
AfterSend(c, n, ec) ==
  IF n >= 0 THEN Returned(c, n, ec)
  ELSE IF "user_set_non_blocking" \in c.state \/ ec # "EAGAIN"
    THEN Returned(c, 0, ec)
  ELSE Polling(c)

SyncSend(t) ==
  /\ call[t].fn = "sync_send"
  /\ \E r \in SendReplies(sock, call[t].asked) \cup Interruption :
       Attempt(t, r, AfterSend(Moved(t, r), r.n, WrappedError(t, r)))

(* sync_recv after a recv.  Nothing but a stream gives up, be it on an     *)
(* error or on an empty datagram.                                          *)
AfterRecv(c, n, ec) ==
  LET stream == "stream_oriented" \in c.state
  IN IF n > 0 THEN Returned(c, n, ec)
     ELSE IF stream /\ n = 0 THEN Returned(c, 0, "EOF")
     ELSE IF stream /\ ec # "EAGAIN" THEN Returned(c, 0, ec)
     ELSE Polling(c)

SyncRecv(t) ==
  /\ call[t].fn = "sync_recv"
  /\ \E r \in RecvReplies(sock, call[t].asked) \cup Interruption :
       Attempt(t, r, AfterRecv(Moved(t, r), r.n, WrappedError(t, r)))

(* Variant: the result is given as it is, -1 for a failure.                *)
AfterTryUnclamped(c, n, ec) ==
  IF ec = "EINTR" THEN c
  ELSE IF ec = "EAGAIN" THEN Returned(c, 0, ec)
  ELSE Returned(c, n, IF n >= 0 THEN "ok" ELSE ec)

(* non_blocking_send after a send.  It looks at the error only: again      *)
(* after a signal, false with would_block, and true with what was sent.    *)
AfterTry(c, n, ec) ==
  IF ec = "EINTR" THEN c
  ELSE IF ec = "EAGAIN" THEN Returned(c, 0, ec)
  ELSE Returned(c, IF n >= 0 THEN n ELSE 0, IF n >= 0 THEN "ok" ELSE ec)

NonBlockingSend(t) ==
  /\ call[t].fn = "non_blocking_send"
  /\ \E r \in SendReplies(sock, call[t].asked) \cup Interruption :
       Attempt(t, r, AfterTry(Moved(t, r), r.n, WrappedError(t, r)))

(* poll_write and poll_read, which sync_send and sync_recv call with a     *)
(* state of 0: they wait until the socket is ready.                        *)
Ready(t) == IF call[t].fn = "sync_send" THEN Writable(sock) ELSE Readable(sock)

(* The error of the poll is cleared whether it failed or not; a poll that  *)
(* failed, of a signal or of anything else, ends the call with 0 bytes.    *)
Poll(t) ==
  /\ call[t].pc = "poll"
  /\ \/ /\ Ready(t)
        /\ call' = [call EXCEPT ![t].pc = "io"]
        /\ errno' = [errno EXCEPT ![t] = ErrnoAfter(t, "ok")]
        /\ UNCHANGED signals
     \/ \E err \in Failing :
          /\ call' = [call EXCEPT
               ![t] = [Returned(@, 0, "ok") EXCEPT !.unpolled = TRUE]]
          /\ errno' = [errno EXCEPT ![t] = ErrnoAfter(t, err)]
          /\ TakeSignal(err)
  /\ UNCHANGED <<state, sock>>

-----------------------------------------------------------------------------
(***************************************************************************)
(* The calls that wrap one system call at most.  Of them the properties    *)
(* only see what they leave in errno, in the flags and in the kernel.      *)
(***************************************************************************)

(* Such a call is over, with error ec.                                     *)
Plain(t, ec) ==
  /\ call[t].pc = "back"
  /\ call' = [call EXCEPT ![t] = Returned(Fresh("plain", 0, {}), 0, ec)]

(* It has made its system call.                                            *)
Wraps(t, r) ==
  /\ Plain(t, WrappedError(t, r))
  /\ errno' = [errno EXCEPT ![t] = ErrnoAfter(t, r.err)]
  /\ TakeSignal(r.err)
  /\ sock' = r.sock
  /\ UNCHANGED state

(* It has returned before that.                                            *)
Returns(t, ec) == Plain(t, ec) /\ UNCHANGED <<errno, sock, signals>>

Failed == {Reply(-1, err, sock) : err \in Failing}

(* bind; listen, getpeername and getsockname are the same.                 *)
Bind(t) == \E r \in Failed \cup {Reply(0, "ok", sock)} : Wraps(t, r)

(* accept succeeds with a descriptor, and its error is cleared for any.    *)
Accept(t) == \E r \in Failed \cup {Reply(1, "ok", sock)} : Wraps(t, r)

(* connect.  It never returns more than 0, so that EAGAIN is not made      *)
(* not_enough_memory.                                                      *)
Connect(t) == \E r \in Failed \cup {Reply(0, "ok", sock)} : Wraps(t, r)

(* shutdown.  A socket that is not connected is shut down with an error.   *)
Shutdown(t, what) ==
  LET shut == [sock EXCEPT !.shut = @ \cup what]
  IN \E r \in Failed \cup {Reply(0, "ok", shut), Reply(-1, "OTHER", shut)} :
       Wraps(t, r)

(* setsockopt of enable_connection_aborted.  Switching it off sets every   *)
(* other flag: state |= ~enable_connection_aborted.                        *)
SetConnectionAborted(t, on) ==
  /\ state' = state \cup (IF on THEN {"enable_connection_aborted"}
                          ELSE Flags \ {"enable_connection_aborted"})
  /\ Returns(t, "ok")

(* setsockopt.  A custom option is refused for its name or its length, or  *)
(* it is the flag; any other is the kernel's.                              *)
Setsockopt(t, on) ==
  \/ Returns(t, "OTHER") /\ UNCHANGED state
  \/ SetConnectionAborted(t, on)
  \/ \E r \in Failed \cup {Reply(0, "ok", sock)} : Wraps(t, r)

(* getsockopt: the same, but that it looks at the flag.  SO_ERROR takes    *)
(* the error of the socket.                                                *)
Getsockopt(t) ==
  \/ \E ec \in {"OTHER", "ok"} : Returns(t, ec) /\ UNCHANGED state
  \/ \E r \in Failed \cup {Reply(0, "ok", sock),
                           Reply(0, "ok", [sock EXCEPT !.err = FALSE])} :
       Wraps(t, r)

(* Any call on an object that is not open is given invalid_socket, and     *)
(* returns before it has touched errno.  Only non_blocking_send does not   *)
(* look at it, and is told by the kernel.                                  *)
CallNotOpen(t, fn) ==
  /\ call[t].pc = "back"
  /\ call' = [call EXCEPT ![t] = Returned(Fresh(fn, 0, {}), 0, "OTHER")]
  /\ errno' = IF fn = "non_blocking_send" THEN [errno EXCEPT ![t] = "OTHER"]
                                          ELSE errno
  /\ UNCHANGED <<state, sock, signals>>

-----------------------------------------------------------------------------
(* A stream or a datagram socket, in blocking mode or not.                 *)
Init ==
  /\ \E stream \in BOOLEAN, mode \in Modes :
       /\ state = mode \cup
            {IF stream THEN "stream_oriented" ELSE "datagram_oriented"}
       /\ sock = [stream |-> stream, nonblock |-> mode # {},
                  space |-> Capacity, data |-> <<>>, eof |-> FALSE,
                  reset |-> FALSE, err |-> FALSE, shut |-> {}]
  /\ errno = [t \in Threads |-> "ok"]
  /\ call = [t \in Threads |-> Returned(Fresh("plain", 0, {}), 0, "ok")]
  /\ signals = SignalBound

Continue(t) == SyncSend(t) \/ SyncRecv(t) \/ NonBlockingSend(t) \/ Poll(t)

Choose(t) ==
  \/ \E fn \in DataCalls, asked \in Sizes : Begin(t, fn, asked)
  \/ \E fn \in Fns : CallNotOpen(t, fn)
  \/ Bind(t) \/ Accept(t) \/ Connect(t)
  \/ \E what \in Shutdowns : Shutdown(t, what)
  \/ \E on \in Options : Setsockopt(t, on)
  \/ Getsockopt(t)

Next ==
  \/ \E t \in Threads : Continue(t) \/ Choose(t)
  \/ PeerReads \/ PeerSends \/ PeerLeaves

Spec == Init /\ [][Next]_vars

-----------------------------------------------------------------------------
(* Properties.                                                             *)

Back(t, fns) == call[t].pc = "back" /\ call[t].fn \in fns

(* A call reports exactly the bytes the kernel moved for it: a loop never  *)
(* sends again what was sent, and nothing that was sent is reported as     *)
(* lost - whatever errno held before.                                      *)
ReportsWhatMoved ==
  \A t \in Threads :
    /\ Back(t, DataCalls) => call[t].bytes = call[t].moved
    /\ call[t].pc # "back" => call[t].moved = 0

(* sync_send does not give would_block to a user who did not ask for       *)
(* non-blocking mode, and sync_recv gives it to nobody, although the       *)
(* socket itself may be non-blocking and other threads use it up - though  *)
(* setsockopt of enable_connection_aborted may ask in the user's name.     *)
WouldBlockOnlyOnRequest ==
  \A t \in Threads :
    /\ Back(t, {"sync_send"}) /\ call[t].ec = "EAGAIN"
         => "user_set_non_blocking" \in call[t].state
    /\ Back(t, {"sync_recv"}) => call[t].ec # "EAGAIN"

(* A call that moved nothing although it was asked to gives an error,      *)
(* unless its poll failed; and an error means that nothing moved.          *)
NothingMovedHasError ==
  \A t \in Threads :
    /\ Back(t, DataCalls) /\ call[t].asked > 0 /\ call[t].moved = 0
         => call[t].ec # "ok" \/ call[t].unpolled
    /\ Back(t, DataCalls) /\ call[t].ec # "ok" => call[t].moved = 0

(* What switching enable_connection_aborted off makes of the flags.        *)
Spoiled(flags) == {"stream_oriented", "datagram_oriented"} \subseteq flags

(* sync_recv gives end of file when the peer has ended a stream or this    *)
(* side has shut it down for reading, and not for an empty buffer or an    *)
(* empty datagram, as long as the flags are what they were made: on a      *)
(* datagram socket spoiled by setsockopt it does.                          *)
EofAtEnd ==
  \A t \in Threads :
    Back(t, {"sync_recv"}) /\ call[t].ec = "EOF" =>
      \/ sock.stream /\ (sock.eof \/ "read" \in sock.shut)
      \/ Spoiled(call[t].state)
==============================================================================
