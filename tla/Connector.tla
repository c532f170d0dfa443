----------------------------- MODULE Connector -----------------------------
(***************************************************************************)
(* windz::Connector, as operators from its record c to the next one.  All  *)
(* of them run in the loop thread; module TcpClient says when.             *)
(*                                                                         *)
(*   start_           set and cleared by the user's thread too             *)
(*   state_           kDisconnected, kConnecting or kConnected             *)
(*   channel_         "null", "armed" (waiting for EPOLLOUT) or "closed"   *)
(*                    (out of the epoll set, not yet reset)                *)
(*   retry_duration_  in units of kInitRetryDuration                       *)
(*   functors         its closures in the loop's queue                     *)
(*   fresh, due       its retry timers: set in this iteration, and others  *)
(*   failed           asserts that failed: the process ends there          *)
(*   fatal            history: connect() failed with an error not retried  *)
(*                                                                         *)
(* r is how connect() ends: "pending" (0, EINPROGRESS, EINTR, EISCONN),    *)
(* "refused" (the errors that are retried) or "fatal" (the others).        *)
(***************************************************************************)
EXTENDS Naturals, Sequences

CONSTANT kMaxRetry   \* kMaxRetryDuration / kInitRetryDuration

ASSUME ConnectorAssumption == kMaxRetry \in Nat \ {0}

InitConnector ==
    [start_ |-> FALSE, state_ |-> "kDisconnected", channel_ |-> "null",
     retry_duration_ |-> 1, functors |-> <<>>, fresh |-> 0, due |-> 0,
     failed |-> {}, fatal |-> FALSE]

Assert_(c, where, holds) ==
    IF holds THEN c ELSE [c EXCEPT !.failed = @ \cup {where}]

Connecting(c) ==
    [Assert_(c, "Connecting", c.channel_ = "null")
        EXCEPT !.state_ = "kConnecting", !.channel_ = "armed"]

\* The socket is closed, and a timer set if the connector is still wanted.
Retry(c) ==
    LET d == [c EXCEPT !.state_ = "kDisconnected"]
        twice == 2 * c.retry_duration_
    IN  IF ~c.start_ THEN d
        ELSE [d EXCEPT !.fresh = @ + 1,
                       !.retry_duration_ = IF twice > kMaxRetry THEN kMaxRetry
                                                                ELSE twice]

\* A fatal error closes the socket and leaves it at that.
Connect(c, r) ==
    CASE r = "pending" -> Connecting(c)
      [] r = "refused" -> Retry(c)
      [] r = "fatal" -> [c EXCEPT !.fatal = TRUE]

\* A slip: the channel is not reset.
ResetChannelLater(c) == [c EXCEPT !.channel_ = "closed"]

\* The channel leaves the epoll set now; channel_.reset() is queued.
ResetChannel(c) ==
    [c EXCEPT !.channel_ = "closed", !.functors = Append(@, "reset")]

\* The closure of Start().
StartInLoop(c, r) ==
    LET d == Assert_(c, "Start", c.state_ = "kDisconnected")
    IN  IF d.start_ THEN Connect(d, r) ELSE d

\* The closure of Stop().
StopInLoop(c) ==
    IF c.state_ = "kConnecting"
    THEN ResetChannel([c EXCEPT !.state_ = "kDisconnected"])
    ELSE c

Restart(c, r) ==
    Connect([c EXCEPT !.state_ = "kDisconnected", !.retry_duration_ = 1,
                      !.start_ = TRUE], r)

\* A slip: RunEvery instead of RunAfter.
RetryTimerRepeats(c, r) ==
    LET d == Assert_(c, "Retry", c.state_ = "kDisconnected")
    IN  IF d.start_ THEN Connect(d, r) ELSE d

\* The closure of the retry timer.
RetryTimer(c, r) ==
    LET d == Assert_([c EXCEPT !.due = @ - 1], "Retry",
                     c.state_ = "kDisconnected")
    IN  IF d.start_ THEN Connect(d, r) ELSE d

\* EPOLLOUT: ok says that SO_ERROR is 0 and the socket is not connected to
\* itself; the caller hands the socket over if start_ is set, or closes it.
HandleWrite(c, ok) ==
    IF ok THEN [ResetChannel(c) EXCEPT !.state_ = "kConnected"]
          ELSE Retry(ResetChannel(c))

\* EPOLLERR; it leaves nothing for EPOLLOUT, Close() having cleared write_cb_.
HandleError(c) ==
    IF c.state_ = "kConnecting" THEN Retry(ResetChannel(c)) ELSE c
=============================================================================
