---------------------------- MODULE SocketWrites ----------------------------
(***************************************************************************)
(* What the write sides of the Unix and of the web sockets have in common: *)
(* the bytes of the buffers they are given, numbered by the calls (of      *)
(* us_write or ws_respond) on a connection, and the callback that asks     *)
(* for EPOLLOUT when some of them have to wait.                            *)
(***************************************************************************)
EXTENDS Integers, SequencesExt

CONSTANT Threshold          \* SOCK_THROTTLE_THLD

ASSUME ThresholdAssumption == Threshold \in Nat \ {0}

\* A byte is a pair <<call, k>>: the k-th byte of the buffer of a call.
Bytes(call, from, to) == [i \in 1..(to - from + 1) |-> <<call, from + i - 1>>]

\* The buffers of the calls but the lost ones, calls being their lengths.
BuffersOf(calls, lost) ==
    [i \in 1..Len(calls) |-> IF i \in lost THEN <<>> ELSE Bytes(i, 1, calls[i])]

\* Mutant: the socket is not watched for room when a buffer is queued.
OnPendingLater(c) == c

\* on_pending: EPOLL_CTL_MOD to EPOLLIN | EPOLLOUT.
OnPending(c) ==
    IF "SENDING" \in c.status /\ "CLOSE" \notin c.status
    THEN [c EXCEPT !.armed = TRUE]
    ELSE c
=============================================================================
