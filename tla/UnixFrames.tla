----------------------------- MODULE UnixFrames -----------------------------
(***************************************************************************)
(* The frames of the Unix socket transport (purcmc/unixsocket.[hc]).  A    *)
(* packet is sent as one frame, or, when it is longer than a frame may be, *)
(* as a first frame that announces the whole size in "fragmented", the     *)
(* frames in between, and an end frame.                                    *)
(***************************************************************************)
EXTENDS Integers, Sequences

CONSTANT MaxFrame           \* PCRDR_MAX_FRAME_PAYLOAD_SIZE

ASSUME MaxFrameAssumption == MaxFrame \in Nat \ {0}

\* USFrameHeader, with the opcodes that are told apart ("bin" is "text" with
\* another packet type).
Opcodes == {"text", "bin", "continuation", "end", "close", "ping", "pong"}
FrameHeader == [op : Opcodes, fragmented : Nat, sz_payload : Nat]

ControlFrame(op) == [op |-> op, fragmented |-> 0, sz_payload |-> 0]

\* The loop of us_send_packet: MaxFrame bytes in every frame but the last.
Frames(op, sz) ==
    LET n == (sz + MaxFrame - 1) \div MaxFrame
    IN  IF sz > MaxFrame
        THEN [i \in 1..n |->
                [op |-> IF i = 1 THEN op ELSE IF i < n THEN "continuation" ELSE "end",
                 fragmented |-> IF i = 1 THEN sz ELSE 0,
                 sz_payload |-> IF i < n THEN MaxFrame ELSE sz - (n - 1) * MaxFrame]]
        ELSE <<[op |-> op, fragmented |-> 0, sz_payload |-> sz]>>
=============================================================================
