----------------------- MODULE ReceiveProofs -----------------------
(***************************************************************************)
(* What the readers of both transports keep, for every size of frames, of  *)
(* messages and of the buffers, and whatever the peer sends.  Of           *)
(* us_handle_reads (module UnixSocketReceive): no read passes the buffer   *)
(* but by a sum of sizes that wraps, nothing that was not read is handed   *)
(* on, and what a peer that follows the protocol sends arrives whole, once *)
(* and in order, without such a sum.  Of ws_get_message                    *)
(* (module WebSocket): what any peer sends arrives so, and one that        *)
(* follows the protocol is not given up for an error.                      *)
(***************************************************************************)
EXTENDS UnixSocketReceive, WebSocket, TLAPS, SequenceTheorems

-----------------------------------------------------------------------------
(***************************************************************************)
(* The inductive invariant.  First the types, and the buffer: it is as     *)
(* long as sz_packet says, and filled up to sz_read, except while the      *)
(* first frame of a packet is announced and not read, when sz_read is that *)
(* of the packet before.                                                   *)
(***************************************************************************)
Client ==
    [header : FrameHeader, waiting : BOOLEAN, packet : Seq(Unit \cup {Nothing}),
     sz_packet : Nat, sz_read : Nat]

TypeInv ==
    /\ env \in SUBSET {"split", "disorder", "nomem"}
    /\ usc \in Client
    /\ link \in Seq(Unit) /\ socket \in Seq(Unit)
    /\ sent \in Seq(Seq(Unit)) /\ delivered \in Seq(Seq(Unit))
    /\ frames \in [data : Nat, control : Nat]
    /\ phase \in {"open", "spinning", "closed", "garbled", "overrun"}
    /\ phase = "overrun" => ~StartsPacket(usc) /\ usc.sz_read + usc.header.sz_payload >= Word

Starting(u, spinning) == StartsPacket(u) /\ (u.waiting \/ spinning)

FilledUpTo(u, n) == n <= u.sz_packet /\ \A i \in 1..n : u.packet[i] \in Unit

BufferInv ==
    /\ usc.packet # <<>> /\ phase # "closed" => Len(usc.packet) = usc.sz_packet
    /\ usc.packet # <<>> /\ phase # "closed" => usc.sz_packet < Word
    /\ phase = "spinning" => ~usc.waiting
    /\ phase \in {"open", "spinning"} =>
         IF Starting(usc, phase = "spinning")
         THEN usc.packet # <<>> /\ usc.header.sz_payload <= usc.sz_packet
         ELSE usc.packet # <<>> => FilledUpTo(usc, usc.sz_read)

(***************************************************************************)
(* The stream of a peer that follows the protocol, as the reader has yet   *)
(* to see it: every data frame is followed by its payload, a frame that    *)
(* does not end its packet by the next one of it, and the others by a      *)
(* control frame or a new packet; the packets follow in their order.       *)
(***************************************************************************)
Stream == socket \o link
Controls == {"ping", "pong", "close"}
IsHeader(u, ops) == u.kind = "header" /\ u.header.op \in ops
Fresh(u) == IsHeader(u, Controls \cup {"text"})
DataFrame(u) == IsHeader(u, {"text", "continuation", "end"})

\* After position p the stream goes on with packet n, of which "read" bytes
\* have been passed.
GoesOn(s, p, n, read) ==
    /\ p + 2 <= Len(s)
    /\ IsHeader(s[p + 1], {"continuation", "end"})
    /\ s[p + 2] = Byte(n, read + 1)

\* A frame with header h, of packet n, has its payload behind position p of s;
\* "read" bytes of the packet came before.
FrameAt(s, p, h, n, read, all) ==
    LET sz   == Len(all[n])
        last == p + h.sz_payload
    IN  /\ h.op \in {"text", "continuation", "end"}
        /\ n \in DOMAIN all
        /\ h.sz_payload > 0 /\ read >= 0 /\ read + h.sz_payload <= sz
        /\ last <= Len(s)
        /\ \A j \in 1..h.sz_payload : s[p + j] = Byte(n, read + j)
        /\ h.op = "text" <=> read = 0
        /\ h.op = "end" <=> read > 0 /\ read + h.sz_payload = sz
        /\ h.fragmented = IF read = 0 /\ h.sz_payload < sz THEN sz ELSE 0
        /\ IF read + h.sz_payload < sz
           THEN GoesOn(s, last, n, read + h.sz_payload)
           ELSE last < Len(s) => Fresh(s[last + 1])

FrameOf(s, p, all) ==
    p < Len(s) /\ FrameAt(s, p, s[p].header, s[p + 1].packet, s[p + 1].pos - 1, all)

Starts(s, p) == IsHeader(s[p], {"text"})

\* The packets in all from number n on are in s, in their order.
InOrder(s, n, all) ==
    /\ \A p \in DOMAIN s : Starts(s, p) => s[p + 1].packet >= n
    /\ \A p, q \in DOMAIN s : Starts(s, p) /\ Starts(s, q) /\ p < q =>
            s[p + 1].packet < s[q + 1].packet
    /\ \A k \in DOMAIN all : k >= n => \E p \in DOMAIN s : Starts(s, p) /\ s[p + 1].packet = k

Framed(s, all) ==
    /\ \A p \in DOMAIN s : DataFrame(s[p]) => FrameOf(s, p, all)
    /\ \A p \in DOMAIN s : IsHeader(s[p], Controls) /\ p < Len(s) => Fresh(s[p + 1])

\* A payload does not arrive in parts.
WholePayloads(got, left) ==
    got # <<>> /\ left # <<>> => "header" \in {got[Len(got)].kind, left[1].kind}

Busy == IF usc.packet = <<>> THEN 0 ELSE 1
Current == Len(delivered) + 1

PacketsInv ==
    /\ \A n \in DOMAIN sent : Len(sent[n]) > 0 /\ \A i \in DOMAIN sent[n] : sent[n][i] = Byte(n, i)
    /\ Len(delivered) <= Len(sent)
    /\ \A n \in DOMAIN delivered : delivered[n] = sent[n]

StreamInv ==
    /\ PacketsInv
    /\ phase # "overrun"
    /\ phase \in {"open", "spinning"} =>
         /\ Framed(Stream, sent)
         /\ InOrder(Stream, Current + Busy, sent)
         /\ WholePayloads(socket, link)

\* The buffer of a packet holds what was read of it.
Holds(u, n, read) ==
    /\ u.sz_packet = Len(sent[n])
    /\ read <= Len(sent[n])
    /\ \A i \in 1..read : u.packet[i] = Byte(n, i)

ReaderInv ==
    phase \in {"open", "spinning"} =>
        /\ ~usc.waiting
        /\ usc.packet = <<>> =>
             phase = "open" /\ (Stream # <<>> => Fresh(Stream[1]))
        /\ usc.packet # <<>> =>
             LET read == IF phase = "spinning" /\ StartsPacket(usc) THEN 0 ELSE usc.sz_read
             IN  /\ Current \in DOMAIN sent
                 /\ Holds(usc, Current, read)
                 /\ IF phase = "spinning"
                    THEN FrameAt(Stream, 0, usc.header, Current, read, sent)
                    ELSE read > 0 /\ GoesOn(Stream, 0, Current, read)

IInv ==
    /\ TypeInv
    /\ BufferInv
    /\ env = {} => StreamInv /\ ReaderInv

-----------------------------------------------------------------------------
(***************************************************************************)
(* Integers and sequences.                                                 *)
(***************************************************************************)
LEMMA Quotient ==
    ASSUME NEW i \in Nat, NEW m \in Nat \ {0}
    PROVE  /\ i \div m \in Nat /\ i % m \in 0..(m - 1)
           /\ i = (i \div m) * m + (i % m)
  OBVIOUS

LEMMA QuotientUnique ==
    ASSUME NEW m \in Nat \ {0}, NEW q \in Nat, NEW r \in 0..(m - 1)
    PROVE  (q * m + r) \div m = q /\ (q * m + r) % m = r
  OBVIOUS

LEMMA SumsAgree ==
    ASSUME NEW a \in Nat, NEW b \in Nat, NEW c \in Nat
    PROVE  /\ (a + 2 + b) + c = a + 2 + (b + c)
           /\ (a + b) + c = a + (b + c) /\ (a + b) + c \in Nat
           /\ a + (b + (2 + c)) = (a + b) + 2 + c /\ (a + b) + 2 + c \in Nat
OBVIOUS

LEMMA SmallerOfTwo ==
    ASSUME NEW a \in Nat, NEW b \in Nat
    PROVE  /\ Min({a, b}) \in Nat
           /\ Min({a, b}) = IF a <= b THEN a ELSE b
<1> DEFINE m == IF a <= b THEN a ELSE b
<1>1. m \in {a, b} /\ \A y \in {a, b} : m <= y
  OBVIOUS
<1>2. Min({a, b}) \in {a, b} /\ \A y \in {a, b} : Min({a, b}) <= y
  BY <1>1 DEF Min
<1> QED BY <1>1, <1>2

-----------------------------------------------------------------------------
(***************************************************************************)
(* Reading a payload.                                                      *)
(***************************************************************************)
At(u) == IF StartsPacket(u) THEN 0 ELSE u.sz_read
Reach(u, units) == Min({u.header.sz_payload, Len(units)})
Filled(u, units) ==
    [i \in DOMAIN u.packet |->
        IF i - At(u) \in 1..Reach(u, units) THEN units[i - At(u)] ELSE u.packet[i]]
After(u, units) ==
    IF Reach(u, units) < u.header.sz_payload THEN [u EXCEPT !.packet = Filled(u, units)]
    ELSE [u EXCEPT !.packet = Filled(u, units), !.sz_read = At(u) + Reach(u, units)]
Outcome(u, units) ==
    IF At(u) + Reach(u, units) > u.sz_packet THEN "overrun"
    ELSE IF Reach(u, units) < u.header.sz_payload THEN "short"
    ELSE IF (StartsPacket(u) /\ u.header.fragmented = 0) \/ u.header.op = "end"
    THEN "packet" ELSE "more"

LEMMA TakenFacts ==
    ASSUME NEW u \in Client, NEW units \in Seq(Unit)
    PROVE  /\ Reach(u, units) \in Nat
           /\ Reach(u, units) <= u.header.sz_payload /\ Reach(u, units) <= Len(units)
           /\ Reach(u, units) = u.header.sz_payload \/ Reach(u, units) = Len(units)
<1>1. u.header.sz_payload \in Nat /\ Len(units) \in Nat
  BY LenProperties DEF Client, FrameHeader
<1> QED BY <1>1, SmallerOfTwo DEF Reach

LEMMA FilledFacts ==
    ASSUME NEW u \in Client, NEW units \in Seq(Unit)
    PROVE  /\ Filled(u, units) \in Seq(Unit \cup {Nothing})
           /\ Len(Filled(u, units)) = Len(u.packet)
           /\ \A i \in 1..Len(u.packet) : Filled(u, units)[i] =
                IF i - At(u) \in 1..Reach(u, units) THEN units[i - At(u)] ELSE u.packet[i]
<1>1. u.packet \in Seq(Unit \cup {Nothing}) /\ Len(u.packet) \in Nat /\ DOMAIN u.packet = 1..Len(u.packet)
  BY LenProperties DEF Client
<1>2. Reach(u, units) \in Nat /\ Reach(u, units) <= Len(units) /\ At(u) \in Nat
  BY TakenFacts DEF At, Client
<1>3. ASSUME NEW i \in 1..Len(u.packet)
      PROVE  (IF i - At(u) \in 1..Reach(u, units) THEN units[i - At(u)] ELSE u.packet[i])
               \in Unit \cup {Nothing}
  <2>1. u.packet[i] \in Unit \cup {Nothing}
    BY <1>1, ElementOfSeq
  <2>2. i - At(u) \in 1..Reach(u, units) => units[i - At(u)] \in Unit
    <3>1. SUFFICES ASSUME i - At(u) \in 1..Reach(u, units) PROVE units[i - At(u)] \in Unit
      OBVIOUS
    <3>2. Len(units) \in Nat
      BY LenProperties
    <3>3. i - At(u) \in 1..Len(units)
      BY <1>2, <3>1, <3>2
    <3> QED BY <3>3, ElementOfSeq
  <2> QED BY <2>1, <2>2
<1> HIDE DEF Reach, At
<1>4. Filled(u, units) = [i \in 1..Len(u.packet) |->
          IF i - At(u) \in 1..Reach(u, units) THEN units[i - At(u)] ELSE u.packet[i]]
  BY <1>1 DEF Filled
<1>5. Filled(u, units) \in [1..Len(u.packet) -> Unit \cup {Nothing}]
  BY <1>3, <1>4
<1>6. Filled(u, units) \in Seq(Unit \cup {Nothing}) /\ Len(Filled(u, units)) = Len(u.packet)
  BY <1>1, <1>5
<1> QED BY <1>4, <1>6

\* What TryToReadPayload computes.
LEMMA TryFacts ==
    ASSUME NEW u, NEW units
    PROVE  TryToReadPayload(u, units) =
             IF ProtocolError(u) THEN [usc |-> u, rest |-> units, result |-> "protocol"]
             ELSE [usc |-> After(u, units),
                   rest |-> SubSeq(units, Reach(u, units) + 1, Len(units)),
                   result |-> Outcome(u, units)]
BY DEF TryToReadPayload, After, Outcome, Filled, Reach, At

LEMMA AfterFacts ==
    ASSUME NEW u \in Client, NEW units \in Seq(Unit)
    PROVE  /\ After(u, units) \in Client
           /\ After(u, units).header = u.header /\ After(u, units).waiting = u.waiting
           /\ After(u, units).packet = Filled(u, units)
           /\ After(u, units).sz_packet = u.sz_packet
           /\ After(u, units).sz_read =
                IF Reach(u, units) < u.header.sz_payload THEN u.sz_read ELSE At(u) + Reach(u, units)
<1>1. Reach(u, units) \in Nat /\ At(u) \in Nat /\ Filled(u, units) \in Seq(Unit \cup {Nothing})
  BY TakenFacts, FilledFacts DEF At, Client
<1>2. At(u) + Reach(u, units) \in Nat
  BY <1>1
<1> QED BY <1>1, <1>2 DEF After, Client

\* The rest of the stream after a read.
LEMMA RestFacts ==
    ASSUME NEW S, NEW s \in Seq(S), NEW n \in Nat, n <= Len(s)
    PROVE  /\ SubSeq(s, n + 1, Len(s)) \in Seq(S)
           /\ Len(SubSeq(s, n + 1, Len(s))) = Len(s) - n
           /\ \A i \in 1..(Len(s) - n) : SubSeq(s, n + 1, Len(s))[i] = s[i + n]
<1>1. Len(s) \in Nat
  BY LenProperties
<1>2. n + 1 \in Int /\ \A i \in (n + 1)..Len(s) : s[i] \in S
  BY <1>1, ElementOfSeq
<1>3. /\ SubSeq(s, n + 1, Len(s)) \in Seq(S)
      /\ Len(SubSeq(s, n + 1, Len(s))) = IF n + 1 <= Len(s) THEN Len(s) - (n + 1) + 1 ELSE 0
      /\ \A i \in 1..(Len(s) - (n + 1) + 1) : SubSeq(s, n + 1, Len(s))[i] = s[(n + 1) + i - 1]
  BY <1>1, <1>2, SubSeqProperties
<1>4. \A i \in 1..(Len(s) - n) : (n + 1) + i - 1 = i + n
  BY <1>1
<1> QED BY <1>1, <1>3, <1>4

\* The beginning of a sequence.
LEMMA FrontFacts ==
    ASSUME NEW S, NEW s \in Seq(S), NEW n \in Nat, n <= Len(s)
    PROVE  /\ SubSeq(s, 1, n) \in Seq(S)
           /\ Len(SubSeq(s, 1, n)) = n
           /\ \A i \in 1..n : SubSeq(s, 1, n)[i] = s[i]
<1>1. Len(s) \in Nat
  BY LenProperties
<1>2. \A i \in 1..n : s[i] \in S
  BY <1>1, ElementOfSeq
<1>3. /\ SubSeq(s, 1, n) \in Seq(S)
      /\ Len(SubSeq(s, 1, n)) = IF 1 <= n THEN n - 1 + 1 ELSE 0
      /\ \A i \in 1..(n - 1 + 1) : SubSeq(s, 1, n)[i] = s[1 + i - 1]
  BY <1>2, SubSeqProperties
<1> QED BY <1>3

\* What makes a read safe: the buffer is as long as it should be, and filled as
\* far as the payload that follows assumes.
Ready(u) ==
    /\ ~u.waiting
    /\ u.packet # <<>> => Len(u.packet) = u.sz_packet /\ u.sz_packet < Word
    /\ IF StartsPacket(u)
       THEN u.packet # <<>> /\ u.header.sz_payload <= u.sz_packet
       ELSE u.packet # <<>> => FilledUpTo(u, u.sz_read)

\* A sum of sizes that is smaller than Word is compared as it is.
LEMMA SmallSums ==
    ASSUME NEW n \in Nat, n < Word
    PROVE  n % Word = n
BY ReceiveAssumption

\* What lets a read pass the buffer.
LEMMA OverrunWraps ==
    ASSUME NEW u \in Client, NEW units \in Seq(Unit), Ready(u), ~ProtocolError(u),
           Outcome(u, units) = "overrun"
    PROVE  ~StartsPacket(u) /\ u.sz_read + u.header.sz_payload >= Word
<1>1. /\ u.header.sz_payload \in Nat /\ u.sz_packet \in Nat /\ u.sz_read \in Nat
      /\ Reach(u, units) \in Nat /\ Reach(u, units) <= u.header.sz_payload
  BY TakenFacts DEF Client, FrameHeader
<1>2. At(u) + Reach(u, units) > u.sz_packet
  BY DEF Outcome
<1>3. ~StartsPacket(u) /\ At(u) = u.sz_read
  BY <1>1, <1>2 DEF Ready, At
<1>4. (u.sz_read + u.header.sz_payload) % Word <= u.sz_packet
  <2>1. ~((u.sz_read + u.header.sz_payload) % Word > u.sz_packet)
    BY <1>3 DEF ProtocolError
  <2>2. (u.sz_read + u.header.sz_payload) % Word \in Nat
    BY <1>1, ReceiveAssumption
  <2> QED BY <1>1, <2>1, <2>2
<1>5. ASSUME u.sz_read + u.header.sz_payload < Word PROVE FALSE
  <2>1. (u.sz_read + u.header.sz_payload) % Word = u.sz_read + u.header.sz_payload
    BY <1>1, <1>5, SmallSums
  <2> QED BY <1>1, <1>2, <1>3, <1>4, <2>1
<1> QED BY <1>1, <1>3, <1>5, ReceiveAssumption

LEMMA ReadFits ==
    ASSUME NEW u \in Client, NEW units \in Seq(Unit), Ready(u), ~ProtocolError(u),
           Outcome(u, units) # "overrun"
    PROVE  /\ u.packet # <<>> /\ Len(u.packet) = u.sz_packet
           /\ At(u) \in Nat /\ At(u) + Reach(u, units) <= u.sz_packet
           /\ \A i \in 1..At(u) : Filled(u, units)[i] \in Unit
           /\ \A i \in 1..(At(u) + Reach(u, units)) : Filled(u, units)[i] \in Unit
<1>1. /\ u.header.sz_payload \in Nat /\ u.sz_packet \in Nat /\ u.sz_read \in Nat
      /\ Len(units) \in Nat /\ Len(u.packet) \in Nat
  BY LenProperties DEF Client, FrameHeader
<1>2. u.packet # <<>> /\ Len(u.packet) = u.sz_packet
  BY DEF Ready, ProtocolError
<1>4. /\ Reach(u, units) \in Nat /\ Reach(u, units) <= u.header.sz_payload
      /\ Reach(u, units) <= Len(units)
  BY TakenFacts
<1>3. At(u) \in Nat /\ At(u) + Reach(u, units) <= u.sz_packet
  <2>1. At(u) \in Nat
    BY <1>1 DEF At
  <2> QED BY <1>1, <1>4, <2>1 DEF Outcome
<1>6. ASSUME NEW i \in 1..(At(u) + Reach(u, units)) PROVE Filled(u, units)[i] \in Unit
  <2>1. i \in 1..Len(u.packet)
    BY <1>1, <1>2, <1>3, <1>4
  <2>2. Filled(u, units)[i] =
          IF i - At(u) \in 1..Reach(u, units) THEN units[i - At(u)] ELSE u.packet[i]
    BY <2>1, FilledFacts
  <2>3. CASE i - At(u) \in 1..Reach(u, units)
    <3>1. i - At(u) \in 1..Len(units)
      BY <1>1, <1>4, <2>3
    <3> QED BY <2>2, <2>3, <3>1, ElementOfSeq
  <2>4. CASE i - At(u) \notin 1..Reach(u, units)
    <3>1. i <= At(u)
      BY <1>3, <1>4, <2>4
    <3>2. ~StartsPacket(u) /\ At(u) = u.sz_read
      BY <3>1 DEF At
    <3>3. i \in 1..u.sz_read
      BY <1>1, <3>1, <3>2
    <3>4. u.packet[i] \in Unit
      BY <1>2, <3>2, <3>3 DEF Ready, FilledUpTo
    <3> QED BY <2>2, <2>4, <3>4
  <2> QED BY <2>3, <2>4
<1>7. \A i \in 1..At(u) : i \in 1..(At(u) + Reach(u, units))
  BY <1>3, <1>4
<1> QED BY <1>2, <1>3, <1>6, <1>7

\* What is left of the client after a read that is not the last of its packet.
LEMMA StaysFilled ==
    ASSUME NEW u \in Client, NEW units \in Seq(Unit), Ready(u), ~ProtocolError(u),
           Outcome(u, units) # "overrun",
           NEW n \in {At(u), At(u) + Reach(u, units)}
    PROVE  /\ FilledUpTo(After(u, units), n)
           /\ Len(After(u, units).packet) = u.sz_packet /\ After(u, units).packet # <<>>
<1>1. u.header.sz_payload \in Nat /\ u.sz_packet \in Nat /\ Len(u.packet) \in Nat
  BY LenProperties DEF Client, FrameHeader
<1>2. Reach(u, units) \in Nat /\ Reach(u, units) <= u.header.sz_payload
  BY TakenFacts
<1>3. /\ u.packet # <<>> /\ Len(u.packet) = u.sz_packet
      /\ At(u) \in Nat /\ At(u) + Reach(u, units) <= u.sz_packet
      /\ \A i \in 1..n : Filled(u, units)[i] \in Unit
  BY ReadFits
<1>4. n <= u.sz_packet
  BY <1>1, <1>2, <1>3
<1>5. /\ After(u, units).packet = Filled(u, units)
      /\ After(u, units).sz_packet = u.sz_packet
      /\ Len(Filled(u, units)) = Len(u.packet) /\ Filled(u, units) \in Seq(Unit \cup {Nothing})
  BY AfterFacts, FilledFacts
<1>6. Len(u.packet) # 0
  BY <1>3, EmptySeq DEF Client
<1>7. Filled(u, units) # <<>>
  BY <1>5, <1>6, EmptySeq
<1> QED BY <1>3, <1>4, <1>5, <1>7 DEF FilledUpTo

\* A read of a payload keeps the types and the buffer, and passes no bound.
LEMMA ReadPayloadKeeps ==
    ASSUME TypeInv, NEW u \in Client, Ready(u), NEW units \in Seq(Unit), NEW retry \in BOOLEAN,
           ReadPayload(u, units, retry), UNCHANGED <<env, link, sent, frames>>
    PROVE  TypeInv' /\ BufferInv'
<1> DEFINE r == TryToReadPayload(u, units)
           v == After(u, units)
<1>1. /\ v \in Client /\ v.header = u.header /\ v.waiting = u.waiting
      /\ v.sz_packet = u.sz_packet /\ ~u.waiting
      /\ v.sz_read = IF Reach(u, units) < u.header.sz_payload THEN u.sz_read
                     ELSE At(u) + Reach(u, units)
  BY AfterFacts DEF Ready
<1>2. /\ Reach(u, units) \in Nat /\ Reach(u, units) <= Len(units)
      /\ Reach(u, units) <= u.header.sz_payload
      /\ u.header.sz_payload \in Nat /\ Len(units) \in Nat /\ Len(u.packet) \in Nat
      /\ u.sz_packet \in Nat /\ At(u) \in Nat
  BY TakenFacts, LenProperties DEF Client, FrameHeader, At
<1>3. r = IF ProtocolError(u) THEN [usc |-> u, rest |-> units, result |-> "protocol"]
          ELSE [usc |-> v, rest |-> SubSeq(units, Reach(u, units) + 1, Len(units)),
                result |-> Outcome(u, units)]
  BY TryFacts
<1>4. r.rest \in Seq(Unit)
  BY <1>2, <1>3, RestFacts
<1>5. /\ socket' = r.rest
      /\ \/ r.result = "packet" /\ GotPacket(r.usc)
         \/ /\ r.result = "more" /\ usc' = r.usc /\ phase' = "open" /\ UNCHANGED delivered
         \/ /\ r.result = "short" /\ retry /\ usc' = [r.usc EXCEPT !.waiting = TRUE]
            /\ phase' = "open" /\ UNCHANGED delivered
         \/ /\ r.result = "protocol" \/ (r.result = "short" /\ ~retry)
            /\ usc' = r.usc /\ Close
         \/ /\ r.result = "overrun" /\ usc' = u /\ phase' = "overrun" /\ UNCHANGED delivered
  BY DEF ReadPayload
<1> HIDE DEF r, v
<1>6. ASSUME ~ProtocolError(u), Outcome(u, units) # "overrun"
      PROVE  /\ r.usc = v /\ r.result = Outcome(u, units)
             /\ v.packet # <<>> /\ Len(v.packet) = v.sz_packet
             /\ FilledUpTo(v, At(u)) /\ FilledUpTo(v, At(u) + Reach(u, units))
             /\ Outcome(u, units) \in {"packet", "more"} => v.sz_read = At(u) + Reach(u, units)
             /\ Outcome(u, units) = "short" => v.sz_read = u.sz_read
  <2>1. /\ FilledUpTo(v, At(u)) /\ FilledUpTo(v, At(u) + Reach(u, units))
        /\ v.packet # <<>> /\ Len(v.packet) = v.sz_packet
    BY <1>1, <1>6, StaysFilled DEF v
  <2> QED BY <1>1, <1>3, <1>6, <2>1 DEF Outcome
<1>7. env' \in SUBSET {"split", "disorder", "nomem"} /\ link' \in Seq(Unit) /\ socket' \in Seq(Unit)
      /\ sent' \in Seq(Seq(Unit)) /\ frames' \in [data : Nat, control : Nat]
  BY <1>4, <1>5 DEF TypeInv
<1>8. CASE ProtocolError(u)
  <2>1. r.usc = u /\ r.result = "protocol"
    BY <1>3, <1>8
  <2>2. usc' = u /\ phase' = "closed" /\ delivered' = delivered
    BY <1>5, <2>1 DEF Close
  <2> QED BY <1>7, <2>2 DEF TypeInv, BufferInv
<1>10. CASE ~ProtocolError(u) /\ Outcome(u, units) = "overrun"
  <2>1. r.result = "overrun"
    BY <1>3, <1>10
  <2>2. usc' = u /\ phase' = "overrun" /\ delivered' = delivered
    BY <1>5, <2>1
  <2>3. ~StartsPacket(u) /\ u.sz_read + u.header.sz_payload >= Word
    BY <1>10, OverrunWraps
  <2> QED BY <1>7, <2>2, <2>3 DEF TypeInv, BufferInv, Ready, StartsPacket
<1>9. CASE ~ProtocolError(u) /\ Outcome(u, units) # "overrun"
  <2>5. v.packet # <<>> => v.sz_packet < Word
    BY <1>1, ReadFits, <1>9 DEF Ready
  <2>1. CASE r.result = "packet"
    <3>1. GotPacket(v)
      BY <1>5, <1>6, <1>9, <2>1
    <3>2. v.sz_read \in Nat /\ v.sz_read <= Len(v.packet)
          /\ \A i \in 1..v.sz_read : v.packet[i] \in Unit
      BY <1>1, <1>2, <1>6, <1>9, <2>1 DEF FilledUpTo
    <3>3. SubSeq(v.packet, 1, v.sz_read) \in Seq(Unit)
      BY <3>2, SubSeqProperties
    <3>4. delivered' \in Seq(Seq(Unit))
      BY <3>1, <3>3, AppendProperties DEF GotPacket, TypeInv
    <3>5. usc' = [v EXCEPT !.packet = <<>>, !.sz_packet = 0, !.sz_read = 0]
      BY <3>1 DEF GotPacket
    <3>6. <<>> \in Seq(Unit \cup {Nothing})
      BY EmptySeq
    <3>7. usc' \in Client /\ usc'.packet = <<>> /\ ~usc'.waiting
      BY <1>1, <3>5, <3>6 DEF Client
    <3>8. phase' \in {"open", "closed"}
      BY <3>1 DEF GotPacket
    <3> QED BY <1>7, <3>4, <3>7, <3>8 DEF TypeInv, BufferInv, Starting
  <2>2. CASE r.result = "more"
    <3>1. usc' = v /\ phase' = "open" /\ delivered' = delivered
      BY <1>5, <1>6, <1>9, <2>2
    <3>2. ~v.waiting /\ FilledUpTo(v, v.sz_read)
      BY <1>1, <1>6, <1>9, <2>2
    <3> QED BY <1>1, <1>6, <1>7, <1>9, <2>5, <3>1, <3>2 DEF TypeInv, BufferInv, Starting
  <2>3. CASE r.result = "short"
    <3>1. CASE retry
      <4>1. usc' = [v EXCEPT !.waiting = TRUE] /\ phase' = "open" /\ delivered' = delivered
        BY <1>5, <1>6, <1>9, <2>3, <3>1
      <4>2. /\ usc' \in Client /\ usc'.waiting /\ usc'.packet = v.packet
            /\ usc'.header = v.header /\ usc'.sz_packet = v.sz_packet /\ usc'.sz_read = v.sz_read
        BY <1>1, <4>1 DEF Client
      <4>3. CASE StartsPacket(u)
        <5>1. usc'.header.sz_payload <= usc'.sz_packet /\ StartsPacket(usc')
          BY <1>1, <4>2, <4>3 DEF Ready, StartsPacket
        <5> QED BY <1>6, <1>7, <1>9, <2>5, <4>1, <4>2, <5>1 DEF TypeInv, BufferInv, Starting
      <4>4. CASE ~StartsPacket(u)
        <5>1. ~StartsPacket(usc') /\ v.sz_read = At(u)
          BY <1>1, <1>6, <1>9, <2>3, <4>2, <4>4 DEF StartsPacket, At
        <5>2. FilledUpTo(usc', usc'.sz_read)
          BY <1>6, <1>9, <4>2, <5>1 DEF FilledUpTo
        <5> QED BY <1>6, <1>7, <1>9, <2>5, <4>1, <4>2, <5>1, <5>2 DEF TypeInv, BufferInv, Starting
      <4> QED BY <4>3, <4>4
    <3>2. CASE ~retry
      <4>1. usc' = v /\ phase' = "closed" /\ delivered' = delivered
        BY <1>5, <1>6, <1>9, <2>3, <3>2 DEF Close
      <4> QED BY <1>1, <1>7, <4>1 DEF TypeInv, BufferInv
    <3> QED BY <3>1, <3>2
  <2>4. r.result \in {"packet", "more", "short"}
    BY <1>6, <1>9 DEF Outcome
  <2> QED BY <2>1, <2>2, <2>3, <2>4
<1> QED BY <1>8, <1>9, <1>10

-----------------------------------------------------------------------------
(***************************************************************************)
(* The frames of a packet (us_send_packet), and its units.                 *)
(***************************************************************************)
Count(sz) == (sz + MaxFrame - 1) \div MaxFrame
Framing(sz) ==
    [i \in 1..Count(sz) |->
        [op |-> IF i = 1 THEN "text" ELSE IF i < Count(sz) THEN "continuation" ELSE "end",
         fragmented |-> IF i = 1 /\ Count(sz) > 1 THEN sz ELSE 0,
         sz_payload |-> IF i < Count(sz) THEN MaxFrame ELSE sz - (Count(sz) - 1) * MaxFrame]]

LEMMA CountFacts ==
    ASSUME NEW sz \in Nat \ {0}
    PROVE  /\ Count(sz) \in Nat \ {0}
           /\ (Count(sz) - 1) * MaxFrame < sz /\ sz <= Count(sz) * MaxFrame
           /\ sz <= MaxFrame <=> Count(sz) = 1
<1>1. MaxFrame \in Nat \ {0}
  BY MaxFrameAssumption
<1> DEFINE q == (sz + MaxFrame - 1) \div MaxFrame
           t == (sz + MaxFrame - 1) % MaxFrame
<1>2. q \in Nat /\ t \in 0..(MaxFrame - 1) /\ sz + MaxFrame - 1 = q * MaxFrame + t
  <2>1. sz + MaxFrame - 1 \in Nat
    BY <1>1
  <2>2. ASSUME NEW i \in Nat
        PROVE  /\ i \div MaxFrame \in Nat /\ i % MaxFrame \in 0..(MaxFrame - 1)
               /\ i = (i \div MaxFrame) * MaxFrame + (i % MaxFrame)
    BY <1>1, Quotient
  <2> QED BY <2>1, <2>2
<1> HIDE DEF q, t
<1>3. q # 0
  BY <1>1, <1>2
<1>4. (q - 1) * MaxFrame = q * MaxFrame - MaxFrame
  BY <1>1, <1>2
<1>5. (q - 1) * MaxFrame < sz /\ sz <= q * MaxFrame
  BY <1>1, <1>2, <1>4
<1>6. q = 1 => sz <= MaxFrame
  BY <1>1, <1>5
<1>7. q >= 2 => (q - 1) * MaxFrame >= MaxFrame
  BY <1>1, <1>2
<1>8. sz <= MaxFrame => q = 1
  BY <1>1, <1>2, <1>3, <1>5, <1>7
<1> QED BY <1>2, <1>3, <1>5, <1>6, <1>8 DEF Count, q

LEMMA FramesAre ==
    ASSUME NEW sz \in Nat \ {0}
    PROVE  Frames("text", sz) = Framing(sz)
<1>1. MaxFrame \in Nat \ {0}
  BY MaxFrameAssumption
<1>2. CASE sz > MaxFrame
  <2>1. Count(sz) > 1
    BY <1>1, <1>2, CountFacts
  <2> DEFINE F(N, i, first) ==
        [op |-> IF i = 1 THEN "text" ELSE IF i < N THEN "continuation" ELSE "end",
         fragmented |-> IF first THEN sz ELSE 0,
         sz_payload |-> IF i < N THEN MaxFrame ELSE sz - (N - 1) * MaxFrame]
  <2>2. Frames("text", sz) = [i \in 1..Count(sz) |-> F(Count(sz), i, i = 1)]
    BY <1>2 DEF Frames, Count
  <2>3. Framing(sz) = [i \in 1..Count(sz) |-> F(Count(sz), i, i = 1 /\ Count(sz) > 1)]
    BY DEF Framing
  <2>4. \A i \in 1..Count(sz) : (i = 1) = (i = 1 /\ Count(sz) > 1)
    BY <2>1
  <2> HIDE DEF F
  <2> QED BY <2>2, <2>3, <2>4
<1>3. CASE sz <= MaxFrame
  <2>1. Count(sz) = 1 /\ sz - (Count(sz) - 1) * MaxFrame = sz
    BY <1>1, <1>3, CountFacts
  <2>2. Frames("text", sz) = <<[op |-> "text", fragmented |-> 0, sz_payload |-> sz]>>
    BY <1>1, <1>3 DEF Frames
  <2>3. Framing(sz) = [i \in 1..1 |-> [op |-> "text", fragmented |-> 0, sz_payload |-> sz]]
    BY <2>1 DEF Framing
  <2>4. \A x : <<x>> = [i \in 1..1 |-> x]
    OBVIOUS
  <2> QED BY <2>2, <2>3, <2>4
<1> QED BY <1>1, <1>2, <1>3

LEMMA FramingType ==
    ASSUME NEW sz \in Nat \ {0}
    PROVE  Framing(sz) \in Seq(FrameHeader) /\ Len(Framing(sz)) = Count(sz)
<1>1. MaxFrame \in Nat \ {0} /\ Count(sz) \in Nat \ {0} /\ (Count(sz) - 1) * MaxFrame < sz
  BY MaxFrameAssumption, CountFacts
<1>2. sz - (Count(sz) - 1) * MaxFrame \in Nat
  BY <1>1
<1>3. ASSUME NEW i \in 1..Count(sz) PROVE Framing(sz)[i] \in FrameHeader
  BY <1>1, <1>2, <1>3 DEF Framing, FrameHeader, Opcodes
<1>4. Framing(sz) = [i \in 1..Count(sz) |-> Framing(sz)[i]]
  BY DEF Framing
<1>5. Framing(sz) \in [1..Count(sz) -> FrameHeader]
  BY <1>3, <1>4
<1> QED BY <1>1, <1>5

LEMMA UnitTypes ==
    /\ \A h \in FrameHeader : Header(h) \in Unit
    /\ \A n, i \in Nat : Byte(n, i) \in Unit
    /\ \A n, sz \in Nat : PacketBytes(n, sz) \in Seq(Unit) /\ Len(PacketBytes(n, sz)) = sz
                          /\ \A i \in 1..sz : PacketBytes(n, sz)[i] = Byte(n, i)
<1>1. /\ \A h \in FrameHeader : Header(h) \in Unit
      /\ \A n, i \in Nat : Byte(n, i) \in Unit
  BY DEF Header, Byte, Unit, HeaderUnit, DataUnit
<1>2. ASSUME NEW n \in Nat, NEW sz \in Nat
      PROVE  PacketBytes(n, sz) \in Seq(Unit) /\ Len(PacketBytes(n, sz)) = sz
             /\ \A i \in 1..sz : PacketBytes(n, sz)[i] = Byte(n, i)
  <2>1. PacketBytes(n, sz) \in [1..sz -> Unit]
    BY <1>1 DEF PacketBytes
  <2> QED BY <2>1 DEF PacketBytes
<1> QED BY <1>1, <1>2

\* A unit of a packet is the header of frame f + 1 or the byte at place k in it.
LEMMA UnitsAre ==
    ASSUME NEW n \in Nat, NEW sz \in Nat \ {0}
    PROVE  /\ Units(n, sz) \in Seq(Unit) /\ Len(Units(n, sz)) = Count(sz) + sz
           /\ \A f \in 0..(Count(sz) - 1), k \in 0..MaxFrame :
                f * (MaxFrame + 1) + k + 1 <= Count(sz) + sz =>
                  Units(n, sz)[f * (MaxFrame + 1) + k + 1] =
                    IF k = 0 THEN Header(Framing(sz)[f + 1]) ELSE Byte(n, f * MaxFrame + k)
           /\ \A i \in 1..(Count(sz) + sz) :
                \E f \in 0..(Count(sz) - 1), k \in 0..MaxFrame : i = f * (MaxFrame + 1) + k + 1
<1>1. MaxFrame \in Nat \ {0} /\ MaxFrame + 1 \in Nat \ {0} /\ Count(sz) \in Nat \ {0}
      /\ sz <= Count(sz) * MaxFrame
  BY MaxFrameAssumption, CountFacts
<1>2. Units(n, sz) =
        [i \in 1..(Count(sz) + sz) |->
            IF (i - 1) % (MaxFrame + 1) = 0 THEN Header(Framing(sz)[(i - 1) \div (MaxFrame + 1) + 1])
            ELSE Byte(n, ((i - 1) \div (MaxFrame + 1)) * MaxFrame + ((i - 1) % (MaxFrame + 1)))]
  BY FramesAre, FramingType DEF Units
<1>3. ASSUME NEW f \in 0..(Count(sz) - 1), NEW k \in 0..MaxFrame,
             f * (MaxFrame + 1) + k + 1 <= Count(sz) + sz
      PROVE  Units(n, sz)[f * (MaxFrame + 1) + k + 1] =
                    IF k = 0 THEN Header(Framing(sz)[f + 1]) ELSE Byte(n, f * MaxFrame + k)
  <2>1. /\ (f * (MaxFrame + 1) + k) \div (MaxFrame + 1) = f
        /\ (f * (MaxFrame + 1) + k) % (MaxFrame + 1) = k
    <3>1. f \in Nat /\ k \in 0..((MaxFrame + 1) - 1)
      BY <1>1
    <3>2. ASSUME NEW m \in Nat \ {0}, k \in 0..(m - 1)
          PROVE  (f * m + k) \div m = f /\ (f * m + k) % m = k
      BY <3>1, <3>2, QuotientUnique
    <3> QED BY <1>1, <3>1, <3>2
  <2>2. f * (MaxFrame + 1) \in Nat
    BY <1>1
  <2> DEFINE i == f * (MaxFrame + 1) + k + 1
  <2>3. i - 1 = f * (MaxFrame + 1) + k /\ i \in 1..(Count(sz) + sz)
    BY <1>1, <1>3, <2>2
  <2>4. (i - 1) \div (MaxFrame + 1) = f /\ (i - 1) % (MaxFrame + 1) = k
    BY <2>1, <2>3
  <2> HIDE DEF i
  <2>5. Units(n, sz)[i] = IF k = 0 THEN Header(Framing(sz)[f + 1]) ELSE Byte(n, f * MaxFrame + k)
    BY <1>2, <2>3, <2>4
  <2> QED BY <2>5 DEF i
<1>4. ASSUME NEW i \in 1..(Count(sz) + sz)
      PROVE  /\ \E f \in 0..(Count(sz) - 1), k \in 0..MaxFrame : i = f * (MaxFrame + 1) + k + 1
             /\ Units(n, sz)[i] \in Unit
  <2> DEFINE f == (i - 1) \div (MaxFrame + 1)
             k == (i - 1) % (MaxFrame + 1)
  <2>1. f \in Nat /\ k \in 0..MaxFrame /\ i - 1 = f * (MaxFrame + 1) + k
    <3>1. i - 1 \in Nat
      BY <1>1
    <3>2. f \in Nat /\ k \in 0..((MaxFrame + 1) - 1) /\ i - 1 = f * (MaxFrame + 1) + k
      BY <1>1, <3>1, Quotient
    <3> QED BY <1>1, <3>2
  <2> HIDE DEF f, k
  <2>2. f * (MaxFrame + 1) = f * MaxFrame + f /\ f * MaxFrame \in Nat
    BY <1>1, <2>1
  <2>3. f >= Count(sz) => f * MaxFrame >= Count(sz) * MaxFrame
    BY <1>1, <2>1
  <2>4. f < Count(sz)
    BY <1>1, <2>1, <2>2, <2>3
  <2>5. i = f * (MaxFrame + 1) + k + 1 /\ f \in 0..(Count(sz) - 1)
    BY <1>1, <2>1, <2>2, <2>4
  <2>6. Units(n, sz)[i] = IF k = 0 THEN Header(Framing(sz)[f + 1]) ELSE Byte(n, f * MaxFrame + k)
    BY <1>2 DEF f, k
  <2>7. Framing(sz)[f + 1] \in FrameHeader
    <3>1. f + 1 \in 1..Len(Framing(sz))
      BY <1>1, <2>1, <2>4, FramingType
    <3> QED BY <3>1, FramingType, ElementOfSeq
  <2>8. f * MaxFrame + k \in Nat
    BY <2>1, <2>2
  <2>9. Units(n, sz)[i] \in Unit
    BY <2>6, <2>7, <2>8, UnitTypes
  <2> QED BY <2>1, <2>5, <2>9
<1>5. Units(n, sz) = [i \in 1..(Count(sz) + sz) |-> Units(n, sz)[i]]
  BY <1>2
<1>6. Units(n, sz) \in [1..(Count(sz) + sz) -> Unit]
  BY <1>4, <1>5
<1>7. Count(sz) + sz \in Nat
  BY <1>1
<1>8. Units(n, sz) \in Seq(Unit) /\ Len(Units(n, sz)) = Count(sz) + sz
  BY <1>6, <1>7
<1> QED BY <1>3, <1>4, <1>8

-----------------------------------------------------------------------------
(***************************************************************************)
(* The types and the buffer, whatever the peer sends.                      *)
(***************************************************************************)
LEMMA TypeInit == Init => TypeInv /\ BufferInv
<1> SUFFICES ASSUME Init PROVE TypeInv /\ BufferInv
  OBVIOUS
<1>1. ControlFrame("ping") \in FrameHeader
  BY DEF ControlFrame, FrameHeader, Opcodes
<1>2. \A S : <<>> \in Seq(S)
  BY EmptySeq
<1>3. usc \in Client
  BY <1>1, <1>2 DEF Init, NewClient, Client
<1>4. TypeInv
  BY <1>2, <1>3, ReceiveAssumption DEF Init, TypeInv
<1> QED BY <1>4 DEF Init, NewClient, BufferInv, Starting

LEMMA AcceptIsInit == Accept => Init'
BY DEF Accept, Init

\* A frame that starts a packet finds a buffer of its own, one that goes on with
\* a packet the buffer as it was left.
LEMMA SpinKeeps ==
    ASSUME TypeInv, NEW u \in Client, Ready(u), NEW units \in Seq(Unit),
           ReadPayloadOrSpin(u, units), UNCHANGED <<env, link, sent, frames>>
    PROVE  TypeInv' /\ BufferInv'
<1>1. CASE units = <<>> /\ ~ProtocolError(u)
  <2>1. usc' = u /\ socket' = units /\ phase' = "spinning" /\ delivered' = delivered
    BY <1>1 DEF ReadPayloadOrSpin
  <2>2. TypeInv'
    BY <2>1 DEF TypeInv
  <2> QED BY <2>1, <2>2 DEF BufferInv, Ready, Starting
<1>2. CASE ~(units = <<>> /\ ~ProtocolError(u))
  <2>1. ReadPayload(u, units, TRUE)
    BY <1>2 DEF ReadPayloadOrSpin
  <2> QED BY <2>1, ReadPayloadKeeps
<1> QED BY <1>1, <1>2

LEMMA NextUnit ==
    ASSUME TypeInv, socket # <<>>
    PROVE  /\ Head(socket) = socket[1] /\ Head(socket) \in Unit /\ Tail(socket) \in Seq(Unit)
           /\ Head(socket).kind = "header" => NextHeader \in FrameHeader /\ HeaderRead \in Client
<1>1. socket \in Seq(Unit) /\ usc \in Client
  BY DEF TypeInv
<1>2. Head(socket) = socket[1]
  BY DEF Head
<1>3. Head(socket) \in Unit /\ Tail(socket) \in Seq(Unit)
  BY <1>1, HeadTailProperties
<1>4. Head(socket).kind = "header" => Head(socket).header \in FrameHeader
  BY <1>3 DEF Unit, HeaderUnit, DataUnit
<1> QED BY <1>1, <1>2, <1>3, <1>4 DEF NextHeader, HeaderRead, Client

LEMMA HandleTextKeeps ==
    ASSUME TypeInv, BufferInv, HandleText
    PROVE  TypeInv' /\ BufferInv'
<1> DEFINE sz == PacketSize(NextHeader)
           u  == [HeaderRead EXCEPT !.sz_packet = sz]
           v  == [u EXCEPT !.packet = [i \in 1..sz |-> Nothing]]
<1>1. /\ socket # <<>> /\ ~usc.waiting /\ phase = "open" /\ Head(socket).kind = "header"
      /\ NextHeader.op \in {"text", "bin"}
  BY DEF HandleText, Readable
<1>2. Tail(socket) \in Seq(Unit) /\ NextHeader \in FrameHeader /\ HeaderRead \in Client
  BY <1>1, NextUnit
<1>3. sz \in Nat /\ NextHeader.sz_payload \in Nat /\ NextHeader.sz_payload <= sz
  BY <1>2 DEF PacketSize, FrameHeader
<1>4. \/ usc' = u /\ socket' = Tail(socket) /\ Close
      \/ /\ sz <= MaxInmem /\ NextHeader.sz_payload > 0
         /\ ReadPayloadOrSpin(v, Tail(socket))
  BY DEF HandleText
<1>5. UNCHANGED <<env, link, sent, frames>>
  BY DEF HandleText
<1> HIDE DEF sz
<1>6. u \in Client
  BY <1>2, <1>3 DEF Client
<1>7. CASE usc' = u /\ socket' = Tail(socket) /\ Close
  <2>1. phase' = "closed" /\ delivered' = delivered /\ usc' \in Client
    BY <1>6, <1>7 DEF Close
  <2> QED BY <1>2, <1>5, <1>7, <2>1 DEF TypeInv, BufferInv
<1>8. CASE /\ sz <= MaxInmem /\ NextHeader.sz_payload > 0
           /\ ReadPayloadOrSpin(v, Tail(socket))
  <2>5. sz < Word
    BY <1>3, <1>8, ReceiveAssumption
  <2>1. [i \in 1..sz |-> Nothing] \in Seq(Unit \cup {Nothing})
        /\ Len([i \in 1..sz |-> Nothing]) = sz
    BY <1>3
  <2>2. [i \in 1..sz |-> Nothing] # <<>>
    BY <1>3, <1>8, <2>1
  <2>3. /\ v \in Client /\ v.packet = [i \in 1..sz |-> Nothing] /\ v.header = NextHeader
        /\ v.sz_packet = sz /\ v.waiting = usc.waiting
    BY <1>2, <1>6, <2>1 DEF Client, HeaderRead
  <2>4. Ready(v)
    BY <1>1, <1>3, <2>1, <2>2, <2>3, <2>5 DEF Ready, StartsPacket
  <2> QED BY <1>2, <1>5, <1>8, <2>3, <2>4, SpinKeeps
<1> QED BY <1>4, <1>7, <1>8

LEMMA HandleContinuationKeeps ==
    ASSUME TypeInv, BufferInv, HandleContinuation
    PROVE  TypeInv' /\ BufferInv'
<1>1. /\ socket # <<>> /\ ~usc.waiting /\ phase = "open" /\ Head(socket).kind = "header"
      /\ NextHeader.op \in {"continuation", "end"}
      /\ UNCHANGED <<env, link, sent, frames>>
  BY DEF HandleContinuation, Readable
<1>2. Tail(socket) \in Seq(Unit) /\ NextHeader \in FrameHeader /\ HeaderRead \in Client
  BY <1>1, NextUnit
<1>3. /\ HeaderRead.header = NextHeader /\ HeaderRead.waiting = usc.waiting
      /\ HeaderRead.packet = usc.packet /\ HeaderRead.sz_packet = usc.sz_packet
      /\ HeaderRead.sz_read = usc.sz_read
  BY <1>1 DEF HeaderRead, TypeInv, Client
<1>4. CASE NextHeader.sz_payload = 0
  <2>1. usc' = HeaderRead /\ socket' = Tail(socket) /\ phase' = "closed" /\ delivered' = delivered
    BY <1>4 DEF HandleContinuation, Close
  <2> QED BY <1>1, <1>2, <2>1 DEF TypeInv, BufferInv
<1>5. CASE NextHeader.sz_payload # 0
  <2>1. ReadPayloadOrSpin(HeaderRead, Tail(socket))
    BY <1>5 DEF HandleContinuation
  <2>2. ~Starting(usc, phase = "spinning") /\ ~StartsPacket(HeaderRead)
    BY <1>1, <1>3 DEF Starting, StartsPacket
  <2>3. usc.packet # <<>> =>
          /\ FilledUpTo(usc, usc.sz_read)
          /\ Len(usc.packet) = usc.sz_packet /\ usc.sz_packet < Word
    BY <1>1, <2>2 DEF BufferInv
  <2>4. Ready(HeaderRead)
    BY <1>1, <1>3, <2>2, <2>3 DEF Ready, FilledUpTo
  <2> QED BY <1>1, <1>2, <2>1, <2>4, SpinKeeps
<1> QED BY <1>4, <1>5

\* What waits for its payload is ready for it.
LEMMA WaitingIsReady ==
    ASSUME TypeInv, BufferInv, phase \in {"open", "spinning"}, usc.waiting \/ phase = "spinning"
    PROVE  /\ Ready([usc EXCEPT !.waiting = FALSE]) /\ [usc EXCEPT !.waiting = FALSE] \in Client
           /\ phase = "spinning" => Ready(usc)
<1> DEFINE u == [usc EXCEPT !.waiting = FALSE]
<1>1. /\ u \in Client /\ u.header = usc.header /\ ~u.waiting /\ u.packet = usc.packet
      /\ u.sz_packet = usc.sz_packet /\ u.sz_read = usc.sz_read
  BY DEF TypeInv, Client
<1> HIDE DEF u
<1>2. usc.packet # <<>> => Len(usc.packet) = usc.sz_packet /\ usc.sz_packet < Word
  BY DEF BufferInv
<1>3. CASE StartsPacket(usc)
  <2>1. Starting(usc, phase = "spinning")
    BY <1>3 DEF Starting
  <2>2. usc.packet # <<>> /\ usc.header.sz_payload <= usc.sz_packet
    BY <2>1 DEF BufferInv
  <2>3. phase = "spinning" => ~usc.waiting
    BY DEF BufferInv
  <2> QED BY <1>1, <1>2, <1>3, <2>2, <2>3 DEF Ready, StartsPacket, u
<1>4. CASE ~StartsPacket(usc)
  <2>1. ~Starting(usc, phase = "spinning")
    BY <1>4 DEF Starting
  <2>2. usc.packet # <<>> => FilledUpTo(usc, usc.sz_read)
    BY <2>1 DEF BufferInv
  <2>3. phase = "spinning" => ~usc.waiting
    BY DEF BufferInv
  <2> QED BY <1>1, <1>2, <1>4, <2>2, <2>3 DEF Ready, StartsPacket, FilledUpTo, u
<1> QED BY <1>3, <1>4

LEMMA TypeNext ==
    ASSUME TypeInv, BufferInv, [Next]_vars
    PROVE  TypeInv' /\ BufferInv'
<1>1. CASE UNCHANGED vars
  BY <1>1 DEF vars, TypeInv, BufferInv, Starting, FilledUpTo, StartsPacket
<1>2. ASSUME NEW sz \in Payloads, PeerSendsPacket(sz) PROVE TypeInv' /\ BufferInv'
  <2>1. sz \in Nat \ {0} /\ Len(sent) + 1 \in Nat
    BY ReceiveAssumption, LenProperties DEF TypeInv
  <2>2. link' = link \o Units(Len(sent) + 1, sz) /\ Units(Len(sent) + 1, sz) \in Seq(Unit)
    BY <1>2, <2>1, UnitsAre DEF PeerSendsPacket
  <2>3. link' \in Seq(Unit)
    BY <2>2, ConcatProperties DEF TypeInv
  <2>4. sent' \in Seq(Seq(Unit))
    BY <1>2, <2>1, UnitTypes, AppendProperties DEF PeerSendsPacket, TypeInv
  <2>5. frames' \in [data : Nat, control : Nat]
    <3>1. Len(Frames("text", sz)) \in Nat
      BY <2>1, FramesAre, FramingType, CountFacts
    <3>2. frames' = [frames EXCEPT !.data = frames.data + Len(Frames("text", sz))]
      BY <1>2 DEF PeerSendsPacket
    <3>3. frames \in [data : Nat, control : Nat] /\ frames.data + Len(Frames("text", sz)) \in Nat
      BY <3>1 DEF TypeInv
    <3> QED BY <3>2, <3>3
  <2> QED BY <1>2, <2>3, <2>4, <2>5
          DEF PeerSendsPacket, TypeInv, BufferInv, Starting, FilledUpTo, StartsPacket
<1>3. ASSUME NEW op \in {"ping", "pong", "close"}, PeerSendsControl(op)
      PROVE  TypeInv' /\ BufferInv'
  <2>1. ControlFrame(op) \in FrameHeader
    BY DEF ControlFrame, FrameHeader, Opcodes
  <2>2. link' \in Seq(Unit)
    BY <1>3, <2>1, UnitTypes, AppendProperties DEF PeerSendsControl, TypeInv
  <2>3. frames' \in [data : Nat, control : Nat]
    BY <1>3 DEF PeerSendsControl, TypeInv
  <2> QED BY <1>3, <2>2, <2>3
          DEF PeerSendsControl, TypeInv, BufferInv, Starting, FilledUpTo, StartsPacket
<1>4. ASSUME NEW op \in {"text", "continuation", "end"}, NEW f \in Nat, NEW sz \in Nat,
             NEW n \in Nat, PeerSendsAnyFrame(op, f, sz, n)
      PROVE  TypeInv' /\ BufferInv'
  <2> DEFINE h == [op |-> op, fragmented |-> f, sz_payload |-> sz]
  <2>1. h \in FrameHeader
    BY DEF FrameHeader, Opcodes
  <2> HIDE DEF h
  <2>2. <<Header(h)>> \in Seq(Unit) /\ PacketBytes(0, n) \in Seq(Unit)
    BY <2>1, UnitTypes
  <2>3. link' = link \o <<Header(h)>> \o PacketBytes(0, n)
    BY <1>4 DEF PeerSendsAnyFrame, h
  <2>4. link \o <<Header(h)>> \in Seq(Unit)
    BY <2>2, ConcatProperties DEF TypeInv
  <2>5. link' \in Seq(Unit)
    BY <2>2, <2>3, <2>4, ConcatProperties
  <2>6. frames' \in [data : Nat, control : Nat]
    <3>1. frames' = [frames EXCEPT !.data = frames.data + 1]
      BY <1>4 DEF PeerSendsAnyFrame
    <3>2. frames \in [data : Nat, control : Nat] /\ frames.data + 1 \in Nat
      BY DEF TypeInv
    <3> QED BY <3>1, <3>2
  <2> QED BY <1>4, <2>5, <2>6
          DEF PeerSendsAnyFrame, TypeInv, BufferInv, Starting, FilledUpTo, StartsPacket
<1>5. ASSUME NEW n \in 1..Len(link), Arrive(n) PROVE TypeInv' /\ BufferInv'
  <2>1. n \in Nat /\ n <= Len(link) /\ link \in Seq(Unit) /\ socket \in Seq(Unit)
    BY LenProperties DEF TypeInv
  <2>2. SubSeq(link, 1, n) \in Seq(Unit) /\ SubSeq(link, n + 1, Len(link)) \in Seq(Unit)
    BY <2>1, RestFacts, FrontFacts
  <2>3. socket' \in Seq(Unit) /\ link' \in Seq(Unit)
    BY <1>5, <2>1, <2>2, ConcatProperties DEF Arrive
  <2> QED BY <1>5, <2>3 DEF Arrive, TypeInv, BufferInv, Starting, FilledUpTo, StartsPacket
<1>6. CASE HandleWaiting
  <2>1. phase = "open" /\ usc.waiting /\ UNCHANGED <<env, link, sent, frames>>
        /\ ReadPayload([usc EXCEPT !.waiting = FALSE], socket, FALSE) /\ socket \in Seq(Unit)
    BY <1>6 DEF HandleWaiting, Readable, TypeInv
  <2> QED BY <2>1, WaitingIsReady, ReadPayloadKeeps
<1>7. CASE HandleControl
  <2>1. /\ socket # <<>> /\ phase = "open" /\ ~usc.waiting /\ Head(socket).kind = "header"
        /\ usc' = HeaderRead /\ socket' = Tail(socket) /\ delivered' = delivered
        /\ phase' \in {"open", "closed"} /\ UNCHANGED <<env, link, sent, frames>>
    BY <1>7 DEF HandleControl, Readable, Close
  <2>2. Tail(socket) \in Seq(Unit) /\ HeaderRead \in Client
    BY <2>1, NextUnit
  <2>3. /\ HeaderRead.waiting = usc.waiting /\ HeaderRead.packet = usc.packet
        /\ HeaderRead.sz_packet = usc.sz_packet /\ HeaderRead.sz_read = usc.sz_read
    BY DEF HeaderRead, TypeInv, Client
  <2>4. TypeInv'
    BY <2>1, <2>2 DEF TypeInv
  <2>5. ~Starting(usc, phase = "spinning") /\ ~Starting(usc', phase' = "spinning")
    BY <2>1, <2>3 DEF Starting
  <2> QED BY <2>1, <2>3, <2>4, <2>5 DEF BufferInv, FilledUpTo
<1>8. CASE HandleText
  BY <1>8, HandleTextKeeps
<1>9. CASE HandleContinuation
  BY <1>9, HandleContinuationKeeps
<1>10. CASE HandleGarbled
  <2>1. phase' = "garbled" /\ phase = "open"
        /\ UNCHANGED <<env, usc, link, socket, sent, frames, delivered>>
    BY <1>10 DEF HandleGarbled, Readable
  <2> QED BY <2>1 DEF TypeInv, BufferInv
<1>11. CASE SpinEnds
  <2>1. phase = "spinning" /\ ReadPayload(usc, socket, TRUE) /\ socket \in Seq(Unit)
        /\ usc \in Client /\ UNCHANGED <<env, link, sent, frames>>
    BY <1>11 DEF SpinEnds, TypeInv
  <2> QED BY <2>1, WaitingIsReady, ReadPayloadKeeps
<1>12. CASE Disconnect
  BY <1>12 DEF Disconnect, TypeInv, BufferInv
<1>13. CASE Accept
  <2>1. (TypeInv /\ BufferInv)'
    BY <1>13, AcceptIsInit, TypeInit, PTL
  <2> QED BY <2>1
<1>14. /\ {0, MaxInmem + 1} \cup Payloads \subseteq Nat
       /\ 0..MaxFrame \subseteq Nat /\ Announced \subseteq Nat /\ {0, MaxFrame} \subseteq Nat
  BY ReceiveAssumption, MaxFrameAssumption
<1> QED BY <1>1, <1>2, <1>3, <1>4, <1>5, <1>6, <1>7, <1>8, <1>9, <1>10, <1>11, <1>12, <1>13, <1>14
        DEF Next, HandleReads, Network

-----------------------------------------------------------------------------
(***************************************************************************)
(* The stream of a peer that follows the protocol.  What is said of it is  *)
(* said of places and of what stands behind them, so it survives that the  *)
(* reader takes units from its beginning, and that the peer adds some at   *)
(* its end.                                                                *)
(***************************************************************************)
\* t is s without its first m units.
IsRest(t, s, m) == Len(t) = Len(s) - m /\ \A i \in 1..Len(t) : t[i] = s[i + m]

LEMMA UnitFields ==
    ASSUME NEW s \in Seq(Unit), NEW p \in 1..Len(s)
    PROVE  /\ s[p] \in Unit
           /\ s[p].kind \in {"header", "data"}
           /\ s[p].kind = "header" => s[p].header \in FrameHeader
           /\ s[p].kind = "data" => s[p].packet \in Nat /\ s[p].pos \in Nat
<1>1. s[p] \in Unit
  BY ElementOfSeq
<1> QED BY <1>1 DEF Unit, HeaderUnit, DataUnit

LEMMA RestGoesOn ==
    ASSUME NEW s \in Seq(Unit), NEW t \in Seq(Unit), NEW m \in Nat, IsRest(t, s, m),
           NEW p \in Nat, p >= m, NEW n, NEW read, GoesOn(s, p, n, read)
    PROVE  GoesOn(t, p - m, n, read)
<1>1. Len(s) \in Nat /\ Len(t) \in Nat /\ Len(t) = Len(s) - m
  BY LenProperties DEF IsRest
<1>2. p + 2 <= Len(s)
  BY DEF GoesOn
<1>3. (p - m) + 1 \in 1..Len(t) /\ (p - m) + 2 \in 1..Len(t)
      /\ ((p - m) + 1) + m = p + 1 /\ ((p - m) + 2) + m = p + 2
  BY <1>1, <1>2
<1>4. t[(p - m) + 1] = s[p + 1] /\ t[(p - m) + 2] = s[p + 2]
  <2>1. t[(p - m) + 1] = s[((p - m) + 1) + m]
    BY <1>3 DEF IsRest
  <2>2. t[(p - m) + 2] = s[((p - m) + 2) + m]
    BY <1>3 DEF IsRest
  <2> QED BY <1>3, <2>1, <2>2
<1>5. (p - m) + 2 <= Len(t)
  BY <1>1, <1>2
<1> QED BY <1>4, <1>5 DEF GoesOn

LEMMA RestFrame ==
    ASSUME NEW s \in Seq(Unit), NEW t \in Seq(Unit), NEW m \in Nat, IsRest(t, s, m),
           NEW p \in Nat, p >= m, NEW h \in FrameHeader, NEW n, NEW read, NEW all,
           FrameAt(s, p, h, n, read, all)
    PROVE  FrameAt(t, p - m, h, n, read, all)
<1> DEFINE k == h.sz_payload
           sz == Len(all[n])
<1>1. Len(s) \in Nat /\ Len(t) \in Nat /\ Len(t) = Len(s) - m /\ k \in Nat
  BY LenProperties DEF IsRest, FrameHeader
<1>2. /\ h.op \in {"text", "continuation", "end"}
      /\ n \in DOMAIN all
      /\ k > 0 /\ read >= 0 /\ read + k <= sz
      /\ p + k <= Len(s)
      /\ \A j \in 1..k : s[p + j] = Byte(n, read + j)
      /\ h.op = "text" <=> read = 0
      /\ h.op = "end" <=> read > 0 /\ read + k = sz
      /\ h.fragmented = IF read = 0 /\ k < sz THEN sz ELSE 0
      /\ IF read + k < sz THEN GoesOn(s, p + k, n, read + k)
         ELSE p + k < Len(s) => Fresh(s[(p + k) + 1])
  BY DEF FrameAt
<1> HIDE DEF k, sz
<1>3. (p - m) + k <= Len(t) /\ (p + k) - m = (p - m) + k /\ p + k \in Nat /\ p + k >= m
  BY <1>1, <1>2
<1>4. ASSUME NEW j \in 1..k PROVE t[(p - m) + j] = Byte(n, read + j)
  <2>1. (p - m) + j \in 1..Len(t) /\ ((p - m) + j) + m = p + j
    BY <1>1, <1>2
  <2> QED BY <1>2, <2>1 DEF IsRest
<1>5. read + k < sz => GoesOn(t, (p - m) + k, n, read + k)
  BY <1>2, <1>3, RestGoesOn
<1>6. ASSUME ~(read + k < sz), (p - m) + k < Len(t) PROVE Fresh(t[((p - m) + k) + 1])
  <2>1. p + k < Len(s)
    BY <1>1, <1>2, <1>6
  <2>2. ((p - m) + k) + 1 \in 1..Len(t) /\ (((p - m) + k) + 1) + m = (p + k) + 1
    BY <1>1, <1>3, <1>6
  <2>3. t[((p - m) + k) + 1] = s[(p + k) + 1]
    BY <2>2 DEF IsRest
  <2> QED BY <1>2, <1>6, <2>1, <2>3
<1> QED BY <1>2, <1>3, <1>4, <1>5, <1>6 DEF FrameAt, k, sz

LEMMA RestFramed ==
    ASSUME NEW s \in Seq(Unit), NEW t \in Seq(Unit), NEW m \in Nat, IsRest(t, s, m),
           NEW all, Framed(s, all)
    PROVE  Framed(t, all)
<1>1. Len(s) \in Nat /\ Len(t) \in Nat /\ Len(t) = Len(s) - m
      /\ DOMAIN s = 1..Len(s) /\ DOMAIN t = 1..Len(t)
  BY LenProperties DEF IsRest
<1>2. ASSUME NEW p \in 1..Len(t)
      PROVE  /\ p + m \in DOMAIN s /\ t[p] = s[p + m]
             /\ p < Len(t) <=> p + m < Len(s)
             /\ p < Len(t) => t[p + 1] = s[(p + m) + 1]
  <2>1. p < Len(t) => p + 1 \in 1..Len(t) /\ (p + 1) + m = (p + m) + 1
    BY <1>1
  <2> QED BY <1>1, <2>1 DEF IsRest
<1>3. ASSUME NEW p \in DOMAIN t, DataFrame(t[p]) PROVE FrameOf(t, p, all)
  <2>1. p \in 1..Len(t)
    BY <1>1
  <2>2. FrameOf(s, p + m, all)
    BY <1>2, <1>3, <2>1 DEF Framed
  <2>3. /\ p + m < Len(s)
        /\ FrameAt(s, p + m, s[p + m].header, s[(p + m) + 1].packet, s[(p + m) + 1].pos - 1, all)
    BY <2>2 DEF FrameOf
  <2>4. p < Len(t) /\ t[p] = s[p + m] /\ t[p + 1] = s[(p + m) + 1]
    BY <1>2, <2>1, <2>3
  <2>5. FrameAt(s, p + m, t[p].header, t[p + 1].packet, t[p + 1].pos - 1, all)
    BY <2>3, <2>4
  <2>6. t[p].header \in FrameHeader
    BY <1>3, <2>1, UnitFields DEF DataFrame, IsHeader
  <2>7. p + m \in Nat /\ p + m >= m /\ (p + m) - m = p
    BY <2>1
  <2>8. FrameAt(t, (p + m) - m, t[p].header, t[p + 1].packet, t[p + 1].pos - 1, all)
    BY <2>5, <2>6, <2>7, RestFrame
  <2> QED BY <2>4, <2>7, <2>8 DEF FrameOf
<1>4. ASSUME NEW p \in DOMAIN t, IsHeader(t[p], Controls), p < Len(t) PROVE Fresh(t[p + 1])
  BY <1>1, <1>2, <1>4 DEF Framed
<1> QED BY <1>3, <1>4 DEF Framed

\* Every packet that starts in the stream is one of those that were sent.
LEMMA StartKnown ==
    ASSUME NEW s \in Seq(Unit), NEW all, Framed(s, all), NEW p \in DOMAIN s, Starts(s, p)
    PROVE  /\ p + 1 \in DOMAIN s /\ s[p + 1].packet \in DOMAIN all /\ s[p + 1].pos = 1
           /\ s[p + 1].kind = "data" /\ s[p + 1].packet \in Nat
<1>1. FrameOf(s, p, all)
  BY DEF Framed, Starts, DataFrame, IsHeader
<1>2. DOMAIN s = 1..Len(s) /\ Len(s) \in Nat
  BY LenProperties
<1>3. /\ p + 1 \in 1..Len(s)
      /\ FrameAt(s, p, s[p].header, s[p + 1].packet, s[p + 1].pos - 1, all)
  BY <1>1, <1>2 DEF FrameOf
<1>4. s[p].header \in FrameHeader
  BY <1>2, UnitFields DEF Starts, IsHeader
<1>5. /\ s[p + 1].packet \in DOMAIN all
      /\ s[p].header.sz_payload > 0
      /\ \A j \in 1..s[p].header.sz_payload : s[p + j] = Byte(s[p + 1].packet, (s[p + 1].pos - 1) + j)
      /\ s[p].header.op = "text" <=> s[p + 1].pos - 1 = 0
  BY <1>3 DEF FrameAt
<1>6. 1 \in 1..s[p].header.sz_payload
  BY <1>4, <1>5 DEF FrameHeader
<1>7. s[p + 1].kind = "data"
  <2>1. s[p + 1] = Byte(s[p + 1].packet, (s[p + 1].pos - 1) + 1)
    BY <1>5, <1>6
  <2>2. \A x, y : Byte(x, y).kind = "data"
    BY DEF Byte
  <2> QED BY <2>1, <2>2
<1>8. s[p + 1].packet \in Nat /\ s[p + 1].pos \in Nat
  BY <1>3, <1>7, UnitFields
<1>9. s[p + 1].pos - 1 = 0
  BY <1>5 DEF Starts, IsHeader
<1> QED BY <1>2, <1>3, <1>5, <1>7, <1>8, <1>9

LEMMA RestInOrder ==
    ASSUME NEW s \in Seq(Unit), NEW t \in Seq(Unit), NEW m \in Nat, IsRest(t, s, m),
           NEW all \in Seq(Seq(Unit)), Framed(s, all),
           NEW n \in Nat, InOrder(s, n, all), NEW first \in Nat, first >= n,
           \A p \in DOMAIN s : Starts(s, p) => (p > m <=> s[p + 1].packet >= first)
    PROVE  InOrder(t, first, all)
<1>1. Len(s) \in Nat /\ Len(t) \in Nat /\ Len(t) = Len(s) - m
      /\ DOMAIN s = 1..Len(s) /\ DOMAIN t = 1..Len(t)
  BY LenProperties DEF IsRest
<1>2. ASSUME NEW p \in DOMAIN t, Starts(t, p)
      PROVE  p + m \in DOMAIN s /\ Starts(s, p + m) /\ t[p + 1].packet = s[(p + m) + 1].packet
  <2>1. p + m \in DOMAIN s /\ t[p] = s[p + m]
    BY <1>1 DEF IsRest
  <2>2. Starts(s, p + m)
    BY <1>2, <2>1 DEF Starts
  <2>3. (p + m) + 1 \in DOMAIN s
    BY <2>1, <2>2, StartKnown
  <2>4. p + 1 \in 1..Len(t) /\ (p + 1) + m = (p + m) + 1
    BY <1>1, <2>3
  <2> QED BY <2>1, <2>2, <2>4 DEF IsRest
<1>3. ASSUME NEW q \in DOMAIN s, Starts(s, q), s[q + 1].packet >= first
      PROVE  q - m \in DOMAIN t /\ Starts(t, q - m) /\ t[(q - m) + 1].packet = s[q + 1].packet
  <2>1. q > m
    BY <1>1, <1>3
  <2>2. q + 1 \in DOMAIN s
    BY <1>3, StartKnown
  <2>3. /\ q - m \in 1..Len(t) /\ (q - m) + m = q
        /\ (q - m) + 1 \in 1..Len(t) /\ ((q - m) + 1) + m = q + 1
    BY <1>1, <2>1, <2>2
  <2>4. t[q - m] = s[q] /\ t[(q - m) + 1] = s[q + 1]
    <3>1. t[q - m] = s[(q - m) + m]
      BY <2>3 DEF IsRest
    <3>2. t[(q - m) + 1] = s[((q - m) + 1) + m]
      BY <2>3 DEF IsRest
    <3> QED BY <2>3, <3>1, <3>2
  <2> QED BY <1>1, <1>3, <2>3, <2>4 DEF Starts
<1>4. ASSUME NEW p \in DOMAIN t, Starts(t, p) PROVE t[p + 1].packet >= first
  <2>1. p + m \in DOMAIN s /\ Starts(s, p + m) /\ t[p + 1].packet = s[(p + m) + 1].packet
    BY <1>2, <1>4
  <2>2. p + m > m
    BY <1>1
  <2> QED BY <2>1, <2>2
<1>5. ASSUME NEW p \in DOMAIN t, NEW q \in DOMAIN t, Starts(t, p), Starts(t, q), p < q
      PROVE  t[p + 1].packet < t[q + 1].packet
  <2>1. p + m < q + m
    BY <1>1, <1>5
  <2> QED BY <1>2, <1>5, <2>1 DEF InOrder
<1>6. ASSUME NEW k \in DOMAIN all, k >= first
      PROVE  \E p \in DOMAIN t : Starts(t, p) /\ t[p + 1].packet = k
  <2>1. k \in Nat /\ k >= n
    BY <1>6, LenProperties
  <2>2. PICK q \in DOMAIN s : Starts(s, q) /\ s[q + 1].packet = k
    BY <2>1 DEF InOrder
  <2> QED BY <1>3, <1>6, <2>2
<1> QED BY <1>4, <1>5, <1>6 DEF InOrder

\* The first packet that starts is the next one.
LEMMA FirstStart ==
    ASSUME NEW s \in Seq(Unit), NEW all \in Seq(Seq(Unit)), Framed(s, all), NEW n \in Nat \ {0},
           InOrder(s, n, all), s # <<>>, Starts(s, 1)
    PROVE  /\ s[2].packet = n /\ n \in DOMAIN all
           /\ \A p \in DOMAIN s : Starts(s, p) => (p > 1 <=> s[p + 1].packet >= n + 1)
<1>1. Len(s) \in Nat \ {0} /\ DOMAIN s = 1..Len(s) /\ DOMAIN all = 1..Len(all) /\ Len(all) \in Nat
  BY LenProperties, EmptySeq
<1>2. 1 \in DOMAIN s /\ 1 + 1 = 2
  BY <1>1
<1>3. s[2].packet \in DOMAIN all /\ s[2].packet >= n
  BY <1>2, StartKnown DEF InOrder
<1>4. n \in DOMAIN all
  BY <1>1, <1>3
<1>5. PICK q \in DOMAIN s : Starts(s, q) /\ s[q + 1].packet = n
  BY <1>4 DEF InOrder
<1>6. q > 1 => s[2].packet < n
  BY <1>2, <1>5 DEF InOrder
<1>7. s[2].packet = n
  <2>1. q = 1 \/ q > 1
    BY <1>1
  <2>2. q = 1 => s[2].packet = n
    BY <1>2, <1>5
  <2>3. ~(s[2].packet < n)
    BY <1>1, <1>3
  <2> QED BY <1>6, <2>1, <2>2, <2>3
<1>8. ASSUME NEW p \in DOMAIN s, Starts(s, p) PROVE p > 1 <=> s[p + 1].packet >= n + 1
  <2>1. p = 1 \/ p > 1
    BY <1>1
  <2>2. p > 1 => s[2].packet < s[p + 1].packet
    BY <1>2, <1>8 DEF InOrder
  <2>3. s[p + 1].packet \in Nat
    BY <1>8, StartKnown
  <2>4. p = 1 => s[p + 1].packet = n
    BY <1>2, <1>7
  <2> QED BY <1>7, <2>1, <2>2, <2>3, <2>4
<1> QED BY <1>4, <1>7, <1>8

\* s goes on with e, of packets that are new in more.
Extends(more, all) == \A n \in DOMAIN all : n \in DOMAIN more /\ more[n] = all[n]

LEMMA ConcatFacts ==
    ASSUME NEW s \in Seq(Unit), NEW e \in Seq(Unit)
    PROVE  /\ s \o e \in Seq(Unit) /\ Len(s \o e) = Len(s) + Len(e)
           /\ Len(s) \in Nat /\ Len(e) \in Nat
           /\ DOMAIN s = 1..Len(s) /\ DOMAIN e = 1..Len(e)
           /\ DOMAIN (s \o e) = 1..(Len(s) + Len(e))
           /\ \A i \in 1..Len(s) : (s \o e)[i] = s[i]
           /\ \A i \in 1..Len(e) : (s \o e)[Len(s) + i] = e[i]
<1>1. Len(s) \in Nat /\ Len(e) \in Nat /\ DOMAIN s = 1..Len(s) /\ DOMAIN e = 1..Len(e)
  BY LenProperties
<1>2. /\ s \o e \in Seq(Unit) /\ Len(s \o e) = Len(s) + Len(e)
      /\ \A i \in 1..(Len(s) + Len(e)) : (s \o e)[i] = IF i <= Len(s) THEN s[i] ELSE e[i - Len(s)]
  BY ConcatProperties, Zenon
<1>3. DOMAIN (s \o e) = 1..(Len(s) + Len(e))
  BY <1>2, LenProperties
<1>4. ASSUME NEW i \in 1..Len(s) PROVE (s \o e)[i] = s[i]
  <2>1. i \in 1..(Len(s) + Len(e)) /\ i <= Len(s)
    BY <1>1
  <2> QED BY <1>2, <2>1
<1>5. ASSUME NEW i \in 1..Len(e) PROVE (s \o e)[Len(s) + i] = e[i]
  <2>1. Len(s) + i \in 1..(Len(s) + Len(e)) /\ ~(Len(s) + i <= Len(s)) /\ (Len(s) + i) - Len(s) = i
    BY <1>1
  <2>2. (s \o e)[Len(s) + i] = e[(Len(s) + i) - Len(s)]
    BY <1>2, <2>1
  <2> QED BY <2>1, <2>2
<1> QED BY <1>1, <1>2, <1>3, <1>4, <1>5

LEMMA LongerFrame ==
    ASSUME NEW s \in Seq(Unit), NEW e \in Seq(Unit), e # <<>>, Fresh(e[1]),
           NEW all, NEW more, Extends(more, all),
           NEW p \in Nat, NEW h \in FrameHeader, NEW n, NEW read, FrameAt(s, p, h, n, read, all)
    PROVE  FrameAt(s \o e, p, h, n, read, more)
<1> DEFINE k == h.sz_payload
           sz == Len(all[n])
           t == s \o e
<1>1. /\ t \in Seq(Unit) /\ Len(t) = Len(s) + Len(e) /\ Len(s) \in Nat /\ Len(e) \in Nat
      /\ \A i \in 1..Len(s) : t[i] = s[i]
      /\ \A i \in 1..Len(e) : t[Len(s) + i] = e[i]
  BY ConcatFacts
<1>2. k \in Nat /\ Len(e) # 0
  BY EmptySeq DEF FrameHeader
<1>3. /\ h.op \in {"text", "continuation", "end"}
      /\ n \in DOMAIN all
      /\ k > 0 /\ read >= 0 /\ read + k <= sz
      /\ p + k <= Len(s)
      /\ \A j \in 1..k : s[p + j] = Byte(n, read + j)
      /\ h.op = "text" <=> read = 0
      /\ h.op = "end" <=> read > 0 /\ read + k = sz
      /\ h.fragmented = IF read = 0 /\ k < sz THEN sz ELSE 0
      /\ IF read + k < sz THEN GoesOn(s, p + k, n, read + k)
         ELSE p + k < Len(s) => Fresh(s[(p + k) + 1])
  BY DEF FrameAt
<1>4. n \in DOMAIN more /\ Len(more[n]) = sz
  BY <1>3 DEF Extends
<1> HIDE DEF k, sz, t
<1>5. ASSUME NEW j \in 1..k PROVE t[p + j] = Byte(n, read + j)
  <2>1. p + j \in 1..Len(s)
    BY <1>1, <1>2, <1>3
  <2> QED BY <1>1, <1>3, <2>1
<1>6. ASSUME read + k < sz PROVE GoesOn(t, p + k, n, read + k)
  <2>1. /\ (p + k) + 2 <= Len(s) /\ IsHeader(s[(p + k) + 1], {"continuation", "end"})
        /\ s[(p + k) + 2] = Byte(n, (read + k) + 1)
    BY <1>3, <1>6 DEF GoesOn
  <2>2. (p + k) + 1 \in 1..Len(s) /\ (p + k) + 2 \in 1..Len(s) /\ (p + k) + 2 <= Len(t)
    BY <1>1, <1>2, <2>1
  <2>3. t[(p + k) + 1] = s[(p + k) + 1] /\ t[(p + k) + 2] = s[(p + k) + 2]
    BY <1>1, <2>2
  <2> QED BY <2>1, <2>2, <2>3 DEF GoesOn
<1>7. ASSUME ~(read + k < sz), p + k < Len(t) PROVE Fresh(t[(p + k) + 1])
  <2>1. CASE p + k < Len(s)
    <3>1. (p + k) + 1 \in 1..Len(s)
      BY <1>1, <1>2, <2>1
    <3>2. t[(p + k) + 1] = s[(p + k) + 1]
      BY <1>1, <3>1
    <3> QED BY <1>3, <1>7, <2>1, <3>2
  <2>2. CASE p + k = Len(s)
    <3>1. 1 \in 1..Len(e)
      BY <1>1, <1>2
    <3>2. t[Len(s) + 1] = e[1]
      BY <1>1, <3>1
    <3> QED BY <2>2, <3>2
  <2> QED BY <1>1, <1>2, <1>3, <2>1, <2>2
<1>8. p + k <= Len(t)
  BY <1>1, <1>2, <1>3
<1> QED BY <1>3, <1>4, <1>5, <1>6, <1>7, <1>8 DEF FrameAt, k, sz, t

LEMMA LaterFrame ==
    ASSUME NEW s \in Seq(Unit), NEW e \in Seq(Unit), NEW p \in Nat, NEW h \in FrameHeader,
           NEW n, NEW read, NEW all, FrameAt(e, p, h, n, read, all)
    PROVE  FrameAt(s \o e, Len(s) + p, h, n, read, all)
<1> DEFINE k == h.sz_payload
           sz == Len(all[n])
           t == s \o e
           q == Len(s) + p
<1>1. /\ t \in Seq(Unit) /\ Len(t) = Len(s) + Len(e) /\ Len(s) \in Nat /\ Len(e) \in Nat
      /\ \A i \in 1..Len(e) : t[Len(s) + i] = e[i]
  BY ConcatFacts
<1>2. k \in Nat
  BY DEF FrameHeader
<1>3. /\ h.op \in {"text", "continuation", "end"}
      /\ n \in DOMAIN all
      /\ k > 0 /\ read >= 0 /\ read + k <= sz
      /\ p + k <= Len(e)
      /\ \A j \in 1..k : e[p + j] = Byte(n, read + j)
      /\ h.op = "text" <=> read = 0
      /\ h.op = "end" <=> read > 0 /\ read + k = sz
      /\ h.fragmented = IF read = 0 /\ k < sz THEN sz ELSE 0
      /\ IF read + k < sz THEN GoesOn(e, p + k, n, read + k)
         ELSE p + k < Len(e) => Fresh(e[(p + k) + 1])
  BY DEF FrameAt
<1> HIDE DEF k, sz, t
<1>4. ASSUME NEW j \in 1..k PROVE t[q + j] = Byte(n, read + j)
  <2>1. p + j \in 1..Len(e) /\ q + j = Len(s) + (p + j)
    BY <1>1, <1>2, <1>3
  <2> QED BY <1>1, <1>3, <2>1
<1>5. ASSUME read + k < sz PROVE GoesOn(t, q + k, n, read + k)
  <2>1. /\ (p + k) + 2 <= Len(e) /\ IsHeader(e[(p + k) + 1], {"continuation", "end"})
        /\ e[(p + k) + 2] = Byte(n, (read + k) + 1)
    BY <1>3, <1>5 DEF GoesOn
  <2>2. /\ (p + k) + 1 \in 1..Len(e) /\ (p + k) + 2 \in 1..Len(e)
        /\ (q + k) + 1 = Len(s) + ((p + k) + 1) /\ (q + k) + 2 = Len(s) + ((p + k) + 2)
        /\ (q + k) + 2 <= Len(t)
    BY <1>1, <1>2, <2>1
  <2>3. t[(q + k) + 1] = e[(p + k) + 1] /\ t[(q + k) + 2] = e[(p + k) + 2]
    BY <1>1, <2>2
  <2> QED BY <2>1, <2>2, <2>3 DEF GoesOn
<1>6. ASSUME ~(read + k < sz), q + k < Len(t) PROVE Fresh(t[(q + k) + 1])
  <2>1. p + k < Len(e) /\ (p + k) + 1 \in 1..Len(e) /\ (q + k) + 1 = Len(s) + ((p + k) + 1)
    BY <1>1, <1>2, <1>6
  <2>2. t[(q + k) + 1] = e[(p + k) + 1]
    BY <1>1, <2>1
  <2> QED BY <1>3, <1>6, <2>1, <2>2
<1>7. q + k <= Len(t)
  BY <1>1, <1>2, <1>3
<1> QED BY <1>3, <1>4, <1>5, <1>6, <1>7 DEF FrameAt, k, sz, t

LEMMA LongerFramed ==
    ASSUME NEW s \in Seq(Unit), NEW e \in Seq(Unit), e # <<>>, Fresh(e[1]),
           NEW all, NEW more, Extends(more, all), Framed(s, all), Framed(e, more)
    PROVE  Framed(s \o e, more)
<1> DEFINE t == s \o e
<1>1. /\ t \in Seq(Unit) /\ Len(t) = Len(s) + Len(e) /\ Len(s) \in Nat /\ Len(e) \in Nat
      /\ DOMAIN s = 1..Len(s) /\ DOMAIN e = 1..Len(e) /\ DOMAIN t = 1..(Len(s) + Len(e))
      /\ \A i \in 1..Len(s) : t[i] = s[i]
      /\ \A i \in 1..Len(e) : t[Len(s) + i] = e[i]
  BY ConcatFacts
<1>2. Len(e) # 0
  BY EmptySeq
<1> HIDE DEF t
<1>3. ASSUME NEW p \in DOMAIN t, p <= Len(s), DataFrame(t[p]) PROVE FrameOf(t, p, more)
  <2>1. p \in DOMAIN s /\ t[p] = s[p]
    BY <1>1, <1>3
  <2>2. FrameOf(s, p, all)
    BY <1>3, <2>1 DEF Framed
  <2>3. p < Len(s) /\ p + 1 \in 1..Len(s)
    BY <1>1, <2>1, <2>2 DEF FrameOf
  <2>4. t[p + 1] = s[p + 1]
    BY <1>1, <2>3
  <2>5. s[p].header \in FrameHeader
    BY <1>1, <1>3, <2>1, UnitFields DEF DataFrame, IsHeader
  <2>6. FrameAt(s, p, s[p].header, s[p + 1].packet, s[p + 1].pos - 1, all) /\ p \in Nat
    BY <1>1, <2>1, <2>2 DEF FrameOf
  <2>7. FrameAt(t, p, s[p].header, s[p + 1].packet, s[p + 1].pos - 1, more)
    BY <2>5, <2>6, LongerFrame DEF t
  <2> QED BY <1>1, <2>1, <2>3, <2>4, <2>7 DEF FrameOf
<1>4. ASSUME NEW p \in DOMAIN t, p > Len(s), DataFrame(t[p]) PROVE FrameOf(t, p, more)
  <2> DEFINE i == p - Len(s)
  <2>1. i \in DOMAIN e /\ i \in Nat /\ p = Len(s) + i
    BY <1>1, <1>4
  <2> HIDE DEF i
  <2>2. t[p] = e[i]
    BY <1>1, <2>1
  <2>3. FrameOf(e, i, more)
    BY <1>4, <2>1, <2>2 DEF Framed
  <2>4. i < Len(e) /\ i + 1 \in 1..Len(e) /\ p + 1 = Len(s) + (i + 1)
    <3>1. i < Len(e)
      BY <2>3 DEF FrameOf
    <3> QED BY <1>1, <2>1, <3>1
  <2>5. t[p + 1] = e[i + 1]
    BY <1>1, <2>4
  <2>6. e[i].header \in FrameHeader
    BY <1>1, <1>4, <2>1, <2>2, UnitFields DEF DataFrame, IsHeader
  <2>7. FrameAt(e, i, e[i].header, e[i + 1].packet, e[i + 1].pos - 1, more)
    BY <2>3 DEF FrameOf
  <2>8. FrameAt(t, p, e[i].header, e[i + 1].packet, e[i + 1].pos - 1, more)
    BY <2>1, <2>6, <2>7, LaterFrame DEF t
  <2>9. p < Len(t)
    BY <1>1, <2>1, <2>4
  <2> QED BY <2>2, <2>5, <2>8, <2>9 DEF FrameOf
<1>5. ASSUME NEW p \in DOMAIN t, IsHeader(t[p], Controls), p < Len(t) PROVE Fresh(t[p + 1])
  <2>1. CASE p < Len(s)
    <3>1. p \in DOMAIN s /\ p + 1 \in 1..Len(s)
      BY <1>1, <2>1
    <3>2. t[p] = s[p] /\ t[p + 1] = s[p + 1]
      BY <1>1, <3>1
    <3> QED BY <1>5, <2>1, <3>1, <3>2 DEF Framed
  <2>2. CASE p = Len(s)
    <3>1. 1 \in 1..Len(e)
      BY <1>1, <1>2
    <3> QED BY <1>1, <2>2, <3>1
  <2>3. CASE p > Len(s)
    <3> DEFINE i == p - Len(s)
    <3>1. i \in DOMAIN e /\ p = Len(s) + i /\ i + 1 \in 1..Len(e) /\ i < Len(e)
          /\ p + 1 = Len(s) + (i + 1)
      BY <1>1, <1>5, <2>3
    <3> HIDE DEF i
    <3>2. t[p] = e[i] /\ t[p + 1] = e[i + 1]
      BY <1>1, <3>1
    <3> QED BY <1>5, <3>1, <3>2 DEF Framed
  <2> QED BY <1>1, <2>1, <2>2, <2>3
<1>6. ASSUME NEW p \in DOMAIN t, DataFrame(t[p]) PROVE FrameOf(t, p, more)
  <2>1. p <= Len(s) \/ p > Len(s)
    BY <1>1
  <2> QED BY <1>3, <1>4, <1>6, <2>1
<1> QED BY <1>5, <1>6 DEF Framed, t

LEMMA LongerInOrder ==
    ASSUME NEW s \in Seq(Unit), NEW e \in Seq(Unit),
           NEW all \in Seq(Seq(Unit)), NEW more \in Seq(Seq(Unit)), Extends(more, all),
           Framed(s, all), Framed(e, more),
           NEW n \in Nat, n <= Len(all) + 1, InOrder(s, n, all), InOrder(e, Len(all) + 1, more)
    PROVE  InOrder(s \o e, n, more)
<1> DEFINE t == s \o e
<1>1. /\ t \in Seq(Unit) /\ Len(t) = Len(s) + Len(e) /\ Len(s) \in Nat /\ Len(e) \in Nat
      /\ DOMAIN s = 1..Len(s) /\ DOMAIN e = 1..Len(e) /\ DOMAIN t = 1..(Len(s) + Len(e))
      /\ \A i \in 1..Len(s) : t[i] = s[i]
      /\ \A i \in 1..Len(e) : t[Len(s) + i] = e[i]
  BY ConcatFacts
<1>2. Len(all) \in Nat /\ DOMAIN all = 1..Len(all)
  BY LenProperties
<1> HIDE DEF t
<1>3. ASSUME NEW p \in DOMAIN t, p <= Len(s), Starts(t, p)
      PROVE  /\ p \in DOMAIN s /\ Starts(s, p) /\ t[p + 1].packet = s[p + 1].packet
             /\ t[p + 1].packet \in 1..Len(all) /\ t[p + 1].packet >= n
  <2>1. p \in DOMAIN s /\ Starts(s, p)
    BY <1>1, <1>3 DEF Starts
  <2>2. p + 1 \in DOMAIN s /\ s[p + 1].packet \in DOMAIN all
    BY <2>1, StartKnown
  <2>3. t[p + 1] = s[p + 1]
    BY <1>1, <2>2
  <2> QED BY <1>2, <2>1, <2>2, <2>3 DEF InOrder
<1>4. ASSUME NEW i \in DOMAIN e, Starts(e, i)
      PROVE  /\ Len(s) + i \in DOMAIN t /\ Starts(t, Len(s) + i)
             /\ t[(Len(s) + i) + 1].packet = e[i + 1].packet
             /\ e[i + 1].packet >= Len(all) + 1 /\ e[i + 1].packet \in Nat
  <2>1. Len(s) + i \in DOMAIN t /\ t[Len(s) + i] = e[i]
    BY <1>1
  <2>2. i + 1 \in DOMAIN e /\ e[i + 1].packet \in Nat
    BY <1>4, StartKnown
  <2>3. (Len(s) + i) + 1 = Len(s) + (i + 1)
    BY <1>1
  <2>4. t[(Len(s) + i) + 1] = e[i + 1]
    BY <1>1, <2>2, <2>3
  <2> QED BY <1>4, <2>1, <2>2, <2>4 DEF Starts, InOrder
<1>5. ASSUME NEW p \in DOMAIN t, p > Len(s), Starts(t, p)
      PROVE  /\ p - Len(s) \in DOMAIN e /\ Starts(e, p - Len(s)) /\ p = Len(s) + (p - Len(s))
             /\ t[p + 1].packet = e[(p - Len(s)) + 1].packet
             /\ t[p + 1].packet >= Len(all) + 1 /\ t[p + 1].packet \in Nat
  <2>1. p - Len(s) \in DOMAIN e /\ p = Len(s) + (p - Len(s))
    BY <1>1, <1>5
  <2>2. t[p] = e[p - Len(s)]
    BY <1>1, <2>1
  <2>3. Starts(e, p - Len(s))
    BY <1>5, <2>2 DEF Starts
  <2>4. (Len(s) + (p - Len(s))) + 1 = p + 1
    BY <1>1
  <2> QED BY <1>4, <2>1, <2>3, <2>4
<1>6. ASSUME NEW p \in DOMAIN t, Starts(t, p) PROVE t[p + 1].packet >= n
  <2>1. p <= Len(s) \/ p > Len(s)
    BY <1>1
  <2> QED BY <1>2, <1>3, <1>5, <1>6, <2>1
<1>7. ASSUME NEW p \in DOMAIN t, NEW q \in DOMAIN t, Starts(t, p), Starts(t, q), p < q
      PROVE  t[p + 1].packet < t[q + 1].packet
  <2>1. CASE q <= Len(s)
    <3>1. p <= Len(s)
      BY <1>1, <1>7, <2>1
    <3> QED BY <1>3, <1>7, <2>1, <3>1 DEF InOrder
  <2>2. CASE p > Len(s)
    <3>1. q > Len(s) /\ p - Len(s) < q - Len(s)
      BY <1>1, <1>7, <2>2
    <3> QED BY <1>5, <1>7, <2>2, <3>1 DEF InOrder
  <2>3. CASE p <= Len(s) /\ q > Len(s)
    BY <1>2, <1>3, <1>5, <1>7, <2>3
  <2> QED BY <1>1, <2>1, <2>2, <2>3
<1>8. ASSUME NEW k \in DOMAIN more, k >= n
      PROVE  \E p \in DOMAIN t : Starts(t, p) /\ t[p + 1].packet = k
  <2>1. k \in Nat
    BY LenProperties
  <2>2. CASE k <= Len(all)
    <3>1. k \in DOMAIN all
      BY <1>2, <2>1, <2>2, LenProperties
    <3>2. PICK p \in DOMAIN s : Starts(s, p) /\ s[p + 1].packet = k
      BY <1>8, <3>1 DEF InOrder
    <3>3. p + 1 \in DOMAIN s
      BY <3>2, StartKnown
    <3>4. p \in DOMAIN t /\ t[p] = s[p] /\ t[p + 1] = s[p + 1]
      BY <1>1, <3>3
    <3> QED BY <3>2, <3>4 DEF Starts
  <2>3. CASE k >= Len(all) + 1
    <3>1. PICK i \in DOMAIN e : Starts(e, i) /\ e[i + 1].packet = k
      BY <2>3 DEF InOrder
    <3> QED BY <1>4, <3>1
  <2> QED BY <1>2, <2>1, <2>2, <2>3
<1> QED BY <1>6, <1>7, <1>8 DEF InOrder, t

\* The units of a packet are a stream of their own.
LEMMA UnitsFramed ==
    ASSUME NEW all \in Seq(Seq(Unit)), all # <<>>, NEW sz \in Nat \ {0},
           all[Len(all)] = PacketBytes(Len(all), sz)
    PROVE  LET e == Units(Len(all), sz)
           IN  e # <<>> /\ Fresh(e[1]) /\ Framed(e, all) /\ InOrder(e, Len(all), all)
<1> DEFINE n == Len(all)
           e == Units(n, sz)
           N == Count(sz)
           M == MaxFrame
<1>1. /\ M \in Nat \ {0} /\ N \in Nat \ {0}
      /\ (N - 1) * M < sz /\ sz <= N * M /\ (sz <= M <=> N = 1)
  BY MaxFrameAssumption, CountFacts
<1>2. n \in Nat \ {0} /\ n \in DOMAIN all /\ DOMAIN all = 1..n
  BY LenProperties, EmptySeq
<1>3. /\ e \in Seq(Unit) /\ Len(e) = N + sz /\ DOMAIN e = 1..(N + sz)
      /\ \A f \in 0..(N - 1), k \in 0..M :
           f * (M + 1) + k + 1 <= N + sz =>
             e[f * (M + 1) + k + 1] = IF k = 0 THEN Header(Framing(sz)[f + 1]) ELSE Byte(n, f * M + k)
      /\ \A i \in 1..(N + sz) : \E f \in 0..(N - 1), k \in 0..M : i = f * (M + 1) + k + 1
  BY <1>2, UnitsAre, LenProperties
<1>4. Len(all[n]) = sz
  BY <1>2, UnitTypes
<1> HIDE DEF e, n, N, M
\* The header of a frame.
<1>5. ASSUME NEW f \in 0..(N - 1)
      PROVE  /\ Framing(sz)[f + 1].op =
                  IF f = 0 THEN "text" ELSE IF f + 1 < N THEN "continuation" ELSE "end"
             /\ Framing(sz)[f + 1].fragmented = IF f = 0 /\ N > 1 THEN sz ELSE 0
             /\ Framing(sz)[f + 1].sz_payload = IF f + 1 < N THEN M ELSE sz - (N - 1) * M
             /\ f * (M + 1) = f * M + f /\ f * M \in Nat
             /\ f * M < sz
             /\ f + 1 < N => f * M + M < sz /\ (f + 1) * M = f * M + M
                             /\ (f + 1) * (M + 1) = f * (M + 1) + M + 1
  <2>1. f + 1 \in 1..N /\ (f + 1 = 1 <=> f = 0)
    BY <1>1
  <2>2. Framing(sz)[f + 1] =
          [op |-> IF f + 1 = 1 THEN "text" ELSE IF f + 1 < N THEN "continuation" ELSE "end",
           fragmented |-> IF f + 1 = 1 /\ N > 1 THEN sz ELSE 0,
           sz_payload |-> IF f + 1 < N THEN M ELSE sz - (N - 1) * M]
    BY <2>1 DEF Framing, N, M
  <2>3. f * (M + 1) = f * M + f /\ f * M \in Nat
    BY <1>1
  <2>4. f <= N - 1 => f * M <= (N - 1) * M
    BY <1>1
  <2>5. (f + 1) * M = f * M + M /\ (f + 1) * (M + 1) = f * (M + 1) + M + 1
    BY <1>1
  <2>6. f + 1 < N => (f + 1) * M <= (N - 1) * M
    BY <1>1
  <2>7. /\ Framing(sz)[f + 1].op =
             IF f = 0 THEN "text" ELSE IF f + 1 < N THEN "continuation" ELSE "end"
        /\ Framing(sz)[f + 1].fragmented = IF f = 0 /\ N > 1 THEN sz ELSE 0
        /\ Framing(sz)[f + 1].sz_payload = IF f + 1 < N THEN M ELSE sz - (N - 1) * M
    BY <2>1, <2>2
  <2>8. (N - 1) * M \in Nat /\ f <= N - 1
    BY <1>1
  <2>9. f * M < sz
    <3>1. (N - 1) * M < sz /\ f * M <= (N - 1) * M /\ f * M \in Nat /\ (N - 1) * M \in Nat
      BY <1>1, <2>3, <2>4, <2>8
    <3> QED BY <3>1
  <2>10. ASSUME f + 1 < N PROVE f * M + M < sz
    <3>1. (N - 1) * M < sz /\ (f + 1) * M <= (N - 1) * M /\ f * M \in Nat /\ (N - 1) * M \in Nat
          /\ (f + 1) * M = f * M + M /\ M \in Nat
      BY <1>1, <2>3, <2>5, <2>6, <2>8, <2>10
    <3> QED BY <3>1
  <2> QED BY <2>3, <2>5, <2>7, <2>9, <2>10
<1>6. ASSUME NEW f \in 0..(N - 1)
      PROVE  LET h == Framing(sz)[f + 1]
                 p == f * (M + 1) + 1
             IN  /\ p \in Nat /\ p \in DOMAIN e /\ e[p] = Header(h)
                 /\ h.sz_payload \in 1..M /\ p + h.sz_payload <= Len(e)
                 /\ f * M + h.sz_payload <= sz
                 /\ f + 1 < N <=> f * M + h.sz_payload < sz
                 /\ f + 1 = N => p + h.sz_payload = Len(e)
  <2> DEFINE h == Framing(sz)[f + 1]
             p == f * (M + 1) + 1
  <2>1. /\ h.sz_payload = IF f + 1 < N THEN M ELSE sz - (N - 1) * M
        /\ f * (M + 1) = f * M + f /\ f * M \in Nat /\ f * M < sz
        /\ f + 1 < N => f * M + M < sz
    BY <1>5
  <2> HIDE DEF h
  <2>2. p \in Nat /\ p \in DOMAIN e /\ f * (M + 1) + 0 + 1 = p
    <3>1. f * (M + 1) = f * M + f /\ f * M \in Nat /\ f \in Nat
      BY <2>1
    <3>4. p = (f * M + f) + 1 /\ p \in Nat
      BY <3>1
    <3>2. f \in Nat /\ f <= N - 1
      BY <1>1
    <3>3. p <= N + sz /\ p >= 1
      <4>1. f * M < sz /\ N \in Nat /\ sz \in Nat
        BY <1>1, <2>1
      <4> QED BY <3>1, <3>2, <3>4, <4>1
    <3>5. f * (M + 1) + 0 + 1 = p
      BY <3>1, <3>4
    <3> QED BY <1>3, <3>3, <3>4, <3>5
  <2>3. e[p] = Header(h)
    <3>1. 0 \in 0..M /\ f * (M + 1) + 0 + 1 <= N + sz
      BY <1>1, <1>3, <2>2
    <3>2. e[f * (M + 1) + 0 + 1] = Header(Framing(sz)[f + 1])
      BY <1>3, <3>1
    <3> QED BY <2>2, <3>2 DEF h
  <2>4. f + 1 = N => f * M = (N - 1) * M
    BY <1>1
  <2>5. N * M = (N - 1) * M + M
    BY <1>1
  <2>6. (N - 1) * M \in Nat
    BY <1>1
  <2>7. h.sz_payload \in 1..M
    BY <1>1, <2>1, <2>5, <2>6
  <2>8. f + 1 = N => f * M + h.sz_payload = sz
    BY <1>1, <2>1, <2>4, <2>6
  <2>9. f + 1 = N \/ f + 1 < N
    BY <1>1
  <2>10. p + h.sz_payload = (f * M + h.sz_payload) + f + 1
    BY <1>1, <2>1, <2>7
  <2>11. f + 1 < N => f * M + h.sz_payload < sz
    BY <2>1
  <2>12. p + h.sz_payload <= Len(e) /\ (f + 1 = N => p + h.sz_payload = Len(e))
    BY <1>1, <1>3, <2>1, <2>7, <2>8, <2>9, <2>10, <2>11
  <2> QED BY <1>1, <2>1, <2>2, <2>3, <2>7, <2>8, <2>9, <2>11, <2>12 DEF h
<1>7. ASSUME NEW f \in 0..(N - 1)
      PROVE  FrameAt(e, f * (M + 1) + 1, Framing(sz)[f + 1], n, f * M, all)
  <2> DEFINE h == Framing(sz)[f + 1]
             p == f * (M + 1) + 1
  <2>1. /\ h.op = IF f = 0 THEN "text" ELSE IF f + 1 < N THEN "continuation" ELSE "end"
        /\ h.fragmented = IF f = 0 /\ N > 1 THEN sz ELSE 0
        /\ h.sz_payload = IF f + 1 < N THEN M ELSE sz - (N - 1) * M
        /\ f * (M + 1) = f * M + f /\ f * M \in Nat /\ f * M < sz
        /\ f + 1 < N => f * M + M < sz /\ (f + 1) * M = f * M + M
                        /\ (f + 1) * (M + 1) = f * (M + 1) + M + 1
    BY <1>5
  <2>2. /\ p \in Nat /\ h.sz_payload \in 1..M /\ p + h.sz_payload <= Len(e)
        /\ f * M + h.sz_payload <= sz
        /\ f + 1 < N <=> f * M + h.sz_payload < sz
        /\ f + 1 = N => p + h.sz_payload = Len(e)
    BY <1>6
  <2> HIDE DEF h
  <2>3. f * M = 0 <=> f = 0
    BY <1>1
  <2>4. ASSUME NEW j \in 1..h.sz_payload PROVE e[p + j] = Byte(n, f * M + j)
    <3>1. j \in 0..M /\ j # 0 /\ f * (M + 1) + j + 1 = p + j /\ f * (M + 1) + j + 1 <= N + sz
      BY <1>1, <1>3, <2>1, <2>2
    <3> QED BY <1>3, <3>1
  <2>5. ASSUME f + 1 < N PROVE GoesOn(e, p + h.sz_payload, n, f * M + h.sz_payload)
    <3>1. f + 1 \in 0..(N - 1) /\ h.sz_payload = M /\ (f + 1) + 1 <= N
      BY <1>1, <2>1, <2>5
    <3>2. /\ (f + 1) * (M + 1) + 1 = (p + h.sz_payload) + 1
          /\ (f + 1) * (M + 1) + 1 + 1 = (p + h.sz_payload) + 2
      BY <1>1, <2>1, <2>5, <3>1
    <3>3. /\ e[(f + 1) * (M + 1) + 1] = Header(Framing(sz)[(f + 1) + 1])
          /\ Framing(sz)[(f + 1) + 1].sz_payload \in 1..M
          /\ (f + 1) * (M + 1) + 1 + Framing(sz)[(f + 1) + 1].sz_payload <= Len(e)
      BY <3>1, <1>6
    <3>4. (p + h.sz_payload) + 2 <= Len(e)
      BY <1>1, <1>3, <2>1, <2>2, <3>2, <3>3
    <3>5. Framing(sz)[(f + 1) + 1].op \in {"continuation", "end"}
      <4>1. Framing(sz)[(f + 1) + 1].op =
              IF f + 1 = 0 THEN "text" ELSE IF (f + 1) + 1 < N THEN "continuation" ELSE "end"
        BY <3>1, <1>5
      <4>2. f + 1 # 0
        OBVIOUS
      <4> QED BY <4>1, <4>2
    <3>6. IsHeader(e[(p + h.sz_payload) + 1], {"continuation", "end"})
      BY <3>2, <3>3, <3>5 DEF IsHeader, Header
    <3>7. 1 \in 0..M /\ (f + 1) * (M + 1) + 1 + 1 <= N + sz
      BY <1>1, <1>3, <3>2, <3>4
    <3>8. e[(f + 1) * (M + 1) + 1 + 1] = Byte(n, (f + 1) * M + 1)
      BY <1>3, <3>1, <3>7
    <3>9. e[(p + h.sz_payload) + 2] = Byte(n, (f * M + h.sz_payload) + 1)
      BY <2>1, <2>5, <3>1, <3>2, <3>8
    <3> QED BY <3>4, <3>6, <3>9 DEF GoesOn
  <2>6. h.fragmented = IF f * M = 0 /\ h.sz_payload < sz THEN sz ELSE 0
    BY <1>1, <2>1, <2>2, <2>3
  <2>7. /\ h.op \in {"text", "continuation", "end"}
        /\ h.op = "text" <=> f * M = 0
        /\ h.op = "end" <=> f * M > 0 /\ f * M + h.sz_payload = sz
    BY <1>1, <2>1, <2>2, <2>3
  <2>8. ~(f * M + h.sz_payload < sz) => ~(p + h.sz_payload < Len(e))
    BY <1>1, <1>3, <2>2
  <2>9. h.sz_payload > 0 /\ f * M >= 0
    BY <2>1, <2>2
  <2>10. f * M + h.sz_payload < sz => GoesOn(e, p + h.sz_payload, n, f * M + h.sz_payload)
    BY <2>2, <2>5
  <2> QED BY <1>2, <1>4, <2>2, <2>4, <2>6, <2>7, <2>8, <2>9, <2>10 DEF FrameAt, h
\* Any unit is a header at k = 0, or a byte.
<1>8. ASSUME NEW i \in DOMAIN e, e[i].kind = "header"
      PROVE  \E f \in 0..(N - 1) : i = f * (M + 1) + 1 /\ e[i] = Header(Framing(sz)[f + 1])
  <2>1. PICK f \in 0..(N - 1), k \in 0..M : i = f * (M + 1) + k + 1
    BY <1>3
  <2>2. e[i] = IF k = 0 THEN Header(Framing(sz)[f + 1]) ELSE Byte(n, f * M + k)
    BY <1>3, <2>1
  <2>3. k = 0
    BY <1>8, <2>2 DEF Byte
  <2>4. f * (M + 1) \in Nat
    BY <1>1
  <2> QED BY <2>1, <2>2, <2>3, <2>4
<1>9. ASSUME NEW f \in 0..(N - 1)
      PROVE  LET p == f * (M + 1) + 1
             IN  p < Len(e) /\ e[p + 1] = Byte(n, f * M + 1)
  <2>1. /\ f * (M + 1) + 1 \in Nat
        /\ Framing(sz)[f + 1].sz_payload \in 1..M
        /\ (f * (M + 1) + 1) + Framing(sz)[f + 1].sz_payload <= Len(e)
    BY <1>6
  <2>2. f * (M + 1) + 1 < Len(e)
    BY <1>1, <1>3, <2>1
  <2>3. 1 \in 0..M /\ f * (M + 1) + 1 + 1 <= N + sz
    BY <1>1, <1>3, <2>1, <2>2
  <2>4. e[f * (M + 1) + 1 + 1] = Byte(n, f * M + 1)
    BY <1>3, <2>3
  <2> QED BY <2>2, <2>4
<1>10. ASSUME NEW i \in DOMAIN e, DataFrame(e[i]) PROVE FrameOf(e, i, all)
  <2>1. PICK f \in 0..(N - 1) : i = f * (M + 1) + 1 /\ e[i] = Header(Framing(sz)[f + 1])
    BY <1>8, <1>10 DEF DataFrame, IsHeader
  <2>2. FrameAt(e, i, Framing(sz)[f + 1], n, f * M, all)
    BY <1>7, <2>1
  <2>3. i < Len(e) /\ e[i + 1] = Byte(n, f * M + 1)
    BY <1>9, <2>1
  <2>4. f * M \in Nat
    BY <1>1
  <2>5. e[i].header = Framing(sz)[f + 1] /\ e[i + 1].packet = n /\ e[i + 1].pos - 1 = f * M
    BY <2>1, <2>3, <2>4 DEF Header, Byte
  <2> QED BY <2>2, <2>3, <2>5 DEF FrameOf
<1>11. ASSUME NEW i \in DOMAIN e, IsHeader(e[i], Controls) PROVE FALSE
  <2>1. PICK f \in 0..(N - 1) : i = f * (M + 1) + 1 /\ e[i] = Header(Framing(sz)[f + 1])
    BY <1>8, <1>11 DEF IsHeader
  <2>2. Framing(sz)[f + 1].op \in {"text", "continuation", "end"}
    BY <1>5
  <2> QED BY <1>11, <2>1, <2>2 DEF IsHeader, Controls, Header
<1>12. Framed(e, all)
  BY <1>10, <1>11 DEF Framed
\* There is one start, at the beginning.
<1>13. ASSUME NEW i \in DOMAIN e, Starts(e, i) PROVE i = 1
  <2>1. PICK f \in 0..(N - 1) : i = f * (M + 1) + 1 /\ e[i] = Header(Framing(sz)[f + 1])
    BY <1>8, <1>13 DEF Starts, IsHeader
  <2>2. Framing(sz)[f + 1].op = "text" <=> f = 0
    BY <1>5
  <2>3. f = 0
    BY <1>13, <2>1, <2>2 DEF Starts, IsHeader, Header
  <2> QED BY <1>1, <2>1, <2>3
<1>14. 1 \in DOMAIN e /\ Starts(e, 1) /\ e[2].packet = n
  <2>1. 0 \in 0..(N - 1) /\ 0 * (M + 1) + 1 = 1 /\ 0 + 1 = 1 /\ 0 * M + 1 = 1
    BY <1>1
  <2>2. 1 \in DOMAIN e /\ e[1] = Header(Framing(sz)[1])
    <3>1. 0 * (M + 1) + 1 \in DOMAIN e /\ e[0 * (M + 1) + 1] = Header(Framing(sz)[0 + 1])
      BY <2>1, <1>6
    <3> QED BY <2>1, <3>1
  <2>3. Framing(sz)[0 + 1].op = "text"
    BY <2>1, <1>5
  <2>4. e[0 * (M + 1) + 1 + 1] = Byte(n, 0 * M + 1)
    BY <2>1, <1>9
  <2>5. e[2] = Byte(n, 1)
    BY <2>1, <2>4
  <2>6. Starts(e, 1)
    BY <2>1, <2>2, <2>3 DEF Starts, IsHeader, Header
  <2> QED BY <2>2, <2>5, <2>6 DEF Byte
<1>15. InOrder(e, n, all)
  <2>1. ASSUME NEW p \in DOMAIN e, Starts(e, p) PROVE e[p + 1].packet >= n
    <3>1. p = 1
      BY <1>13, <2>1
    <3> QED BY <1>2, <1>14, <3>1
  <2>2. ASSUME NEW p \in DOMAIN e, NEW q \in DOMAIN e, Starts(e, p), Starts(e, q), p < q
        PROVE  e[p + 1].packet < e[q + 1].packet
    BY <1>13, <2>2
  <2>3. ASSUME NEW k \in DOMAIN all, k >= n
        PROVE  \E p \in DOMAIN e : Starts(e, p) /\ e[p + 1].packet = k
    <3>1. k = n
      BY <1>2, <2>3
    <3> QED BY <1>14, <3>1
  <2> QED BY <2>1, <2>2, <2>3 DEF InOrder
<1>16. e # <<>> /\ Fresh(e[1])
  <2>1. Len(e) # 0
    BY <1>1, <1>3
  <2> QED BY <1>14, <2>1, EmptySeq DEF Fresh, Starts, IsHeader
<1> QED BY <1>12, <1>15, <1>16 DEF e, n

-----------------------------------------------------------------------------
(***************************************************************************)
(* A peer that follows the protocol, and the network.                      *)
(***************************************************************************)
LEMMA LongerGoesOn ==
    ASSUME NEW s \in Seq(Unit), NEW e \in Seq(Unit), NEW p \in Nat, NEW n, NEW read,
           GoesOn(s, p, n, read)
    PROVE  GoesOn(s \o e, p, n, read)
<1>1. /\ Len(s \o e) = Len(s) + Len(e) /\ Len(s) \in Nat /\ Len(e) \in Nat
      /\ \A i \in 1..Len(s) : (s \o e)[i] = s[i]
  BY ConcatFacts
<1>2. /\ p + 2 <= Len(s) /\ IsHeader(s[p + 1], {"continuation", "end"})
      /\ s[p + 2] = Byte(n, read + 1)
  BY DEF GoesOn
<1>3. p + 1 \in 1..Len(s) /\ p + 2 \in 1..Len(s) /\ p + 2 <= Len(s \o e)
  BY <1>1, <1>2
<1>4. (s \o e)[p + 1] = s[p + 1] /\ (s \o e)[p + 2] = s[p + 2]
  BY <1>1, <1>3
<1> QED BY <1>2, <1>3, <1>4 DEF GoesOn

\* The first unit of a stream, of which some part has been received.
LEMMA StreamFacts ==
    ASSUME TypeInv
    PROVE  /\ Stream \in Seq(Unit) /\ Len(Stream) = Len(socket) + Len(link)
           /\ Len(socket) \in Nat /\ Len(link) \in Nat
           /\ DOMAIN Stream = 1..Len(Stream)
           /\ \A i \in 1..Len(socket) : Stream[i] = socket[i]
           /\ \A i \in 1..Len(link) : Stream[Len(socket) + i] = link[i]
           /\ socket # <<>> => Stream # <<>> /\ Stream[1] = socket[1] /\ Len(socket) > 0
           /\ Len(delivered) \in Nat /\ Len(sent) \in Nat
           /\ DOMAIN sent = 1..Len(sent) /\ DOMAIN delivered = 1..Len(delivered)
<1>1. socket \in Seq(Unit) /\ link \in Seq(Unit)
      /\ sent \in Seq(Seq(Unit)) /\ delivered \in Seq(Seq(Unit))
  BY DEF TypeInv
<1>2. /\ Stream \in Seq(Unit) /\ Len(Stream) = Len(socket) + Len(link)
      /\ Len(socket) \in Nat /\ Len(link) \in Nat
      /\ DOMAIN Stream = 1..Len(Stream)
      /\ \A i \in 1..Len(socket) : Stream[i] = socket[i]
      /\ \A i \in 1..Len(link) : Stream[Len(socket) + i] = link[i]
  BY <1>1, ConcatFacts DEF Stream
<1>3. socket # <<>> => Len(socket) # 0
  BY <1>1, EmptySeq
<1>4. socket # <<>> => Stream # <<>> /\ Stream[1] = socket[1] /\ Len(socket) > 0
  <2>1. SUFFICES ASSUME socket # <<>> PROVE Stream # <<>> /\ Stream[1] = socket[1] /\ Len(socket) > 0
    OBVIOUS
  <2>2. 1 \in 1..Len(socket) /\ Len(socket) > 0 /\ Len(Stream) # 0
    BY <1>2, <1>3, <2>1
  <2> QED BY <1>2, <2>2, EmptySeq
<1>5. /\ Len(delivered) \in Nat /\ Len(sent) \in Nat
      /\ DOMAIN sent = 1..Len(sent) /\ DOMAIN delivered = 1..Len(delivered)
  BY <1>1, LenProperties
<1> QED BY <1>2, <1>4, <1>5

LEMMA StreamGrows ==
    ASSUME TypeInv, StreamInv, ReaderInv, phase \in {"open", "spinning"},
           NEW e \in Seq(Unit), e # <<>>, Fresh(e[1]),
           link' = link \o e, UNCHANGED <<usc, socket, delivered, phase>>,
           sent' \in Seq(Seq(Unit)), Extends(sent', sent), PacketsInv',
           Framed(e, sent'), InOrder(e, Len(sent) + 1, sent')
    PROVE  StreamInv' /\ ReaderInv'
<1>1. /\ Stream \in Seq(Unit) /\ Len(Stream) = Len(socket) + Len(link)
      /\ Len(socket) \in Nat /\ Len(link) \in Nat
      /\ DOMAIN Stream = 1..Len(Stream)
      /\ Len(delivered) \in Nat /\ Len(sent) \in Nat
      /\ DOMAIN sent = 1..Len(sent) /\ DOMAIN delivered = 1..Len(delivered)
  BY StreamFacts
<1>2. socket \in Seq(Unit) /\ link \in Seq(Unit) /\ sent \in Seq(Seq(Unit)) /\ usc \in Client
  BY DEF TypeInv
<1>3. Stream' = Stream \o e
  <2>1. \A s, t, u \in Seq(Unit) : s \o (t \o u) = (s \o t) \o u
    BY ONLY ConcatAssociative
  <2>2. socket \o (link \o e) = (socket \o link) \o e
    BY <1>2, <2>1
  <2> QED BY <2>2 DEF Stream
<1>4. /\ Framed(Stream, sent) /\ InOrder(Stream, Current + Busy, sent)
      /\ WholePayloads(socket, link) /\ Len(delivered) <= Len(sent)
  BY DEF StreamInv, PacketsInv
<1>5. Current + Busy \in Nat /\ Current + Busy <= Len(sent) + 1
  <2>1. usc.packet # <<>> => Current \in DOMAIN sent
    BY DEF ReaderInv
  <2> QED BY <1>1, <1>4, <2>1 DEF Current, Busy
<1>6. Framed(Stream', sent')
  BY <1>1, <1>3, <1>4, LongerFramed
<1>7. InOrder(Stream', Current + Busy, sent')
  BY <1>1, <1>2, <1>3, <1>4, <1>5, LongerInOrder
<1>8. Current' = Current /\ Busy' = Busy
  BY DEF Current, Busy
<1>9. 1 \in 1..Len(e) /\ Len(e) \in Nat
  BY LenProperties, EmptySeq
<1>10. WholePayloads(socket', link')
  <2>1. CASE link = <<>>
    <3>1. link' = e
      BY <1>2, <2>1, ConcatEmptySeq
    <3> QED BY <3>1 DEF WholePayloads, Fresh, IsHeader
  <2>2. CASE link # <<>>
    <3>1. 1 \in 1..Len(link)
      BY <1>1, <1>2, <2>2, EmptySeq
    <3>2. link'[1] = link[1]
      BY <1>2, <3>1, ConcatFacts
    <3> QED BY <1>4, <2>2, <3>2 DEF WholePayloads
  <2> QED BY <2>1, <2>2
<1>11. StreamInv'
  BY <1>6, <1>7, <1>8, <1>10 DEF StreamInv
<1>12. ~usc'.waiting
  BY DEF ReaderInv
<1>13. CASE usc.packet = <<>>
  <2>1. phase = "open" /\ (Stream # <<>> => Fresh(Stream[1]))
    BY <1>13 DEF ReaderInv
  <2>2. Fresh(Stream'[1])
    <3>1. CASE Stream = <<>>
      BY <1>1, <1>3, <3>1, ConcatEmptySeq
    <3>2. CASE Stream # <<>>
      <4>1. 1 \in 1..Len(Stream)
        BY <1>1, <3>2, EmptySeq
      <4>2. Stream'[1] = Stream[1]
        BY <1>1, <1>3, <4>1, ConcatFacts
      <4> QED BY <2>1, <3>2, <4>2
    <3> QED BY <3>1, <3>2
  <2> QED BY <1>11, <1>12, <1>13, <2>1, <2>2 DEF ReaderInv
<1>14. CASE usc.packet # <<>>
  <2> DEFINE read == IF phase = "spinning" /\ StartsPacket(usc) THEN 0 ELSE usc.sz_read
  <2>1. /\ Current \in DOMAIN sent
        /\ Holds(usc, Current, read)
        /\ IF phase = "spinning"
           THEN FrameAt(Stream, 0, usc.header, Current, read, sent)
           ELSE read > 0 /\ GoesOn(Stream, 0, Current, read)
    BY <1>14 DEF ReaderInv
  <2>2. read' = read
    BY DEF StartsPacket
  <2> HIDE DEF read
  <2>3. Current \in DOMAIN sent' /\ sent'[Current] = sent[Current]
    BY <2>1 DEF Extends
  <2>4. Holds(usc, Current, read)'
    BY <1>8, <2>1, <2>2, <2>3 DEF Holds
  <2>5. phase = "spinning" => FrameAt(Stream', 0, usc'.header, Current', read', sent')
    <3>1. usc.header \in FrameHeader
      BY <1>2 DEF Client
    <3> QED BY <1>1, <1>3, <1>8, <2>1, <2>2, <3>1, LongerFrame
  <2>6. phase # "spinning" => read' > 0 /\ GoesOn(Stream', 0, Current', read')
    BY <1>1, <1>3, <1>8, <2>1, <2>2, LongerGoesOn
  <2>7. usc.packet # <<>> =>
          /\ Current' \in DOMAIN sent'
          /\ Holds(usc, Current, read)'
          /\ IF phase = "spinning"
             THEN FrameAt(Stream', 0, usc'.header, Current', read', sent')
             ELSE read' > 0 /\ GoesOn(Stream', 0, Current', read')
    BY <1>8, <2>3, <2>4, <2>5, <2>6
  <2>8. ReaderInv'
    BY <1>12, <1>14, <2>7 DEF ReaderInv, read
  <2> QED BY <1>11, <2>8
<1> QED BY <1>11, <1>13, <1>14

LEMMA SendPacketKeeps ==
    ASSUME TypeInv, BufferInv, StreamInv, ReaderInv, NEW sz \in Payloads, PeerSendsPacket(sz)
    PROVE  StreamInv' /\ ReaderInv'
<1> DEFINE n == Len(sent) + 1
           e == Units(n, sz)
<1>1. /\ sz \in Nat \ {0} /\ Len(sent) \in Nat /\ n \in Nat \ {0} /\ DOMAIN sent = 1..Len(sent)
      /\ sent \in Seq(Seq(Unit))
  BY ReceiveAssumption, StreamFacts DEF TypeInv
<1>2. /\ phase \in {"open", "spinning"} /\ link' = link \o e
      /\ UNCHANGED <<usc, socket, delivered, phase>>
      /\ sent' = Append(sent, PacketBytes(n, sz))
  BY DEF PeerSendsPacket
<1>3. /\ PacketBytes(n, sz) \in Seq(Unit) /\ Len(PacketBytes(n, sz)) = sz
      /\ \A i \in 1..sz : PacketBytes(n, sz)[i] = Byte(n, i)
      /\ DOMAIN PacketBytes(n, sz) = 1..sz
  <2>1. /\ PacketBytes(n, sz) \in Seq(Unit) /\ Len(PacketBytes(n, sz)) = sz
        /\ \A i \in 1..sz : PacketBytes(n, sz)[i] = Byte(n, i)
    BY <1>1, UnitTypes
  <2>2. DOMAIN PacketBytes(n, sz) = 1..sz
    BY DEF PacketBytes
  <2> QED BY <2>1, <2>2
<1>4. /\ sent' \in Seq(Seq(Unit)) /\ Len(sent') = n /\ DOMAIN sent' = 1..n
      /\ sent'[n] = PacketBytes(n, sz) /\ \A i \in 1..Len(sent) : sent'[i] = sent[i]
  BY <1>1, <1>2, <1>3, AppendProperties
<1>5. sent' # <<>> /\ sent'[Len(sent')] = PacketBytes(Len(sent'), sz)
  BY <1>1, <1>4, EmptySeq
<1>6. e # <<>> /\ Fresh(e[1]) /\ Framed(e, sent') /\ InOrder(e, n, sent')
  BY <1>1, <1>4, <1>5, UnitsFramed
<1>7. e \in Seq(Unit)
  BY <1>1, UnitsAre
<1>8. Extends(sent', sent)
  BY <1>1, <1>4 DEF Extends
<1>9. PacketsInv'
  <2>1. ASSUME NEW k \in DOMAIN sent'
        PROVE  Len(sent'[k]) > 0 /\ \A i \in DOMAIN sent'[k] : sent'[k][i] = Byte(k, i)
    <3>1. CASE k = n
      BY <1>1, <1>3, <1>4, <3>1
    <3>2. CASE k # n
      <4>1. k \in DOMAIN sent /\ sent'[k] = sent[k]
        BY <1>1, <1>4, <2>1, <3>2
      <4> QED BY <4>1 DEF StreamInv, PacketsInv
    <3> QED BY <3>1, <3>2
  <2>2. /\ Len(delivered) <= Len(sent) /\ Len(delivered) \in Nat
        /\ DOMAIN delivered = 1..Len(delivered)
        /\ \A k \in DOMAIN delivered : delivered[k] = sent[k]
    BY StreamFacts DEF StreamInv, PacketsInv
  <2>3. delivered' = delivered
    BY <1>2
  <2>4. Len(delivered') <= Len(sent')
    BY <1>1, <1>4, <2>2, <2>3
  <2>5. \A k \in DOMAIN delivered' : delivered'[k] = sent'[k]
    BY <1>1, <1>4, <2>2, <2>3
  <2> QED BY <2>1, <2>4, <2>5 DEF PacketsInv
<1> HIDE DEF e
<1> QED BY <1>2, <1>4, <1>6, <1>7, <1>8, <1>9, StreamGrows

LEMMA SendControlKeeps ==
    ASSUME TypeInv, BufferInv, StreamInv, ReaderInv, NEW op \in Controls, PeerSendsControl(op)
    PROVE  StreamInv' /\ ReaderInv'
<1> DEFINE e == <<Header(ControlFrame(op))>>
<1>1. /\ phase \in {"open", "spinning"} /\ link' = Append(link, Header(ControlFrame(op)))
      /\ UNCHANGED <<usc, socket, delivered, phase, sent>>
  BY DEF PeerSendsControl
<1>2. ControlFrame(op) \in FrameHeader
  BY DEF ControlFrame, FrameHeader, Opcodes, Controls
<1>3. Header(ControlFrame(op)) \in Unit
  BY <1>2, UnitTypes
<1>4. e \in Seq(Unit) /\ e # <<>> /\ Len(e) = 1 /\ DOMAIN e = 1..1 /\ e[1] = Header(ControlFrame(op))
  BY <1>3
<1>5. link' = link \o e
  BY <1>1, <1>3, AppendIsConcat DEF TypeInv
<1>6. e[1].kind = "header" /\ e[1].header.op = op
  BY <1>4 DEF Header, ControlFrame
<1> HIDE DEF e
<1>7. Fresh(e[1]) /\ ~DataFrame(e[1]) /\ ~Starts(e, 1)
  BY <1>6 DEF Fresh, DataFrame, Starts, IsHeader, Controls
<1>8. Framed(e, sent)
  BY <1>4, <1>7 DEF Framed
<1>9. InOrder(e, Len(sent) + 1, sent)
  <2>1. \A p \in DOMAIN e : ~Starts(e, p)
    BY <1>4, <1>7
  <2>2. \A k \in DOMAIN sent : ~(k >= Len(sent) + 1)
    BY StreamFacts
  <2> QED BY <2>1, <2>2 DEF InOrder
<1>10. sent \in Seq(Seq(Unit)) /\ Extends(sent, sent) /\ PacketsInv /\ PacketsInv'
  BY <1>1 DEF TypeInv, Extends, StreamInv, PacketsInv
<1> QED BY <1>1, <1>4, <1>5, <1>7, <1>8, <1>9, <1>10, StreamGrows

\* A payload arrives whole.
LEMMA ArriveKeeps ==
    ASSUME TypeInv, StreamInv, ReaderInv, env = {}, NEW n \in 1..Len(link), Arrive(n)
    PROVE  StreamInv' /\ ReaderInv'
<1>1. /\ phase \in {"open", "spinning"}
      /\ n < Len(link) => "header" \in {link[n].kind, link[n + 1].kind}
      /\ socket' = socket \o SubSeq(link, 1, n) /\ link' = SubSeq(link, n + 1, Len(link))
      /\ UNCHANGED <<usc, sent, delivered, phase>>
  BY DEF Arrive
<1>2. socket \in Seq(Unit) /\ link \in Seq(Unit) /\ Len(link) \in Nat /\ n \in Nat /\ n <= Len(link)
      /\ n > 0 /\ Len(socket) \in Nat
  BY LenProperties DEF TypeInv
<1>3. /\ SubSeq(link, 1, n) \in Seq(Unit) /\ Len(SubSeq(link, 1, n)) = n
      /\ \A i \in 1..n : SubSeq(link, 1, n)[i] = link[i]
  BY <1>2, FrontFacts
<1>4. /\ SubSeq(link, n + 1, Len(link)) \in Seq(Unit)
      /\ Len(SubSeq(link, n + 1, Len(link))) = Len(link) - n
      /\ \A i \in 1..(Len(link) - n) : SubSeq(link, n + 1, Len(link))[i] = link[i + n]
  BY <1>2, RestFacts
<1>5. SubSeq(link, 1, n) \o SubSeq(link, n + 1, Len(link)) = link
  <2>1. SubSeq(link, 1, n) \o SubSeq(link, n + 1, Len(link)) = SubSeq(link, 1, Len(link))
    BY <1>2, ConcatAdjacentSubSeq
  <2> QED BY <1>2, <2>1, SubSeqFull
<1>6. Stream' = Stream
  <2>1. (socket \o SubSeq(link, 1, n)) \o SubSeq(link, n + 1, Len(link))
          = socket \o (SubSeq(link, 1, n) \o SubSeq(link, n + 1, Len(link)))
    <3>1. ASSUME NEW a \in Seq(Unit), NEW b \in Seq(Unit), NEW c \in Seq(Unit)
          PROVE  (a \o b) \o c = a \o (b \o c)
      BY ConcatAssociative
    <3> QED BY <1>2, <1>3, <1>4, <3>1
  <2> QED BY <1>1, <1>5, <2>1 DEF Stream
<1>7. WholePayloads(socket', link')
  <2>1. SUFFICES ASSUME link' # <<>>
                 PROVE  "header" \in {socket'[Len(socket')].kind, link'[1].kind}
    BY DEF WholePayloads
  <2>2. n < Len(link)
    <3>1. Len(link) - n # 0
      BY <1>1, <1>4, <2>1, EmptySeq
    <3> QED BY <1>2, <3>1
  <2>3. link'[1] = link[n + 1]
    <3>1. 1 \in 1..(Len(link) - n) /\ 1 + n = n + 1
      BY <1>2, <2>2
    <3>2. SubSeq(link, n + 1, Len(link))[1] = link[1 + n]
      BY <1>4, <3>1
    <3> QED BY <1>1, <3>1, <3>2
  <2>4. socket'[Len(socket')] = link[n]
    <3>1. Len(socket') = Len(socket) + n
      BY <1>1, <1>2, <1>3, ConcatFacts
    <3>2. socket'[Len(socket) + n] = SubSeq(link, 1, n)[n]
      BY <1>1, <1>2, <1>3, ConcatFacts
    <3> QED BY <1>2, <1>3, <3>1, <3>2
  <2> QED BY <1>1, <2>2, <2>3, <2>4
<1>8. StreamInv'
  BY <1>1, <1>6, <1>7 DEF StreamInv, PacketsInv, Current, Busy
<1>9. ReaderInv'
  BY <1>1, <1>6 DEF ReaderInv, Current, Holds, StartsPacket
<1> QED BY <1>8, <1>9

-----------------------------------------------------------------------------
(***************************************************************************)
(* The reader of such a stream.                                            *)
(***************************************************************************)
\* A payload that has begun to arrive is read whole, to its place.
LEMMA ReadWhole ==
    ASSUME TypeInv, PacketsInv, NEW u \in Client, Ready(u), u.packet # <<>>,
           NEW units \in Seq(Unit), units # <<>>, WholePayloads(units, link),
           FrameAt(units \o link, 0, u.header, Current, At(u), sent), Holds(u, Current, At(u))
    PROVE  /\ ~ProtocolError(u) /\ Reach(u, units) = u.header.sz_payload
           /\ u.header.sz_payload \in Nat /\ u.header.sz_payload <= Len(units)
           /\ Outcome(u, units) = IF At(u) + u.header.sz_payload = Len(sent[Current])
                                  THEN "packet" ELSE "more"
           /\ After(u, units) \in Client
           /\ After(u, units).sz_read = At(u) + u.header.sz_payload
           /\ Holds(After(u, units), Current, At(u) + u.header.sz_payload)
           /\ After(u, units).packet # <<>> /\ After(u, units).waiting = FALSE
<1> DEFINE s == units \o link
           k == u.header.sz_payload
           sz == Len(sent[Current])
<1>1. /\ s \in Seq(Unit) /\ Len(s) = Len(units) + Len(link)
      /\ Len(units) \in Nat /\ Len(link) \in Nat
      /\ \A i \in 1..Len(units) : s[i] = units[i]
      /\ \A i \in 1..Len(link) : s[Len(units) + i] = link[i]
  BY ConcatFacts DEF TypeInv
<1>2. /\ k \in Nat /\ u.sz_packet \in Nat /\ u.sz_read \in Nat /\ At(u) \in Nat
      /\ u.header \in FrameHeader /\ u.packet \in Seq(Unit \cup {Nothing})
  BY DEF Client, FrameHeader, At
<1>3. /\ u.header.op \in {"text", "continuation", "end"}
      /\ k > 0 /\ At(u) + k <= sz /\ k <= Len(s)
      /\ \A j \in 1..k : s[0 + j] = Byte(Current, At(u) + j)
      /\ u.header.op = "text" <=> At(u) = 0
      /\ u.header.op = "end" <=> At(u) > 0 /\ At(u) + k = sz
      /\ u.header.fragmented = IF At(u) = 0 /\ k < sz THEN sz ELSE 0
      /\ Current \in DOMAIN sent
  <2>1. /\ u.header.op \in {"text", "continuation", "end"}
        /\ k > 0 /\ At(u) + k <= sz /\ 0 + k <= Len(s)
        /\ \A j \in 1..k : s[0 + j] = Byte(Current, At(u) + j)
        /\ u.header.op = "text" <=> At(u) = 0
        /\ u.header.op = "end" <=> At(u) > 0 /\ At(u) + k = sz
        /\ u.header.fragmented = IF At(u) = 0 /\ k < sz THEN sz ELSE 0
        /\ Current \in DOMAIN sent
    BY DEF FrameAt
  <2>2. 0 + k = k
    BY <1>2
  <2> QED BY <2>1, <2>2
<1>4. sz \in Nat
  BY <1>3, ElementOfSeq, LenProperties DEF TypeInv
<1>5. /\ u.sz_packet = sz /\ At(u) <= sz /\ \A i \in 1..At(u) : u.packet[i] = Byte(Current, i)
  BY DEF Holds
<1> HIDE DEF s, sz
<1>6. ~ProtocolError(u)
  <2>1. ~StartsPacket(u) => u.sz_read + k <= u.sz_packet
    BY <1>3, <1>5 DEF At
  <2>2. u.sz_packet < Word /\ Word \in Nat
    BY ReceiveAssumption DEF Ready
  <2>3. ~StartsPacket(u) => (u.sz_read + k) % Word = u.sz_read + k
    <3>1. u.sz_read + k \in Nat /\ (~StartsPacket(u) => u.sz_read + k < Word)
      BY <1>2, <2>1, <2>2
    <3> QED BY <3>1, SmallSums
  <2> QED BY <1>2, <2>1, <2>3 DEF ProtocolError
<1>7. k <= Len(units)
  <2>1. SUFFICES ASSUME Len(units) < k PROVE FALSE
    BY <1>1, <1>2
  <2>2. Len(units) # 0 /\ Len(link) # 0
    <3>1. Len(units) # 0
      BY EmptySeq
    <3> QED BY <1>1, <1>2, <1>3, <2>1, <3>1
  <2>3. link # <<>>
    BY <2>2, EmptySeq DEF TypeInv
  <2>4. Len(units) \in 1..k /\ Len(units) + 1 \in 1..k
        /\ 0 + Len(units) = Len(units) /\ 0 + (Len(units) + 1) = Len(units) + 1
        /\ 1 \in 1..Len(link) /\ Len(units) \in 1..Len(units)
    BY <1>1, <1>2, <2>1, <2>2
  <2>5. s[Len(units)].kind = "data" /\ s[Len(units) + 1].kind = "data"
    <3>1. /\ s[0 + Len(units)] = Byte(Current, At(u) + Len(units))
          /\ s[0 + (Len(units) + 1)] = Byte(Current, At(u) + (Len(units) + 1))
      BY <1>3, <2>4
    <3>2. /\ s[Len(units)] = Byte(Current, At(u) + Len(units))
          /\ s[Len(units) + 1] = Byte(Current, At(u) + (Len(units) + 1))
      BY <2>4, <3>1
    <3> QED BY <3>2 DEF Byte
  <2>6. units[Len(units)].kind = "data" /\ link[1].kind = "data"
    BY <1>1, <2>4, <2>5
  <2> QED BY <2>3, <2>6 DEF WholePayloads
<1>8. Reach(u, units) = k
  BY <1>1, <1>2, <1>7, TakenFacts
<1>9. Outcome(u, units) = IF At(u) + k = sz THEN "packet" ELSE "more"
  <2>1. ~(At(u) + k > u.sz_packet) /\ ~(k < k)
    BY <1>2, <1>3, <1>4, <1>5
  <2>2. StartsPacket(u) <=> u.header.op = "text"
    BY <1>3 DEF StartsPacket
  <2>3. (StartsPacket(u) /\ u.header.fragmented = 0) \/ u.header.op = "end" <=> At(u) + k = sz
    BY <1>2, <1>3, <1>4, <2>2
  <2> QED BY <1>8, <2>1, <2>3 DEF Outcome
<1>10. /\ After(u, units) \in Client
       /\ After(u, units).sz_packet = sz /\ After(u, units).waiting = FALSE
       /\ After(u, units).packet = Filled(u, units)
       /\ After(u, units).sz_read = At(u) + k
  BY <1>2, <1>5, <1>8, AfterFacts DEF Ready, Client
<1>11. After(u, units).packet # <<>> /\ Len(u.packet) = sz
  BY <1>5, <1>6, <1>9, ReadFits, StaysFilled
<1>12. ASSUME NEW i \in 1..(At(u) + k) PROVE Filled(u, units)[i] = Byte(Current, i)
  <2>1. i \in 1..Len(u.packet)
    BY <1>2, <1>3, <1>4, <1>11
  <2>2. Filled(u, units)[i] = IF i - At(u) \in 1..k THEN units[i - At(u)] ELSE u.packet[i]
    BY <1>8, <2>1, FilledFacts
  <2>3. CASE i - At(u) \in 1..k
    <3>1. s[0 + (i - At(u))] = Byte(Current, At(u) + (i - At(u)))
      BY <1>3, <2>3
    <3>2. 0 + (i - At(u)) = i - At(u) /\ At(u) + (i - At(u)) = i /\ i - At(u) \in 1..Len(units)
      BY <1>1, <1>2, <1>7, <2>3
    <3> QED BY <1>1, <2>2, <2>3, <3>1, <3>2
  <2>4. CASE i - At(u) \notin 1..k
    <3>1. i \in 1..At(u)
      BY <1>2, <2>4
    <3> QED BY <1>5, <2>2, <2>4, <3>1
  <2> QED BY <2>3, <2>4
<1>13. Holds(After(u, units), Current, At(u) + k)
  BY <1>3, <1>10, <1>12 DEF Holds, sz
<1> QED BY <1>2, <1>6, <1>7, <1>8, <1>9, <1>10, <1>11, <1>13 DEF sz

\* What is left of the stream when the first units have been read.
LEMMA RestStream ==
    ASSUME TypeInv, NEW units \in Seq(Unit), NEW k \in Nat, k <= Len(units)
    PROVE  LET rest == SubSeq(units, k + 1, Len(units))
           IN  /\ rest \in Seq(Unit) /\ rest \o link \in Seq(Unit)
               /\ IsRest(rest \o link, units \o link, k)
               /\ WholePayloads(units, link) => WholePayloads(rest, link)
<1> DEFINE s    == units \o link
           rest == SubSeq(units, k + 1, Len(units))
           t    == rest \o link
<1>1. /\ s \in Seq(Unit) /\ Len(s) = Len(units) + Len(link)
      /\ Len(units) \in Nat /\ Len(link) \in Nat
      /\ \A i \in 1..Len(units) : s[i] = units[i]
      /\ \A i \in 1..Len(link) : s[Len(units) + i] = link[i]
  BY ConcatFacts DEF TypeInv
<1>2. /\ rest \in Seq(Unit) /\ Len(rest) = Len(units) - k
      /\ \A i \in 1..(Len(units) - k) : rest[i] = units[i + k]
  BY RestFacts
<1>3. /\ t \in Seq(Unit) /\ Len(t) = Len(rest) + Len(link)
      /\ \A i \in 1..Len(rest) : t[i] = rest[i]
      /\ \A i \in 1..Len(link) : t[Len(rest) + i] = link[i]
  BY <1>2, ConcatFacts DEF TypeInv
<1> HIDE DEF s, t, rest
<1>4. IsRest(t, s, k)
  <2>1. Len(t) = Len(s) - k
    BY <1>1, <1>2, <1>3
  <2>2. ASSUME NEW i \in 1..Len(t) PROVE t[i] = s[i + k]
    <3>1. CASE i <= Len(rest)
      <4>1. i \in 1..Len(rest) /\ i \in 1..(Len(units) - k) /\ i + k \in 1..Len(units)
        <5>1. /\ Len(rest) = Len(units) - k /\ Len(units) \in Nat
              /\ i \in Nat /\ i >= 1
          BY <1>1, <1>2, <1>3
        <5> QED BY <3>1, <5>1
      <4> QED BY <1>1, <1>2, <1>3, <4>1
    <3>2. CASE i > Len(rest)
      <4>1. /\ i - Len(rest) \in 1..Len(link) /\ Len(rest) + (i - Len(rest)) = i
            /\ Len(units) + (i - Len(rest)) = i + k
        <5>1. /\ Len(rest) = Len(units) - k /\ Len(t) = Len(rest) + Len(link)
              /\ Len(rest) \in Nat /\ Len(units) \in Nat /\ Len(link) \in Nat
          BY <1>1, <1>2, <1>3
        <5>2. ASSUME NEW a \in Nat, NEW b \in Nat, NEW c \in Nat, b = a - k,
                     i \in 1..(b + c), i > b
              PROVE  i - b \in 1..c /\ b + (i - b) = i /\ a + (i - b) = i + k
          BY <5>2
        <5>3. i \in 1..(Len(rest) + Len(link))
          BY <5>1
        <5> QED BY <3>2, <5>1, <5>2, <5>3
      <4>2. t[Len(rest) + (i - Len(rest))] = link[i - Len(rest)]
            /\ s[Len(units) + (i - Len(rest))] = link[i - Len(rest)]
        BY <1>1, <1>3, <4>1
      <4> QED BY <4>1, <4>2
    <3> QED BY <1>1, <1>2, <3>1, <3>2
  <2> QED BY <2>1, <2>2 DEF IsRest
<1>5. ASSUME WholePayloads(units, link), rest # <<>>, link # <<>>
      PROVE  "header" \in {rest[Len(rest)].kind, link[1].kind}
  <2>1. Len(rest) # 0
    BY <1>2, <1>5, EmptySeq
  <2>2. Len(rest) \in 1..(Len(units) - k) /\ Len(rest) + k = Len(units)
    BY <1>1, <1>2, <2>1
  <2>3. rest[Len(rest)] = units[Len(rest) + k]
    BY <1>2, <2>2
  <2>4. rest[Len(rest)] = units[Len(units)] /\ Len(units) # 0
    <3>1. Len(units) # 0
      <4>1. Len(units) \in Nat /\ Len(rest) \in Nat /\ Len(rest) + k = Len(units)
        BY <1>1, <1>2, <2>2
      <4> QED BY <2>1, <4>1
    <3> QED BY <2>2, <2>3, <3>1
  <2> QED BY <1>5, <2>4, EmptySeq DEF WholePayloads
<1>6. WholePayloads(units, link) => WholePayloads(rest, link)
  BY <1>5 DEF WholePayloads
<1> QED BY <1>2, <1>3, <1>4, <1>6 DEF s, t, rest

LEMMA ReadKeepsOrder ==
    ASSUME TypeInv, PacketsInv, NEW u \in Client, Ready(u), u.packet # <<>>,
           NEW units \in Seq(Unit), units # <<>>, WholePayloads(units, link),
           FrameAt(units \o link, 0, u.header, Current, At(u), sent), Holds(u, Current, At(u)),
           Framed(units \o link, sent), InOrder(units \o link, Current + 1, sent),
           ReadPayload(u, units, TRUE), UNCHANGED <<env, link, sent, frames>>
    PROVE  StreamInv' /\ ReaderInv'
<1> DEFINE s    == units \o link
           k    == u.header.sz_payload
           rest == SubSeq(units, k + 1, Len(units))
           t    == rest \o link
           v    == After(u, units)
           r    == TryToReadPayload(u, units)
           sz   == Len(sent[Current])
<1>1. /\ ~ProtocolError(u) /\ Reach(u, units) = k /\ k \in Nat /\ k <= Len(units)
      /\ Outcome(u, units) = IF At(u) + k = sz THEN "packet" ELSE "more"
      /\ v \in Client /\ v.sz_read = At(u) + k /\ Holds(v, Current, At(u) + k)
      /\ v.packet # <<>> /\ v.waiting = FALSE
  BY ReadWhole
<1>2. r = [usc |-> v, rest |-> rest, result |-> Outcome(u, units)]
  BY <1>1, TryFacts
<1>3. /\ socket' = rest /\ env' = env /\ link' = link /\ sent' = sent
      /\ \/ r.result = "packet" /\ GotPacket(v)
         \/ r.result = "more" /\ usc' = v /\ phase' = "open" /\ UNCHANGED delivered
  <2>1. /\ socket' = r.rest
        /\ \/ r.result = "packet" /\ GotPacket(r.usc)
           \/ r.result = "more" /\ usc' = r.usc /\ phase' = "open" /\ UNCHANGED delivered
           \/ r.result \notin {"packet", "more"}
    BY DEF ReadPayload
  <2> HIDE DEF r, v, rest
  <2>2. r.usc = v /\ r.rest = rest /\ r.result \in {"packet", "more"}
    BY <1>1, <1>2
  <2>3. env' = env /\ link' = link /\ sent' = sent
    OBVIOUS
  <2> QED BY <2>1, <2>2, <2>3
<1>4. /\ s \in Seq(Unit) /\ Len(s) = Len(units) + Len(link)
      /\ Len(units) \in Nat /\ Len(link) \in Nat /\ DOMAIN s = 1..Len(s)
      /\ \A i \in 1..Len(units) : s[i] = units[i]
      /\ \A i \in 1..Len(link) : s[Len(units) + i] = link[i]
  BY ConcatFacts DEF TypeInv
<1>5. /\ rest \in Seq(Unit) /\ Len(rest) = Len(units) - k
      /\ \A i \in 1..(Len(units) - k) : rest[i] = units[i + k]
  BY <1>1, RestFacts
<1>6. /\ t \in Seq(Unit) /\ Len(t) = Len(rest) + Len(link) /\ DOMAIN t = 1..Len(t)
      /\ \A i \in 1..Len(rest) : t[i] = rest[i]
      /\ \A i \in 1..Len(link) : t[Len(rest) + i] = link[i]
  BY <1>5, ConcatFacts DEF TypeInv
<1>7. Stream' = t
  BY <1>3 DEF Stream
<1>8. /\ FrameAt(s, 0, u.header, Current, At(u), sent)
      /\ Framed(s, sent) /\ InOrder(s, Current + 1, sent)
  OBVIOUS
<1>9. /\ Current \in DOMAIN sent /\ k > 0 /\ At(u) \in Nat /\ At(u) + k <= sz
      /\ \A j \in 1..k : s[0 + j] = Byte(Current, At(u) + j)
      /\ IF At(u) + k < sz THEN GoesOn(s, 0 + k, Current, At(u) + k)
         ELSE 0 + k < Len(s) => Fresh(s[(0 + k) + 1])
  BY <1>8 DEF FrameAt, At, Client
<1>10. sz \in Nat /\ 0 + k = k /\ Current \in Nat \ {0} /\ sent \in Seq(Seq(Unit))
  <2>1. Len(delivered) \in Nat /\ sent \in Seq(Seq(Unit))
    BY LenProperties DEF TypeInv
  <2> QED BY <1>1, <1>9, <2>1, ElementOfSeq, LenProperties DEF Current
<1> HIDE DEF s, t, rest, v, r, sz
<1>11. IsRest(t, s, k) /\ WholePayloads(rest, link)
  BY <1>1, RestStream DEF s, t, rest
<1>12. Framed(t, sent)
  BY <1>1, <1>4, <1>6, <1>8, <1>11, RestFramed
<1>13. InOrder(t, Current + 1, sent)
  <2>1. ASSUME NEW p \in DOMAIN s, Starts(s, p) PROVE p > k /\ s[p + 1].packet >= Current + 1
    <3>1. s[p + 1].packet >= Current + 1
      BY <1>8, <2>1 DEF InOrder
    <3>2. ASSUME p <= k PROVE FALSE
      <4>1. p \in 1..k /\ 0 + p = p
        BY <1>1, <1>4, <3>2
      <4>2. s[p] = Byte(Current, At(u) + p)
        BY <1>9, <4>1
      <4> QED BY <2>1, <4>2 DEF Starts, IsHeader, Byte
    <3> QED BY <1>1, <1>4, <3>1, <3>2
  <2>2. \A p \in DOMAIN s : Starts(s, p) => (p > k <=> s[p + 1].packet >= Current + 1)
    BY <2>1
  <2>3. Current + 1 \in Nat /\ Current + 1 >= Current + 1
    BY <1>10
  <2> QED BY <1>1, <1>4, <1>6, <1>8, <1>10, <1>11, <2>2, <2>3, RestInOrder
\* A frame that is not the last of its packet.
<1>15. CASE At(u) + k < sz
  <2>1. usc' = v /\ phase' = "open" /\ delivered' = delivered
    BY <1>1, <1>2, <1>3, <1>9, <1>10, <1>15
  <2>2. Current' = Current /\ Busy' = 1
    BY <1>1, <2>1 DEF Current, Busy
  <2>3. StreamInv'
    BY <1>3, <1>7, <1>11, <1>12, <1>13, <2>1, <2>2 DEF StreamInv, PacketsInv
  <2>4. GoesOn(t, 0, Current, At(u) + k)
    <3>1. GoesOn(s, k, Current, At(u) + k)
      BY <1>9, <1>10, <1>15
    <3>2. k >= k /\ k - k = 0
      BY <1>1
    <3>3. GoesOn(t, k - k, Current, At(u) + k)
      BY <1>1, <1>4, <1>6, <1>11, <3>1, <3>2, RestGoesOn
    <3> QED BY <3>2, <3>3
  <2>5. Holds(v, Current, At(u) + k)'
    <3>1. Holds(v, Current, At(u) + k)
      BY <1>1
    <3> QED BY <1>3, <2>1, <2>2, <3>1 DEF Holds
  <2>6. ReaderInv'
    <3>1. At(u) + k > 0
      BY <1>1, <1>9
    <3>2. /\ ~usc'.waiting /\ usc'.packet # <<>> /\ usc'.sz_read = At(u) + k
          /\ phase' # "spinning" /\ sent' = sent
      BY <1>1, <1>3, <2>1
    <3>3. Current' \in DOMAIN sent' /\ Holds(usc, Current, usc.sz_read)'
      BY <1>3, <1>9, <2>1, <2>2, <2>5, <3>2 DEF Holds
    <3>4. GoesOn(Stream, 0, Current, usc.sz_read)'
      BY <1>7, <2>2, <2>4, <3>2 DEF GoesOn
    <3> QED BY <3>1, <3>2, <3>3, <3>4 DEF ReaderInv
  <2> QED BY <2>3, <2>6
\* The last one.
<1>16. CASE At(u) + k = sz
  <2>1. GotPacket(v)
    BY <1>1, <1>2, <1>3, <1>16
  <2>2. /\ usc' = [v EXCEPT !.packet = <<>>, !.sz_packet = 0, !.sz_read = 0]
        /\ delivered' = Append(delivered, SubSeq(v.packet, 1, v.sz_read))
        /\ phase' \in {"open", "closed"}
    BY <2>1 DEF GotPacket
  <2>3. usc'.packet = <<>> /\ ~usc'.waiting
    BY <1>1, <2>2 DEF Client
  <2>4. SubSeq(v.packet, 1, v.sz_read) = sent[Current]
    <3>1. v.packet \in Seq(Unit \cup {Nothing}) /\ v.sz_read = sz /\ sent[Current] \in Seq(Unit)
      BY <1>1, <1>9, <1>10, <1>16, ElementOfSeq DEF Client
    <3>2. sz <= Len(v.packet)
      <4>1. Len(v.packet) = v.sz_packet /\ v.sz_packet = sz
        BY <1>1, ReadFits, StaysFilled, AfterFacts DEF Holds, sz, v
      <4> QED BY <1>10, <4>1
    <3>3. /\ SubSeq(v.packet, 1, sz) \in Seq(Unit \cup {Nothing})
          /\ Len(SubSeq(v.packet, 1, sz)) = sz
          /\ \A i \in 1..sz : SubSeq(v.packet, 1, sz)[i] = v.packet[i]
      BY <1>10, <3>1, <3>2, FrontFacts
    <3>4. /\ Len(sent[Current]) = sz /\ DOMAIN sent[Current] = 1..sz
          /\ DOMAIN SubSeq(v.packet, 1, sz) = 1..sz
      BY <3>1, <3>3, LenProperties DEF sz
    <3>5. \A i \in 1..sz : v.packet[i] = Byte(Current, i) /\ sent[Current][i] = Byte(Current, i)
      BY <1>1, <1>9, <1>16, <3>4 DEF Holds, PacketsInv
    <3>6. SubSeq(v.packet, 1, sz) = sent[Current]
      <4>1. /\ SubSeq(v.packet, 1, sz) = [i \in 1..sz |-> SubSeq(v.packet, 1, sz)[i]]
            /\ sent[Current] = [i \in 1..sz |-> sent[Current][i]]
        BY <3>1, <3>3, <3>4, LenProperties
      <4>2. \A i \in 1..sz : SubSeq(v.packet, 1, sz)[i] = sent[Current][i]
        BY <3>3, <3>5
      <4> QED BY <4>1, <4>2
    <3> QED BY <3>1, <3>6
  <2>5. /\ delivered' = Append(delivered, sent[Current])
        /\ delivered \in Seq(Seq(Unit)) /\ sent[Current] \in Seq(Unit)
        /\ Len(delivered) \in Nat /\ DOMAIN delivered = 1..Len(delivered)
        /\ DOMAIN sent = 1..Len(sent) /\ Len(sent) \in Nat
    BY <1>9, <1>10, <2>2, <2>4, ElementOfSeq, LenProperties DEF TypeInv
  <2>6. /\ delivered' \in Seq(Seq(Unit)) /\ Len(delivered') = Current
        /\ DOMAIN delivered' = 1..Current
        /\ \A i \in 1..Len(delivered) : delivered'[i] = delivered[i]
        /\ delivered'[Current] = sent[Current]
    BY <2>5, AppendProperties DEF Current
  <2>7. Current' = Current + 1 /\ Busy' = 0 /\ Current' + Busy' = Current + 1
    BY <1>10, <2>3, <2>6 DEF Current, Busy
  <2>8. PacketsInv'
    <3>1. ASSUME NEW i \in DOMAIN delivered' PROVE delivered'[i] = sent'[i]
      <4>1. CASE i = Current
        BY <1>3, <2>6, <4>1
      <4>2. CASE i # Current
        <5>1. i \in DOMAIN delivered
          BY <2>5, <2>6, <3>1, <4>2 DEF Current
        <5>2. delivered'[i] = delivered[i]
          BY <2>5, <2>6, <5>1
        <5>3. delivered[i] = sent[i]
          BY <5>1 DEF PacketsInv
        <5> QED BY <1>3, <5>2, <5>3
      <4> QED BY <4>1, <4>2
    <3>2. Len(delivered') <= Len(sent')
      <4>1. Current \in 1..Len(sent)
        BY <1>9, <2>5
      <4>2. Current <= Len(sent)
        BY <2>5, <4>1
      <4>3. Len(sent') = Len(sent) /\ Len(delivered') = Current
        BY <1>3, <2>6
      <4> QED BY <4>2, <4>3
    <3>3. \A n \in DOMAIN sent' :
            Len(sent'[n]) > 0 /\ \A i \in DOMAIN sent'[n] : sent'[n][i] = Byte(n, i)
      BY <1>3 DEF PacketsInv
    <3> QED BY <3>1, <3>2, <3>3 DEF PacketsInv
  <2>9. StreamInv'
    <3>1. phase' \in {"open", "closed"}
      BY <2>1 DEF GotPacket
    <3> QED BY <1>3, <1>7, <1>11, <1>12, <1>13, <2>7, <2>8, <3>1 DEF StreamInv
  <2>10. t # <<>> => Fresh(t[1])
    <3>1. SUFFICES ASSUME t # <<>> PROVE Fresh(t[1])
      OBVIOUS
    <3>2. Len(t) # 0 /\ Len(t) = Len(s) - k
      BY <1>6, <1>11, <3>1, EmptySeq DEF IsRest
    <3>3. 1 \in 1..Len(t) /\ 1 + k = (0 + k) + 1 /\ 0 + k < Len(s)
      BY <1>1, <1>4, <1>5, <1>6, <3>2
    <3>4. t[1] = s[1 + k]
      BY <1>11, <3>3 DEF IsRest
    <3>5. ~(At(u) + k < sz)
      BY <1>10, <1>16
    <3>6. Fresh(s[(0 + k) + 1])
      BY <1>9, <3>3, <3>5
    <3> QED BY <3>3, <3>4, <3>6
  <2>11. ReaderInv'
    BY <1>7, <2>2, <2>3, <2>10 DEF ReaderInv
  <2> QED BY <2>9, <2>11
<1>17. At(u) + k < sz \/ At(u) + k = sz
  <2>1. At(u) \in Nat /\ k \in Nat /\ sz \in Nat /\ At(u) + k <= sz
    BY <1>1, <1>9, <1>10
  <2> QED BY <2>1
<1> QED BY <1>15, <1>16, <1>17

LEMMA SpinKeepsOrder ==
    ASSUME TypeInv, PacketsInv, NEW u \in Client, Ready(u), u.packet # <<>>,
           NEW units \in Seq(Unit), WholePayloads(units, link),
           FrameAt(units \o link, 0, u.header, Current, At(u), sent), Holds(u, Current, At(u)),
           Framed(units \o link, sent), InOrder(units \o link, Current + 1, sent),
           ReadPayloadOrSpin(u, units), UNCHANGED <<env, link, sent, frames>>
    PROVE  StreamInv' /\ ReaderInv'
<1>1. CASE units = <<>> /\ ~ProtocolError(u)
  <2>1. usc' = u /\ socket' = units /\ phase' = "spinning" /\ delivered' = delivered
        /\ sent' = sent /\ link' = link
    BY <1>1 DEF ReadPayloadOrSpin
  <2>2. Current' = Current /\ Busy' = 1 /\ Stream' = units \o link
    BY <2>1 DEF Current, Busy, Stream
  <2>3. StreamInv'
    BY <2>1, <2>2 DEF StreamInv, PacketsInv
  <2>4. ~u.waiting /\ Current \in DOMAIN sent
    BY DEF Ready, FrameAt
  <2>5. (IF phase = "spinning" /\ StartsPacket(usc) THEN 0 ELSE usc.sz_read)' = At(u)
    BY <2>1 DEF At, StartsPacket
  <2>6. Holds(usc, Current, At(u))'
    <3>1. At(u)' = At(u)
      BY DEF At, StartsPacket
    <3> QED BY <2>1, <2>2, <3>1 DEF Holds
  <2>7. FrameAt(Stream', 0, usc'.header, Current', At(u), sent')
    BY <2>1, <2>2
  <2>8. ReaderInv'
    BY <2>1, <2>2, <2>4, <2>5, <2>6, <2>7 DEF ReaderInv
  <2> QED BY <2>3, <2>8
<1>2. CASE units = <<>> /\ ProtocolError(u)
  <2>1. /\ u.sz_packet = Len(sent[Current])
        /\ At(u) + u.header.sz_payload <= Len(sent[Current])
        /\ Len(sent[Current]) \in Nat /\ u.sz_read \in Nat /\ u.header.sz_payload \in Nat
    <3>1. Current \in DOMAIN sent /\ sent \in Seq(Seq(Unit))
      BY DEF FrameAt, TypeInv
    <3>2. Len(sent[Current]) \in Nat
      BY <3>1, ElementOfSeq, LenProperties
    <3> QED BY <3>2 DEF FrameAt, Holds, Client, FrameHeader
  <2>2. ~StartsPacket(u) /\ (u.sz_read + u.header.sz_payload) % Word > u.sz_packet
    BY <1>2 DEF ProtocolError
  <2>3. At(u) = u.sz_read /\ u.sz_packet < Word /\ Word \in Nat
    BY <2>2, ReceiveAssumption DEF At, Ready
  <2>4. (u.sz_read + u.header.sz_payload) % Word = u.sz_read + u.header.sz_payload
    <3>1. u.sz_read + u.header.sz_payload \in Nat /\ u.sz_read + u.header.sz_payload < Word
      BY <2>1, <2>3
    <3> QED BY <3>1, SmallSums
  <2> QED BY <2>1, <2>2, <2>3, <2>4
<1>3. CASE units # <<>>
  <2>1. ReadPayload(u, units, TRUE)
    BY <1>3 DEF ReadPayloadOrSpin
  <2> QED BY <1>3, <2>1, ReadKeepsOrder
<1> QED BY <1>1, <1>2, <1>3

\* What comes first in the stream, where a packet begins and where it goes on.
LEMMA FirstUnit ==
    ASSUME TypeInv, StreamInv, ReaderInv, phase = "open", socket # <<>>
    PROVE  /\ socket[1] = Stream[1] /\ 1 \in DOMAIN Stream /\ socket[1].kind = "header"
           /\ socket[1].header.op \in Controls \cup {"text"} => usc.packet = <<>>
           /\ socket[1].header.op \notin Controls \cup {"text"} =>
                /\ usc.packet # <<>> /\ usc.sz_read > 0
                /\ GoesOn(Stream, 0, Current, usc.sz_read)
                /\ Holds(usc, Current, usc.sz_read)
           /\ ~usc.waiting
<1>1. Stream # <<>> /\ Stream[1] = socket[1] /\ 1 \in DOMAIN Stream
  BY StreamFacts
<1>2. usc.packet = <<>> => Fresh(socket[1])
  BY <1>1 DEF ReaderInv
<1>3. usc.packet # <<>> =>
        /\ usc.sz_read > 0 /\ GoesOn(Stream, 0, Current, usc.sz_read)
        /\ Holds(usc, Current, usc.sz_read)
  BY DEF ReaderInv
<1>4. usc.packet # <<>> => IsHeader(socket[1], {"continuation", "end"})
  <2>1. 0 + 1 = 1
    OBVIOUS
  <2> QED BY <1>1, <1>3, <2>1 DEF GoesOn
<1>5. ~usc.waiting
  BY DEF ReaderInv
<1> QED BY <1>1, <1>2, <1>3, <1>4, <1>5 DEF Fresh, IsHeader, Controls

\* The stream behind the next unit, which is taken for a header.
LEMMA TailStream ==
    ASSUME TypeInv, StreamInv, phase = "open", socket # <<>>
    PROVE  LET t == Tail(socket) \o link
           IN  /\ Tail(socket) \in Seq(Unit) /\ t \in Seq(Unit) /\ IsRest(t, Stream, 1)
               /\ WholePayloads(Tail(socket), link) /\ Framed(t, sent)
               /\ DataFrame(Stream[1]) =>
                    /\ 1 < Len(Stream) /\ 2 \in DOMAIN Stream
                    /\ FrameAt(t, 0, Stream[1].header, Stream[2].packet, Stream[2].pos - 1, sent)
               /\ IsHeader(Stream[1], Controls) => (t # <<>> => Fresh(t[1]))
               /\ \A first \in Nat :
                    /\ first >= Current + Busy
                    /\ \A p \in DOMAIN Stream :
                         Starts(Stream, p) => (p > 1 <=> Stream[p + 1].packet >= first)
                    => InOrder(t, first, sent)
<1> DEFINE t == Tail(socket) \o link
<1>1. /\ Stream \in Seq(Unit) /\ Len(Stream) = Len(socket) + Len(link)
      /\ Len(socket) \in Nat /\ Len(link) \in Nat /\ Len(socket) > 0
      /\ DOMAIN Stream = 1..Len(Stream) /\ Len(delivered) \in Nat
      /\ socket \in Seq(Unit) /\ sent \in Seq(Seq(Unit))
  BY StreamFacts DEF TypeInv
<1>2. /\ Framed(Stream, sent) /\ InOrder(Stream, Current + Busy, sent)
      /\ WholePayloads(socket, link)
  BY DEF StreamInv
<1>3. Tail(socket) = SubSeq(socket, 1 + 1, Len(socket)) /\ 1 <= Len(socket)
  <2>1. socket # <<>> /\ 1 <= Len(socket) /\ 1 + 1 = 2
    BY <1>1
  <2>2. Tail(socket) = SubSeq(socket, 2, Len(socket))
    BY <1>1, <2>1, TailIsSubSeq, Zenon
  <2> QED BY <2>1, <2>2
<1>4. /\ Tail(socket) \in Seq(Unit) /\ t \in Seq(Unit) /\ IsRest(t, Stream, 1)
      /\ WholePayloads(Tail(socket), link)
  BY <1>1, <1>2, <1>3, RestStream DEF Stream
<1> HIDE DEF t
<1>5. Framed(t, sent)
  BY <1>1, <1>2, <1>4, RestFramed
<1>6. 1 \in DOMAIN Stream
  BY <1>1
<1>7. ASSUME DataFrame(Stream[1])
      PROVE  /\ 1 < Len(Stream) /\ 2 \in DOMAIN Stream
             /\ FrameAt(t, 0, Stream[1].header, Stream[2].packet, Stream[2].pos - 1, sent)
  <2>1. FrameOf(Stream, 1, sent)
    BY <1>2, <1>6, <1>7 DEF Framed
  <2>2. 1 + 1 = 2 /\ 1 - 1 = 0
    OBVIOUS
  <2>3. /\ 1 < Len(Stream)
        /\ FrameAt(Stream, 1, Stream[1].header, Stream[2].packet, Stream[2].pos - 1, sent)
    BY <2>1, <2>2 DEF FrameOf
  <2>4. Stream[1].header \in FrameHeader
    BY <1>1, <1>6, <1>7, UnitFields DEF DataFrame, IsHeader
  <2>5. FrameAt(t, 1 - 1, Stream[1].header, Stream[2].packet, Stream[2].pos - 1, sent)
    BY <1>1, <1>4, <2>3, <2>4, RestFrame
  <2> QED BY <1>1, <2>2, <2>3, <2>5
<1>8. ASSUME IsHeader(Stream[1], Controls), t # <<>> PROVE Fresh(t[1])
  <2>1. Len(t) # 0 /\ Len(t) \in Nat /\ Len(t) = Len(Stream) - 1
    BY <1>4, <1>8, EmptySeq, LenProperties DEF IsRest
  <2>2. 1 \in 1..Len(t) /\ 1 < Len(Stream)
    BY <1>1, <2>1
  <2>3. Fresh(Stream[1 + 1])
    BY <1>2, <1>6, <1>8, <2>2 DEF Framed
  <2> QED BY <1>4, <2>2, <2>3 DEF IsRest
<1>9. ASSUME NEW first \in Nat, first >= Current + Busy,
             \A p \in DOMAIN Stream :
               Starts(Stream, p) => (p > 1 <=> Stream[p + 1].packet >= first)
      PROVE  InOrder(t, first, sent)
  <2>1. Current + Busy \in Nat /\ 1 \in Nat
    BY <1>1 DEF Current, Busy
  <2> QED BY <1>1, <1>2, <1>4, <1>9, <2>1, RestInOrder
<1> QED BY <1>4, <1>5, <1>7, <1>8, <1>9 DEF t

LEMMA ControlKeepsOrder ==
    ASSUME TypeInv, BufferInv, StreamInv, ReaderInv, HandleControl
    PROVE  StreamInv' /\ ReaderInv'
<1>1. /\ phase = "open" /\ socket # <<>> /\ Head(socket).kind = "header"
      /\ NextHeader.op \in Controls
      /\ usc' = HeaderRead /\ socket' = Tail(socket)
      /\ IF NextHeader.op = "close" THEN Close ELSE UNCHANGED <<phase, delivered>>
      /\ link' = link /\ sent' = sent
  BY DEF HandleControl, Readable, Controls
<1>2. Head(socket) = socket[1] /\ NextHeader = socket[1].header
  BY <1>1, NextUnit DEF NextHeader
<1>3. usc.packet = <<>> /\ ~usc.waiting /\ socket[1] = Stream[1]
  BY <1>1, <1>2, FirstUnit
<1>4. usc'.packet = <<>> /\ ~usc'.waiting
  BY <1>1, <1>3 DEF HeaderRead, TypeInv, Client
<1>5. delivered' = delivered
  BY <1>1 DEF Close
<1>6. Current' = Current /\ Busy = 0 /\ Busy' = 0 /\ Current \in Nat
  BY <1>3, <1>4, <1>5, StreamFacts DEF Current, Busy
<1>7. IsHeader(Stream[1], Controls) /\ ~Starts(Stream, 1)
  BY <1>1, <1>2, <1>3 DEF IsHeader, Starts, Controls
<1> DEFINE t == Tail(socket) \o link
<1>8. Stream' = t
  BY <1>1 DEF Stream
<1>9. /\ Framed(t, sent) /\ WholePayloads(Tail(socket), link) /\ (t # <<>> => Fresh(t[1]))
  BY <1>1, <1>7, TailStream
<1>10. InOrder(t, Current, sent)
  <2>1. /\ InOrder(Stream, Current + Busy, sent) /\ Current + Busy = Current
        /\ DOMAIN Stream = 1..Len(Stream) /\ Len(Stream) \in Nat
    BY <1>1, <1>6, StreamFacts, LenProperties DEF StreamInv
  <2>2. ASSUME NEW p \in DOMAIN Stream, Starts(Stream, p)
        PROVE  p > 1 <=> Stream[p + 1].packet >= Current
    <3>1. Stream[p + 1].packet >= Current
      BY <2>1, <2>2 DEF InOrder
    <3>2. p # 1
      BY <1>7, <2>2
    <3> QED BY <2>1, <3>1, <3>2
  <2> QED BY <1>1, <1>6, <2>1, <2>2, TailStream
<1> HIDE DEF t
<1>12. phase' \in {"open", "closed"}
  BY <1>1 DEF Close
<1>11. StreamInv'
  BY <1>1, <1>5, <1>6, <1>8, <1>9, <1>10, <1>12 DEF StreamInv, PacketsInv
<1>13. ReaderInv'
  BY <1>4, <1>8, <1>9, <1>12 DEF ReaderInv
<1> QED BY <1>11, <1>13

LEMMA TextKeepsOrder ==
    ASSUME TypeInv, BufferInv, StreamInv, ReaderInv, HandleText
    PROVE  StreamInv' /\ ReaderInv'
<1> DEFINE sz == PacketSize(NextHeader)
           u  == [HeaderRead EXCEPT !.sz_packet = sz]
           v  == [u EXCEPT !.packet = [i \in 1..sz |-> Nothing]]
           t  == Tail(socket) \o link
<1>1. /\ phase = "open" /\ socket # <<>> /\ Head(socket).kind = "header"
      /\ NextHeader.op \in {"text", "bin"}
      /\ \/ usc' = u /\ socket' = Tail(socket) /\ Close
         \/ /\ sz <= MaxInmem /\ NextHeader.sz_payload > 0
            /\ ReadPayloadOrSpin(v, Tail(socket))
      /\ UNCHANGED <<env, link, sent, frames>>
  BY DEF HandleText, Readable
<1>2. /\ Head(socket) = socket[1] /\ NextHeader = socket[1].header
      /\ NextHeader \in FrameHeader /\ HeaderRead \in Client
  BY <1>1, NextUnit DEF NextHeader
<1>3. ~usc.waiting /\ socket[1] = Stream[1] /\ 1 \in DOMAIN Stream
  BY <1>1, <1>2, FirstUnit
<1>4. usc.packet = <<>> /\ NextHeader.op = "text"
  <2>1. usc.packet # <<>> => IsHeader(Stream[1], {"continuation", "end"})
    <3>1. 0 + 1 = 1
      OBVIOUS
    <3>2. usc.packet # <<>> => GoesOn(Stream, 0, Current, usc.sz_read)
      BY <1>1 DEF ReaderInv
    <3> QED BY <3>1, <3>2 DEF GoesOn
  <2>2. usc.packet = <<>>
    BY <1>1, <1>2, <1>3, <2>1 DEF IsHeader
  <2>3. Fresh(Stream[1])
    BY <1>1, <2>2, StreamFacts DEF ReaderInv
  <2> QED BY <1>1, <1>2, <1>3, <2>2, <2>3 DEF Fresh, IsHeader, Controls
<1>5. CASE usc' = u /\ socket' = Tail(socket) /\ Close
  <2>1. phase' = "closed" /\ delivered' = delivered /\ sent' = sent
    BY <1>1, <1>5 DEF Close
  <2> QED BY <2>1 DEF StreamInv, PacketsInv, ReaderInv
<1>6. CASE /\ sz <= MaxInmem /\ NextHeader.sz_payload > 0
           /\ ReadPayloadOrSpin(v, Tail(socket))
  <2>1. Starts(Stream, 1) /\ DataFrame(Stream[1])
    BY <1>1, <1>2, <1>3, <1>4 DEF Starts, DataFrame, IsHeader
  <2>2. Current \in Nat \ {0} /\ Busy = 0 /\ Current + Busy = Current
        /\ Stream \in Seq(Unit) /\ sent \in Seq(Seq(Unit)) /\ Stream # <<>>
    BY <1>1, <1>4, StreamFacts DEF Current, Busy, TypeInv
  <2>3. Framed(Stream, sent) /\ InOrder(Stream, Current, sent)
    BY <1>1, <2>2 DEF StreamInv
  <2>4. /\ Stream[2].packet = Current /\ Current \in DOMAIN sent
        /\ \A p \in DOMAIN Stream : Starts(Stream, p) =>
             (p > 1 <=> Stream[p + 1].packet >= Current + 1)
    BY <2>1, <2>2, <2>3, FirstStart
  <2>5. Stream[2].pos = 1
    <3>1. 1 + 1 = 2
      OBVIOUS
    <3> QED BY <1>3, <2>1, <2>2, <2>3, <3>1, StartKnown
  <2>6. /\ Tail(socket) \in Seq(Unit) /\ WholePayloads(Tail(socket), link) /\ Framed(t, sent)
        /\ FrameAt(t, 0, NextHeader, Current, 0, sent)
    <3>1. FrameAt(t, 0, Stream[1].header, Stream[2].packet, Stream[2].pos - 1, sent)
      BY <1>1, <2>1, TailStream
    <3>2. Stream[2].pos - 1 = 0
      BY <2>5
    <3> QED BY <1>1, <1>2, <1>3, <2>4, <3>1, <3>2, TailStream
  <2>7. InOrder(t, Current + 1, sent)
    <3>1. Current + 1 \in Nat /\ Current + 1 >= Current + Busy
      BY <2>2
    <3> QED BY <1>1, <2>4, <3>1, TailStream
  <2> DEFINE len == Len(sent[Current])
  <2>8. len \in Nat /\ NextHeader.sz_payload \in Nat
    BY <1>2, <2>2, <2>4, ElementOfSeq, LenProperties DEF FrameHeader
  <2>9. /\ 0 + NextHeader.sz_payload <= len
        /\ NextHeader.fragmented = IF 0 = 0 /\ NextHeader.sz_payload < len THEN len ELSE 0
    BY <2>6 DEF FrameAt
  <2>10. sz = len /\ NextHeader.sz_payload <= sz /\ sz < Word
    <3>1. sz = len /\ NextHeader.sz_payload <= sz
      BY <2>8, <2>9 DEF PacketSize
    <3> QED BY <1>6, <2>8, <3>1, ReceiveAssumption
  <2> HIDE DEF len, sz
  <2>11. [i \in 1..sz |-> Nothing] \in Seq(Unit \cup {Nothing})
         /\ Len([i \in 1..sz |-> Nothing]) = sz
    BY <2>8, <2>10
  <2>12. [i \in 1..sz |-> Nothing] # <<>>
    BY <1>6, <2>8, <2>10, <2>11
  <2>13. /\ v \in Client /\ v.packet = [i \in 1..sz |-> Nothing] /\ v.header = NextHeader
         /\ v.sz_packet = sz /\ v.waiting = usc.waiting
    <3>1. u \in Client /\ u.header = NextHeader /\ u.sz_packet = sz /\ u.waiting = usc.waiting
      BY <1>2, <2>8, <2>10 DEF Client, HeaderRead
    <3> QED BY <2>11, <3>1 DEF Client
  <2> HIDE DEF v, u
  <2>14. Ready(v) /\ At(v) = 0 /\ v.packet # <<>>
    BY <1>1, <1>3, <2>10, <2>11, <2>12, <2>13 DEF Ready, StartsPacket, At
  <2>15. Holds(v, Current, At(v))
    BY <2>8, <2>10, <2>13, <2>14 DEF Holds, len
  <2>16. PacketsInv /\ FrameAt(t, 0, v.header, Current, At(v), sent)
    BY <2>6, <2>13, <2>14 DEF StreamInv
  <2> QED BY <1>1, <1>6, <2>6, <2>7, <2>13, <2>14, <2>15, <2>16, SpinKeepsOrder
<1> QED BY <1>1, <1>5, <1>6

LEMMA ContinuationKeepsOrder ==
    ASSUME TypeInv, BufferInv, StreamInv, ReaderInv, HandleContinuation
    PROVE  StreamInv' /\ ReaderInv'
<1> DEFINE u == HeaderRead
           t == Tail(socket) \o link
<1>1. /\ phase = "open" /\ socket # <<>> /\ Head(socket).kind = "header"
      /\ NextHeader.op \in {"continuation", "end"}
      /\ UNCHANGED <<env, link, sent, frames>>
      /\ IF NextHeader.sz_payload = 0
         THEN usc' = u /\ socket' = Tail(socket) /\ Close
         ELSE ReadPayloadOrSpin(u, Tail(socket))
  BY DEF HandleContinuation, Readable
<1>2. /\ Head(socket) = socket[1] /\ NextHeader = socket[1].header
      /\ NextHeader \in FrameHeader /\ u \in Client
  BY <1>1, NextUnit DEF NextHeader
<1>3. /\ socket[1] = Stream[1] /\ 1 \in DOMAIN Stream /\ ~usc.waiting
      /\ usc.packet # <<>> /\ usc.sz_read > 0
      /\ GoesOn(Stream, 0, Current, usc.sz_read)
      /\ Holds(usc, Current, usc.sz_read)
  BY <1>1, <1>2, FirstUnit DEF Controls
<1>4. /\ u.header = NextHeader /\ u.waiting = usc.waiting /\ u.packet = usc.packet
      /\ u.sz_packet = usc.sz_packet /\ u.sz_read = usc.sz_read /\ usc.sz_read \in Nat
  BY <1>1 DEF HeaderRead, TypeInv, Client
<1>5. CASE NextHeader.sz_payload = 0
  <2>1. phase' = "closed" /\ delivered' = delivered /\ sent' = sent
    BY <1>1, <1>5 DEF Close
  <2> QED BY <2>1 DEF StreamInv, PacketsInv, ReaderInv
<1>6. CASE NextHeader.sz_payload # 0
  <2>1. DataFrame(Stream[1]) /\ ~Starts(Stream, 1)
    BY <1>1, <1>2, <1>3 DEF DataFrame, IsHeader, Starts
  <2>2. Stream[2] = Byte(Current, usc.sz_read + 1)
    <3>1. 0 + 2 = 2
      OBVIOUS
    <3> QED BY <1>3, <3>1 DEF GoesOn
  <2>3. Stream[2].packet = Current /\ Stream[2].pos - 1 = usc.sz_read
    <3>1. (usc.sz_read + 1) - 1 = usc.sz_read
      BY <1>4
    <3> QED BY <2>2, <3>1 DEF Byte
  <2>4. /\ Tail(socket) \in Seq(Unit) /\ WholePayloads(Tail(socket), link) /\ Framed(t, sent)
        /\ FrameAt(t, 0, NextHeader, Current, usc.sz_read, sent)
    <3>1. FrameAt(t, 0, Stream[1].header, Stream[2].packet, Stream[2].pos - 1, sent)
      BY <1>1, <2>1, TailStream
    <3> QED BY <1>1, <1>2, <1>3, <2>3, <3>1, TailStream
  <2>5. InOrder(t, Current + 1, sent)
    <3>1. /\ Current + 1 \in Nat /\ Busy = 1 /\ Current + 1 >= Current + Busy
          /\ DOMAIN Stream = 1..Len(Stream) /\ Len(Stream) \in Nat
      BY <1>3, StreamFacts, LenProperties DEF Current, Busy
    <3>2. InOrder(Stream, Current + 1, sent)
      BY <1>1, <3>1 DEF StreamInv
    <3>3. ASSUME NEW p \in DOMAIN Stream, Starts(Stream, p)
          PROVE  p > 1 <=> Stream[p + 1].packet >= Current + 1
      <4>1. Stream[p + 1].packet >= Current + 1
        BY <3>2, <3>3 DEF InOrder
      <4>2. p # 1
        BY <2>1, <3>3
      <4> QED BY <3>1, <4>1, <4>2
    <3> QED BY <1>1, <3>1, <3>3, TailStream
  <2>6. ReadPayloadOrSpin(u, Tail(socket))
    BY <1>1, <1>6
  <2> HIDE DEF u
  <2>7. ~StartsPacket(u) /\ At(u) = usc.sz_read
    BY <1>1, <1>4 DEF StartsPacket, At
  <2>8. FilledUpTo(usc, usc.sz_read) /\ Len(usc.packet) = usc.sz_packet /\ usc.sz_packet < Word
    BY <1>1, <1>3 DEF BufferInv, Starting
  <2>9. Ready(u)
    BY <1>3, <1>4, <2>7, <2>8 DEF Ready, FilledUpTo
  <2>10. Holds(u, Current, At(u))
    BY <1>3, <1>4, <2>7 DEF Holds
  <2>11. PacketsInv /\ FrameAt(t, 0, u.header, Current, At(u), sent)
    BY <1>4, <2>4, <2>7 DEF StreamInv
  <2> QED BY <1>1, <1>2, <1>3, <1>4, <2>4, <2>5, <2>6, <2>9, <2>10, <2>11, SpinKeepsOrder
<1> QED BY <1>5, <1>6

LEMMA SpinEndsKeepsOrder ==
    ASSUME TypeInv, BufferInv, StreamInv, ReaderInv, SpinEnds
    PROVE  StreamInv' /\ ReaderInv'
<1>1. /\ phase = "spinning" /\ socket # <<>> /\ ReadPayload(usc, socket, TRUE)
      /\ UNCHANGED <<env, link, sent, frames>>
  BY DEF SpinEnds
<1>2. usc.packet # <<>>
  BY <1>1 DEF ReaderInv
<1>3. /\ Holds(usc, Current, At(usc)) /\ FrameAt(Stream, 0, usc.header, Current, At(usc), sent)
  BY <1>1, <1>2 DEF ReaderInv, At
<1>4. Ready(usc) /\ usc \in Client /\ socket \in Seq(Unit)
  BY <1>1, WaitingIsReady DEF TypeInv
<1>5. /\ PacketsInv /\ Framed(Stream, sent) /\ InOrder(Stream, Current + 1, sent)
      /\ WholePayloads(socket, link)
  BY <1>1, <1>2 DEF StreamInv, Busy
<1> QED BY <1>1, <1>2, <1>3, <1>4, <1>5, ReadKeepsOrder DEF Stream

\* A step of a connection to a peer that follows the protocol.
LEMMA NextKeepsOrder ==
    ASSUME TypeInv, BufferInv, env = {}, StreamInv, ReaderInv, Next, ~Accept
    PROVE  StreamInv' /\ ReaderInv'
<1>1. ASSUME NEW sz \in Payloads, PeerSendsPacket(sz) PROVE StreamInv' /\ ReaderInv'
  BY <1>1, SendPacketKeeps
<1>2. ASSUME NEW op \in {"ping", "pong", "close"}, PeerSendsControl(op)
      PROVE  StreamInv' /\ ReaderInv'
  BY <1>2, SendControlKeeps DEF Controls
<1>3. ASSUME NEW op, NEW f, NEW sz, NEW n, PeerSendsAnyFrame(op, f, sz, n) PROVE FALSE
  BY <1>3 DEF PeerSendsAnyFrame
<1>4. ASSUME NEW n \in 1..Len(link), Arrive(n) PROVE StreamInv' /\ ReaderInv'
  BY <1>4, ArriveKeeps
<1>5. CASE HandleWaiting
  BY <1>5 DEF HandleWaiting, Readable, ReaderInv
<1>6. CASE HandleControl
  BY <1>6, ControlKeepsOrder
<1>7. CASE HandleText
  BY <1>7, TextKeepsOrder
<1>8. CASE HandleContinuation
  BY <1>8, ContinuationKeepsOrder
<1>9. CASE HandleGarbled
  <2>1. phase = "open" /\ socket # <<>> /\ Head(socket).kind = "data"
    BY <1>9 DEF HandleGarbled, Readable
  <2>2. Head(socket).kind = "header"
    BY <2>1, NextUnit, FirstUnit
  <2> QED BY <2>1, <2>2
<1>10. CASE SpinEnds
  BY <1>10, SpinEndsKeepsOrder
<1>11. CASE Disconnect
  <2>1. phase' = "closed" /\ delivered' = delivered /\ sent' = sent
    BY <1>11 DEF Disconnect
  <2> QED BY <2>1 DEF StreamInv, PacketsInv, ReaderInv
<1> QED BY <1>1, <1>2, <1>3, <1>4, <1>5, <1>6, <1>7, <1>8, <1>9, <1>10, <1>11
        DEF Next, HandleReads, Network

LEMMA OrderInit == Init => StreamInv /\ ReaderInv
<1> SUFFICES ASSUME Init PROVE StreamInv /\ ReaderInv
  OBVIOUS
<1>1. /\ socket = <<>> /\ link = <<>> /\ sent = <<>> /\ delivered = <<>> /\ phase = "open"
      /\ usc.packet = <<>> /\ ~usc.waiting
  BY DEF Init, NewClient
<1>2. Stream = <<>>
  BY <1>1, ConcatEmptySeq, EmptySeq DEF Stream
<1>3. DOMAIN <<>> = {} /\ Len(<<>>) = 0
  OBVIOUS
<1>4. PacketsInv
  BY <1>1, <1>3 DEF PacketsInv
<1>5. Framed(Stream, sent) /\ InOrder(Stream, Current + Busy, sent) /\ WholePayloads(socket, link)
  BY <1>1, <1>2, <1>3 DEF Framed, InOrder, WholePayloads
<1> QED BY <1>1, <1>2, <1>4, <1>5 DEF StreamInv, ReaderInv

LEMMA NextIInv ==
    ASSUME IInv, [Next]_vars
    PROVE  IInv'
<1>1. TypeInv' /\ BufferInv'
  BY TypeNext DEF IInv
<1>2. CASE UNCHANGED vars
  <2>1. /\ env' = env /\ usc' = usc /\ link' = link /\ socket' = socket /\ sent' = sent
        /\ delivered' = delivered /\ phase' = phase
    BY <1>2 DEF vars
  <2>2. Stream' = Stream /\ Current' = Current /\ Busy' = Busy
    BY <2>1 DEF Stream, Current, Busy
  <2>3. StreamInv => StreamInv'
    BY <2>1, <2>2 DEF StreamInv, PacketsInv
  <2>4. ReaderInv => ReaderInv'
    BY <2>1, <2>2 DEF ReaderInv, Holds, StartsPacket
  <2> QED BY <1>1, <2>1, <2>3, <2>4 DEF IInv
<1>3. CASE Accept
  <2>1. (StreamInv /\ ReaderInv)'
    BY <1>3, AcceptIsInit, OrderInit, PTL
  <2> QED BY <1>1, <2>1 DEF IInv
<1>4. CASE Next /\ ~Accept
  <2>1. env' = env
    BY <1>4 DEF Next, HandleReads, Network, PeerSendsPacket, PeerSendsControl, PeerSendsAnyFrame,
                Arrive, HandleWaiting, HandleControl, HandleText, HandleContinuation, HandleGarbled,
                SpinEnds, Disconnect
  <2>2. env = {} => StreamInv' /\ ReaderInv'
    BY <1>4, NextKeepsOrder DEF IInv
  <2> QED BY <1>1, <2>1, <2>2 DEF IInv
<1> QED BY <1>2, <1>3, <1>4

-----------------------------------------------------------------------------
(***************************************************************************)
(* Theorems                                                                *)
(***************************************************************************)
\* us_handle_reads and a peer of every kind, for any sizes of frames, packets
\* and of the buffer, and any number of frames.
THEOREM Invariance == Spec => []IInv
<1>1. Init => IInv
  BY TypeInit, OrderInit DEF IInv
<1>2. IInv /\ [Next]_vars => IInv'
  BY NextIInv
<1> QED BY <1>1, <1>2, PTL DEF Spec

\* What on_packet gets from a peer that follows the protocol is what that sent,
\* in order, without a read past the buffer, and from any peer only what was
\* read of the socket; a read passes the buffer only behind an announced size
\* that wraps the sum it is checked with (us_handle_reads, try_to_read_payload).
THEOREM PacketsAreReceived == Spec => []ReceiveSound
<1>1. IInv => ReceiveSound
  <2> SUFFICES ASSUME IInv PROVE ReceiveSound
    OBVIOUS
  <2>1. TypeOK /\ NoOverrun
    BY DEF IInv, TypeInv, BufferInv, StreamInv, Client, TypeOK, NoOverrun
  <2>2. delivered \in Seq(Seq(Unit)) /\ sent \in Seq(Seq(Unit))
    BY DEF IInv, TypeInv
  <2>3. NoHoles
    <3>1. ASSUME NEW i \in DOMAIN delivered, NEW k \in DOMAIN delivered[i]
          PROVE  delivered[i][k] # Nothing
      <4>1. delivered[i] \in Seq(Unit)
        BY <2>2, ElementOfSeq, LenProperties
      <4>2. delivered[i][k] \in Unit
        BY <3>1, <4>1, ElementOfSeq, LenProperties
      <4> QED BY <4>2, NothingAssumption DEF Unit
    <3> QED BY <3>1 DEF NoHoles, ToSet
  <2>4. PacketsIntact
    <3>1. SUFFICES ASSUME env = {} PROVE IsPrefix(delivered, sent)
      BY DEF PacketsIntact
    <3>2. Len(delivered) <= Len(sent) /\ \A n \in DOMAIN delivered : delivered[n] = sent[n]
      BY <3>1 DEF IInv, StreamInv, PacketsInv
    <3>3. Len(delivered) \in Nat /\ DOMAIN delivered = 1..Len(delivered) /\ Len(sent) \in Nat
      BY <2>2, LenProperties
    <3>4. /\ SubSeq(sent, 1, Len(delivered)) \in Seq(Seq(Unit))
          /\ Len(SubSeq(sent, 1, Len(delivered))) = Len(delivered)
          /\ \A n \in 1..Len(delivered) : SubSeq(sent, 1, Len(delivered))[n] = sent[n]
      BY <2>2, <3>2, <3>3, FrontFacts
    <3>5. delivered = SubSeq(sent, 1, Len(delivered))
      BY <2>2, <3>2, <3>3, <3>4, SeqEqual
    <3> QED BY <3>2, <3>5 DEF IsPrefix
  <2> QED BY <2>1, <2>3, <2>4 DEF ReceiveSound
<1> QED BY <1>1, Invariance, PTL

-----------------------------------------------------------------------------
(***************************************************************************)
(* The read side of a web socket (module WebSocket).  What the peer has    *)
(* sent since the handshake is a sequence of frames; each knows where it   *)
(* starts in the stream, the frames of its message that came before, and   *)
(* how many messages were complete.  The reader stands in one of them.     *)
(***************************************************************************)
WsStatus == {"ERR", "CLOSE", "READING", "SENDING", "THROTTLING"}
WsOps == {"text", "continuation", "ping", "pong", "close"}
WsUnit == [kind : {"http", "bad", "echo"}]
          \cup [kind : {"data"}, frame : Nat, pos : Nat]
          \cup [kind : {"header"}, op : WsOps, fin : BOOLEAN, len : Nat, masked : BOOLEAN]

WsFrame == [start : Nat, op : WsOps, fin : BOOLEAN, masked : BOOLEAN, payload : Seq(WsUnit),
            part : Seq(WsUnit), done : Nat]

WsHeader(f) ==
    [kind |-> "header", op |-> f.op, fin |-> f.fin, len |-> Len(f.payload), masked |-> f.masked]
UnitOf(f, i) == IF i <= 2 THEN WsHeader(f) ELSE f.payload[i - 2]

\* A frame of a message, and what comes after a frame.
IsData(f) == f.masked /\ f.op \in {"text", "continuation"}
StartAfter(f) == f.start + 2 + Len(f.payload)
PartAfter(f) ==
    IF ~IsData(f) THEN f.part ELSE IF f.fin THEN <<>> ELSE f.part \o f.payload
DoneAfter(f) == IF IsData(f) /\ f.fin THEN f.done + 1 ELSE f.done

StartAt(fs, k) == IF k = 1 THEN 0 ELSE StartAfter(fs[k - 1])
PartAt(fs, k) == IF k = 1 THEN <<>> ELSE PartAfter(fs[k - 1])
DoneAt(fs, k) == IF k = 1 THEN 0 ELSE DoneAfter(fs[k - 1])

\* The last frame of a peer: the renderer will close the connection.
Exceeds(part, len) == part # <<>> /\ len > 0 /\ Len(part) + len >= MaxWsInmem
IsLast(f) == f.op = "close" \/ ~f.masked \/ Exceeds(f.part, Len(f.payload))

Sensible(f) ==
    /\ IsData(f) => f.payload # <<>> /\ (f.op = "text" <=> f.part = <<>>)
    /\ f.op = "pong" /\ f.part # <<>> => "pong" \in Liberties

\* The frames that the peer p has sent.
Table(fs, p) ==
    /\ fs \in Seq(WsFrame)
    /\ \A k \in 1..Len(fs) :
        /\ fs[k].start = StartAt(fs, k)
        /\ fs[k].part = PartAt(fs, k)
        /\ fs[k].done = DoneAt(fs, k)
        /\ StartAfter(fs[k]) <= StartAt(fs, Len(fs) + 1)
        /\ Sensible(fs[k])
        /\ IsLast(fs[k]) => k = Len(fs) /\ p.ended
        /\ IsData(fs[k]) /\ fs[k].fin =>
            /\ fs[k].done < Len(p.sent)
            /\ p.sent[fs[k].done + 1] = fs[k].part \o fs[k].payload
    /\ p.part = PartAt(fs, Len(fs) + 1)
    /\ Len(p.sent) = DoneAt(fs, Len(fs) + 1)

\* What has not been read is s: the stream from position c on, as far as it was
\* not lost.
OnWay(fs, c, s, up) ==
    /\ c \in Nat
    /\ c + Len(s) <= StartAt(fs, Len(fs) + 1)
    /\ up => c + Len(s) = StartAt(fs, Len(fs) + 1)
    /\ \A p \in 1..Len(s), k \in 1..Len(fs) : \A i \in 1..(2 + Len(fs[k].payload)) :
        fs[k].start + i = c + p => s[p] = UnitOf(fs[k], i)

(***************************************************************************)
(* The message holds the frames before this one and what was read of this  *)
(* one; without them if a PONG has freed it.                               *)
(***************************************************************************)
Base(m, part) == IF m.fragmented THEN part ELSE <<>>
MessageAt(m, part, read) ==
    /\ m.payload = Base(m, part) \o read
    /\ m.buflen = Len(read)
    /\ m.fragmented => part # <<>>
    /\ part # <<>> => m.fragmented \/ "pong" \in Liberties

\* The reader with frame g and message m stands at position c, in frame j.
StandsAt(fs, j, c, g, m, p) ==
    \/ /\ j <= Len(fs)
       /\ g.op = fs[j].op /\ g.fin = fs[j].fin /\ g.masked = fs[j].masked
       /\ g.len = Len(fs[j].payload)
       /\ \/ /\ g.got = 1 /\ c = fs[j].start + 1
             /\ MessageAt(m, fs[j].part, <<>>)
          \/ /\ g.got = 2 /\ g.masked
             /\ m.buflen <= Len(fs[j].payload)
             /\ c = fs[j].start + 2 + m.buflen
             /\ MessageAt(m, fs[j].part, SubSeq(fs[j].payload, 1, m.buflen))
    \/ /\ g.got = 0 /\ c = StartAt(fs, j)
       /\ \/ MessageAt(m, PartAt(fs, j), <<>>)
          \/ j = Len(fs) + 1 /\ p.ended

HasGot(fs, j, d, p) ==
    /\ Len(d) = DoneAt(fs, j)
    /\ Len(d) <= Len(p.sent)
    /\ \A i \in 1..Len(d) : d[i] = p.sent[i]

ReaderAt(fs, j, c, x, d, p) ==
    /\ j \in 1..(Len(fs) + 1)
    /\ StandsAt(fs, j, c, x.frame, x.message, p)
    /\ HasGot(fs, j, d, p)

-----------------------------------------------------------------------------
(***************************************************************************)
(* The client, with k calls of ws_respond left.                            *)
(***************************************************************************)
WsFields == {"status", "queue", "headers", "frame", "message", "armed", "accepted",
             "calls", "lost", "wire"}
MessageType == [fragmented : BOOLEAN, payload : Seq(WsUnit), buflen : Nat]

MayErr == ~ws_peer.up \/ ws_peer.ended \/ "pong" \in Liberties

WsFit(x, k) ==
    /\ x = [f \in WsFields |-> x[f]]
    /\ x.status \subseteq WsStatus
    /\ "ERR" \in x.status => MayErr
    /\ x.headers \in 0..2
    /\ x.frame.got \in 0..2 /\ x.frame.len \in Nat
    /\ x.message \in MessageType /\ x.message.buflen <= Len(x.message.payload)
    /\ x.calls \in Seq(Nat) /\ Len(x.calls) + k <= MaxWsCalls

SameReader(x, y) == y.headers = x.headers /\ y.frame = x.frame /\ y.message = x.message

LEMMA FitLess ==
    ASSUME NEW x, NEW k \in Nat, WsFit(x, k), NEW l \in 0..k
    PROVE  WsFit(x, l)
<1>1. Len(x.calls) \in Nat /\ MaxWsCalls \in Nat
  BY LenProperties, WebSocketAssumption DEF WsFit
<1>2. Len(x.calls) + l <= MaxWsCalls
  BY <1>1 DEF WsFit
<1> QED BY <1>2 DEF WsFit

LEMMA FitStatus ==
    ASSUME NEW x, NEW k \in Nat, WsFit(x, k), NEW s \in SUBSET WsStatus, "ERR" \in s => MayErr
    PROVE  WsFit(SetStatus(x, s), k) /\ SameReader(x, SetStatus(x, s)) /\ SetStatus(x, s).status = s
BY DEF WsFit, SetStatus, SameReader, WsFields

\* x is y after other changes than to what the reader keeps.
Alike(x, y) ==
    /\ y = [f \in WsFields |-> y[f]]
    /\ SameReader(x, y)
    /\ y.calls = x.calls

LEMMA FitAlike ==
    ASSUME NEW x, NEW k \in Nat, WsFit(x, k), NEW y, Alike(x, y),
           y.status \subseteq WsStatus, "ERR" \in y.status => MayErr
    PROVE  WsFit(y, k) /\ SameReader(x, y)
BY DEF WsFit, Alike, SameReader

LEMMA FitCall ==
    ASSUME NEW x, NEW k \in Nat, WsFit(x, k + 1), NEW len \in Nat
    PROVE  LET y == [x EXCEPT !.calls = Append(@, len)]
           IN  WsFit(y, k) /\ SameReader(x, y) /\ y.status = x.status
<1> DEFINE a == Append(x.calls, len)
           y == [x EXCEPT !.calls = a]
<1>1. x.calls \in Seq(Nat) /\ Len(x.calls) \in Nat /\ MaxWsCalls \in Nat
      /\ Len(x.calls) + (k + 1) <= MaxWsCalls
  BY LenProperties, WebSocketAssumption DEF WsFit
<1>2. a \in Seq(Nat) /\ Len(a) = Len(x.calls) + 1
  BY <1>1, AppendProperties
<1>0. \A n, l, m \in Nat : n + (l + 1) <= m => (n + 1) + l <= m
  OBVIOUS
<1>3. Len(a) + k <= MaxWsCalls
  BY <1>0, <1>1, <1>2
<1> HIDE DEF a
<1>4. WsFit(y, k) /\ SameReader(x, y) /\ y.status = x.status
  BY <1>2, <1>3 DEF WsFit, SameReader, WsFields
<1> QED BY <1>4 DEF a

LEMMA OnPendingAlike ==
    ASSUME NEW x, x = [f \in WsFields |-> x[f]]
    PROVE  Alike(x, OnPending(x)) /\ OnPending(x).status = x.status
BY DEF Alike, SameReader, OnPending, WsFields

\* What writing does to a client, whatever is written.
LEMMA RespondDataFits ==
    ASSUME NEW x, NEW k \in Nat, WsFit(x, k), NEW call, NEW len, NEW y \in RespondData(x, call, len)
    PROVE  WsFit(y, k) /\ SameReader(x, y)
<1>0. x = [f \in WsFields |-> x[f]] /\ x.status \subseteq WsStatus /\ ("ERR" \in x.status => MayErr)
  BY DEF WsFit
<1>1. CASE ~ws_peer.up
  <2>1. y = SetStatus(x, {"ERR", "CLOSE"})
    BY <1>1 DEF RespondData
  <2>2. {"ERR", "CLOSE"} \in SUBSET WsStatus /\ MayErr
    BY <1>1 DEF WsStatus, MayErr
  <2> QED BY <2>1, <2>2, FitStatus
<1>2. CASE ws_peer.up
  <2> DEFINE all(n) == [x EXCEPT !.wire = @ \o Bytes(call, 1, n)]
             some(n) == [x EXCEPT !.wire = @ \o Bytes(call, 1, n),
                                  !.queue = Bytes(call, n + 1, len),
                                  !.status = @ \cup {"SENDING"}]
  <2>1. PICK n : y \in {all(n), OnPending(some(n))}
    BY <1>2 DEF RespondData
  <2>2. Alike(x, all(n)) /\ all(n).status = x.status
    BY <1>0 DEF Alike, SameReader, WsFields
  <2>3. Alike(x, some(n)) /\ some(n).status = x.status \cup {"SENDING"}
    BY <1>0 DEF Alike, SameReader, WsFields
  <2> HIDE DEF all, some
  <2>4. Alike(some(n), OnPending(some(n))) /\ OnPending(some(n)).status = x.status \cup {"SENDING"}
    BY <2>3, OnPendingAlike DEF Alike
  <2>5. Alike(x, OnPending(some(n)))
    BY <2>3, <2>4 DEF Alike, SameReader
  <2>6. Alike(x, y) /\ y.status \subseteq WsStatus /\ ("ERR" \in y.status => "ERR" \in x.status)
    BY <1>0, <2>1, <2>2, <2>4, <2>5 DEF WsStatus
  <2> QED BY <1>0, <2>6, FitAlike
<1> QED BY <1>1, <1>2

LEMMA RespondCacheFits ==
    ASSUME NEW x, NEW k \in Nat, WsFit(x, k), NEW n
    PROVE  WsFit(RespondCache(x, n), k) /\ SameReader(x, RespondCache(x, n))
<1> DEFINE y == RespondCache(x, n)
           e == [x EXCEPT !.wire = @ \o SubSeq(x.queue, 1, n), !.queue = SubSeq(@, n + 1, Len(@))]
<1>0. x = [f \in WsFields |-> x[f]] /\ x.status \subseteq WsStatus /\ ("ERR" \in x.status => MayErr)
  BY DEF WsFit
<1>1. CASE ~ws_peer.up
  <2>1. y = SetStatus(x, {"ERR", "CLOSE"})
    BY <1>1 DEF RespondCache
  <2>2. {"ERR", "CLOSE"} \in SUBSET WsStatus /\ MayErr
    BY <1>1 DEF WsStatus, MayErr
  <2> QED BY <2>1, <2>2, FitStatus
<1>2. CASE ws_peer.up
  <2>1. y = e \/ y = ClearQueue(e)
    BY <1>2 DEF RespondCache
  <2>2. Alike(x, e) /\ e.status = x.status
    BY <1>0 DEF Alike, SameReader, WsFields
  <2> HIDE DEF e
  <2>3. /\ Alike(x, ClearQueue(e)) /\ ClearQueue(e).status \subseteq x.status
    BY <2>2 DEF ClearQueue, Alike, SameReader, WsFields
  <2>4. Alike(x, y) /\ y.status \subseteq x.status
    BY <2>1, <2>2, <2>3
  <2> HIDE DEF y
  <2>5. WsFit(y, k) /\ SameReader(x, y)
    BY <1>0, <2>4, FitAlike
  <2> QED BY <2>5 DEF y
<1> QED BY <1>1, <1>2

\* ws_respond uses up one call, keeps what the reader keeps, and makes an error
\* only of a peer that has gone.
LEMMA RespondFits ==
    ASSUME NEW x, NEW k \in Nat, WsFit(x, k + 1), NEW len \in Nat, NEW y \in Respond(x, len)
    PROVE  WsFit(y, k) /\ SameReader(x, y)
<1> DEFINE call == Len(x.calls) + 1
           d == [x EXCEPT !.calls = Append(@, len)]
           l == [d EXCEPT !.lost = @ \cup {call}]
<1>0. WsFit(x, k) /\ SameReader(x, x)
  <2>1. k \in 0..(k + 1) /\ k + 1 \in Nat
    OBVIOUS
  <2> QED BY <2>1, FitLess DEF SameReader
<1>1. WsFit(d, k) /\ SameReader(x, d) /\ d.status = x.status
  BY FitCall
<1> HIDE DEF d
<1>2. WsFit(l, k) /\ SameReader(x, l)
  BY <1>1 DEF WsFit, SameReader, WsFields
<1>3. CASE x.queue = <<>>
  <2>1. y \in RespondData(d, call, len) \/ y \in RespondData(x, call, len)
    BY <1>3 DEF Respond, d
  <2> QED BY <1>0, <1>1, <2>1, RespondDataFits DEF SameReader
<1>4. CASE x.queue # <<>> /\ "THROTTLING" \notin x.status
  <2>1. y = AppendToQueue(d, call, len)
    BY <1>4 DEF Respond, d
  <2>2. Alike(d, y) /\ y.status \subseteq d.status \cup {"THROTTLING"}
    BY <1>1, <2>1 DEF AppendToQueue, WsFit, Alike, SameReader, WsFields
  <2>3. y.status \subseteq WsStatus /\ ("ERR" \in y.status => MayErr)
    BY <1>1, <2>2 DEF WsFit, WsStatus
  <2> QED BY <1>1, <2>2, <2>3, FitAlike DEF SameReader
<1>5. CASE x.queue # <<>> /\ "THROTTLING" \in x.status
  <2>1. PICK n : y = RespondCache(l, n)
    BY <1>5 DEF Respond, d
  <2> HIDE DEF l
  <2> QED BY <1>2, <2>1, RespondCacheFits DEF SameReader
<1> QED BY <1>3, <1>4, <1>5

LEMMA RespondNothingFits ==
    ASSUME NEW x, NEW k \in Nat, WsFit(x, k), NEW y \in RespondNothing(x)
    PROVE  WsFit(y, k) /\ SameReader(x, y)
BY RespondDataFits, RespondCacheFits DEF RespondNothing

LEMMA CloseFits ==
    ASSUME NEW x, NEW k \in Nat, WsFit(x, k + 1), MayErr, NEW y \in CloseWithFrame(x)
    PROVE  WsFit(y, k) /\ SameReader(x, y)
<1> DEFINE e == SetStatus(x, {"ERR", "CLOSE"})
<1>1. WsFit(e, k + 1) /\ SameReader(x, e) /\ y \in Respond(e, 1)
  <2>1. {"ERR", "CLOSE"} \in SUBSET WsStatus /\ k + 1 \in Nat
    BY DEF WsStatus
  <2> QED BY <2>1, FitStatus DEF CloseWithFrame
<1> HIDE DEF e
<1>2. WsFit(y, k) /\ SameReader(e, y)
  BY <1>1, RespondFits
<1> QED BY <1>1, <1>2 DEF SameReader

-----------------------------------------------------------------------------
\* Facts about sequences.
LEMMA JoinFacts ==
    ASSUME NEW S, NEW s \in Seq(S), NEW e \in Seq(S)
    PROVE  /\ s \o e \in Seq(S) /\ Len(s \o e) = Len(s) + Len(e)
           /\ Len(s) \in Nat /\ Len(e) \in Nat
           /\ \A i \in 1..Len(s) : (s \o e)[i] = s[i]
           /\ \A i \in 1..Len(e) : (s \o e)[Len(s) + i] = e[i]
           /\ (s = <<>> => s \o e = e) /\ (e = <<>> => s \o e = s)
           /\ (s \o e = <<>> => s = <<>> /\ e = <<>>)
<1>1. /\ s \o e \in Seq(S) /\ Len(s \o e) = Len(s) + Len(e)
      /\ Len(s) \in Nat /\ Len(e) \in Nat
  BY ConcatProperties, LenProperties
<1>2. \A i \in 1..(Len(s) + Len(e)) : (s \o e)[i] = IF i <= Len(s) THEN s[i] ELSE e[i - Len(s)]
  BY ConcatProperties
<1>3. \A i \in 1..Len(s) : (s \o e)[i] = s[i]
  BY <1>1, <1>2
<1>4. ASSUME NEW i \in 1..Len(e)
      PROVE  (s \o e)[Len(s) + i] = e[i]
  <2>1. Len(s) + i \in 1..(Len(s) + Len(e)) /\ ~(Len(s) + i <= Len(s)) /\ (Len(s) + i) - Len(s) = i
    BY <1>1
  <2> QED BY <1>2, <2>1
<1>5. (s = <<>> => s \o e = e) /\ (e = <<>> => s \o e = s)
  BY ConcatEmptySeq
<1>6. s \o e = <<>> => s = <<>> /\ e = <<>>
  <2>1. (s \o e = <<>> => Len(s \o e) = 0) /\ (Len(s) = 0 => s = <<>>) /\ (Len(e) = 0 => e = <<>>)
    BY EmptySeq
  <2> QED BY <1>1, <2>1
<1> QED BY <1>1, <1>3, <1>4, <1>5, <1>6

LEMMA RestIs ==
    ASSUME NEW S, NEW s \in Seq(S), NEW n \in 0..Len(s)
    PROVE  /\ Rest(s, n) \in Seq(S) /\ Len(Rest(s, n)) = Len(s) - n /\ Len(s) \in Nat
           /\ \A i \in 1..(Len(s) - n) : Rest(s, n)[i] = s[i + n]
           /\ (n = 0 => Rest(s, n) = s)
<1>1. n \in Nat /\ n <= Len(s) /\ Len(s) \in Nat
  BY LenProperties
<1>2. /\ Rest(s, n) \in Seq(S) /\ Len(Rest(s, n)) = Len(s) - n
      /\ \A i \in 1..(Len(s) - n) : Rest(s, n)[i] = s[i + n]
  BY <1>1, RestFacts DEF Rest
<1>3. ASSUME n = 0
      PROVE  Rest(s, n) = s
  <2>1. Len(Rest(s, n)) = Len(s) /\ \A i \in 1..Len(s) : Rest(s, n)[i] = s[i]
    BY <1>1, <1>2, <1>3
  <2> HIDE DEF Rest
  <2> QED BY <1>2, <2>1, SeqEqual
<1> QED BY <1>1, <1>2, <1>3

\* What is on the way after n units were read.
LEMMA OnWayLater ==
    ASSUME NEW fs \in Seq(WsFrame), NEW c, NEW up, NEW u \in Seq(WsUnit), NEW l \in Seq(WsUnit),
           OnWay(fs, c, u \o l, up), NEW n \in 0..Len(u)
    PROVE  Rest(u, n) \in Seq(WsUnit) /\ OnWay(fs, c + n, Rest(u, n) \o l, up)
<1> DEFINE s == u \o l
           r == Rest(u, n)
           t == r \o l
           e == StartAt(fs, Len(fs) + 1)
<1>1. /\ s \in Seq(WsUnit) /\ Len(s) = Len(u) + Len(l) /\ Len(u) \in Nat /\ Len(l) \in Nat
      /\ \A i \in 1..Len(u) : s[i] = u[i]
      /\ \A i \in 1..Len(l) : s[Len(u) + i] = l[i]
  BY JoinFacts
<1>2. /\ r \in Seq(WsUnit) /\ Len(r) = Len(u) - n
      /\ \A i \in 1..(Len(u) - n) : r[i] = u[i + n]
  BY RestIs
<1> HIDE DEF r
<1>3. /\ t \in Seq(WsUnit) /\ Len(t) = Len(r) + Len(l)
      /\ \A i \in 1..Len(r) : t[i] = r[i]
      /\ \A i \in 1..Len(l) : t[Len(r) + i] = l[i]
  <2>1. r \in Seq(WsUnit)
    BY <1>2
  <2> QED BY <2>1, JoinFacts
<1>4. c \in Nat /\ n \in Nat /\ n <= Len(u) /\ Len(t) = Len(s) - n
  BY <1>1, <1>2, <1>3 DEF OnWay
<1>5. ASSUME NEW i \in 1..Len(t)
      PROVE  t[i] = s[i + n]
  <2>1. CASE i <= Len(r)
    <3>1. i \in 1..Len(r) /\ i \in 1..(Len(u) - n) /\ i + n \in 1..Len(u)
      BY <1>1, <1>2, <1>4, <2>1
    <3> QED BY <1>1, <1>2, <1>3, <3>1
  <2>2. CASE i > Len(r)
    <3> DEFINE q == i - Len(r)
    <3>1. q \in 1..Len(l) /\ Len(r) + q = i /\ Len(u) + q = i + n
      BY <1>1, <1>2, <1>3, <1>4, <2>2
    <3>2. t[Len(r) + q] = l[q] /\ s[Len(u) + q] = l[q]
      BY <1>1, <1>3, <3>1
    <3> QED BY <3>1, <3>2
  <2> QED BY <1>1, <1>2, <1>4, <2>1, <2>2
<1>6. /\ c + Len(s) <= e
      /\ up => c + Len(s) = e
      /\ \A p \in 1..Len(s), k \in 1..Len(fs) : \A i \in 1..(2 + Len(fs[k].payload)) :
           fs[k].start + i = c + p => s[p] = UnitOf(fs[k], i)
  BY DEF OnWay
<1>7. (c + n) + Len(t) = c + Len(s) /\ c + n \in Nat
  BY <1>1, <1>4
<1>8. ASSUME NEW p \in 1..Len(t), NEW k \in 1..Len(fs), NEW i \in 1..(2 + Len(fs[k].payload)),
             fs[k].start + i = (c + n) + p
      PROVE  t[p] = UnitOf(fs[k], i)
  <2>1. p + n \in 1..Len(s) /\ fs[k].start + i = c + (p + n)
    BY <1>1, <1>4, <1>8
  <2> QED BY <1>5, <1>6, <2>1
<1>9. OnWay(fs, c + n, t, up)
  BY <1>6, <1>7, <1>8 DEF OnWay
<1> QED BY <1>2, <1>9 DEF r

-----------------------------------------------------------------------------
\* The units of frame j, for a reader that has passed o of them.
LEMMA FrameTypes ==
    ASSUME NEW fs \in Seq(WsFrame), NEW k \in 1..Len(fs)
    PROVE  /\ fs[k] \in WsFrame /\ fs[k].start \in Nat /\ fs[k].done \in Nat
           /\ fs[k].payload \in Seq(WsUnit) /\ Len(fs[k].payload) \in Nat
           /\ fs[k].part \in Seq(WsUnit) /\ Len(fs[k].part) \in Nat
           /\ fs[k].op \in WsOps /\ fs[k].fin \in BOOLEAN /\ fs[k].masked \in BOOLEAN
<1>1. fs[k] \in WsFrame
  BY ElementOfSeq
<1> QED BY <1>1, LenProperties DEF WsFrame

LEMMA HeaderIs ==
    ASSUME NEW f \in WsFrame
    PROVE  /\ UnitOf(f, 1) = WsHeader(f) /\ UnitOf(f, 2) = WsHeader(f)
           /\ WsHeader(f).op = f.op /\ WsHeader(f).fin = f.fin
           /\ WsHeader(f).len = Len(f.payload) /\ WsHeader(f).masked = f.masked
           /\ WsHeader(f).kind = "header" /\ WsHeader(f) \in WsUnit
<1>1. Len(f.payload) \in Nat
  BY LenProperties DEF WsFrame
<1> QED BY <1>1 DEF UnitOf, WsHeader, WsUnit, WsFrame

LEMMA PlaceFacts ==
    ASSUME NEW fs, NEW p, Table(fs, p), NEW j \in 1..(Len(fs) + 1)
    PROVE  /\ StartAt(fs, j) \in Nat /\ Len(fs) \in Nat
           /\ PartAt(fs, j) \in Seq(WsUnit) /\ DoneAt(fs, j) \in Nat
           /\ j \in 1..Len(fs) =>
                /\ StartAt(fs, j) = fs[j].start /\ PartAt(fs, j) = fs[j].part
                /\ DoneAt(fs, j) = fs[j].done
           /\ j \in 1..Len(fs) =>
                /\ StartAt(fs, j + 1) = StartAfter(fs[j]) /\ PartAt(fs, j + 1) = PartAfter(fs[j])
                /\ DoneAt(fs, j + 1) = DoneAfter(fs[j]) /\ j + 1 \in 1..(Len(fs) + 1)
<1>1. fs \in Seq(WsFrame) /\ Len(fs) \in Nat
  BY LenProperties DEF Table
<1>2. ASSUME j = 1
      PROVE  StartAt(fs, j) \in Nat /\ PartAt(fs, j) \in Seq(WsUnit) /\ DoneAt(fs, j) \in Nat
  <2>1. <<>> \in Seq(WsUnit)
    BY EmptySeq
  <2> QED BY <1>2, <2>1 DEF StartAt, PartAt, DoneAt
<1>3. ASSUME j # 1
      PROVE  StartAt(fs, j) \in Nat /\ PartAt(fs, j) \in Seq(WsUnit) /\ DoneAt(fs, j) \in Nat
  <2>1. j - 1 \in 1..Len(fs)
    BY <1>1, <1>3
  <2> DEFINE f == fs[j - 1]
  <2>2. /\ f.start \in Nat /\ f.done \in Nat /\ f.payload \in Seq(WsUnit)
        /\ Len(f.payload) \in Nat /\ f.part \in Seq(WsUnit)
    BY <1>1, <2>1, FrameTypes
  <2>3. StartAt(fs, j) = StartAfter(f) /\ PartAt(fs, j) = PartAfter(f) /\ DoneAt(fs, j) = DoneAfter(f)
    BY <1>3 DEF StartAt, PartAt, DoneAt
  <2> HIDE DEF f
  <2>4. f.part \o f.payload \in Seq(WsUnit) /\ <<>> \in Seq(WsUnit)
    BY <2>2, JoinFacts, EmptySeq
  <2>5. StartAfter(f) \in Nat /\ PartAfter(f) \in Seq(WsUnit) /\ DoneAfter(f) \in Nat
    BY <2>2, <2>4 DEF StartAfter, PartAfter, DoneAfter
  <2> QED BY <2>3, <2>5
<1>5. j \in 1..Len(fs) =>
          StartAt(fs, j) = fs[j].start /\ PartAt(fs, j) = fs[j].part /\ DoneAt(fs, j) = fs[j].done
  BY DEF Table
<1>4. ASSUME j \in 1..Len(fs)
      PROVE  /\ StartAt(fs, j + 1) = StartAfter(fs[j]) /\ PartAt(fs, j + 1) = PartAfter(fs[j])
             /\ DoneAt(fs, j + 1) = DoneAfter(fs[j]) /\ j + 1 \in 1..(Len(fs) + 1)
  <2>1. j + 1 # 1 /\ (j + 1) - 1 = j /\ j + 1 \in 1..(Len(fs) + 1)
    BY <1>1, <1>4
  <2> QED BY <2>1 DEF StartAt, PartAt, DoneAt
<1> QED BY <1>1, <1>2, <1>3, <1>4, <1>5

LEMMA UnitAt ==
    ASSUME NEW fs \in Seq(WsFrame), NEW c, NEW up, NEW u \in Seq(WsUnit), NEW l \in Seq(WsUnit),
           OnWay(fs, c, u \o l, up), NEW j \in 1..Len(fs), NEW o \in Nat, c = fs[j].start + o,
           NEW i \in 1..Len(u), o + i <= 2 + Len(fs[j].payload)
    PROVE  u[i] = UnitOf(fs[j], o + i)
<1>1. /\ Len(u \o l) = Len(u) + Len(l) /\ Len(u) \in Nat /\ Len(l) \in Nat
      /\ (u \o l)[i] = u[i]
  BY JoinFacts
<1>2. fs[j].start \in Nat /\ Len(fs[j].payload) \in Nat
  BY FrameTypes
<1>3. i \in 1..Len(u \o l) /\ o + i \in 1..(2 + Len(fs[j].payload))
      /\ fs[j].start + (o + i) = c + i
  BY <1>1, <1>2
<1>4. (u \o l)[i] = UnitOf(fs[j], o + i)
  BY <1>3 DEF OnWay
<1> QED BY <1>1, <1>4

\* Where a frame is to start and there is something to read, one starts.
LEMMA NotAtEnd ==
    ASSUME NEW fs, NEW p, Table(fs, p), NEW c, NEW up, NEW u \in Seq(WsUnit), NEW l \in Seq(WsUnit),
           OnWay(fs, c, u \o l, up), u # <<>>, NEW j \in 1..(Len(fs) + 1), c = StartAt(fs, j)
    PROVE  j \in 1..Len(fs)
<1>1. Len(u \o l) = Len(u) + Len(l) /\ Len(u) \in Nat /\ Len(l) \in Nat
  BY JoinFacts
<1>2. Len(u) > 0
  BY <1>1, EmptySeq
<1>3. c \in Nat /\ c + Len(u \o l) <= StartAt(fs, Len(fs) + 1)
  BY DEF OnWay
<1>4. Len(fs) \in Nat
  BY LenProperties DEF Table
<1>5. ASSUME j = Len(fs) + 1 PROVE FALSE
  BY <1>1, <1>2, <1>3, <1>5
<1> QED BY <1>4, <1>5

-----------------------------------------------------------------------------
(***************************************************************************)
(* Reading a header.                                                       *)
(***************************************************************************)
Closes(x) == "CLOSE" \in x.status /\ "SENDING" \notin x.status

\* The reader stands in the stream of the frames fs, of which u was received.
InStream(fs, x, u, l, d, p) ==
    \E j \in 1..(Len(fs) + 1), c \in Nat :
        OnWay(fs, c, u \o l, p.up) /\ ReaderAt(fs, j, c, x, d, p)
ReadsOn(fs, x, u, d) == InStream(fs, x, u, ws_link, d, ws_peer)

LEMMA ReadFailsKeeps ==
    ASSUME NEW x, NEW k \in Nat, WsFit(x, k + 1), NEW u, NEW r \in WsReadFails(x, u)
    PROVE  /\ r.rest = u /\ r.messages = <<>>
           /\ WsFit(r.c, k) /\ SameReader(x, r.c)
<1>1. CASE ws_peer.up
  <2>1. r = Result(SetStatus(x, {"READING"}), u, <<>>)
    BY <1>1 DEF WsReadFails
  <2>2. WsFit(x, k)
    <3>1. k \in 0..(k + 1) /\ k + 1 \in Nat
      OBVIOUS
    <3> QED BY <3>1, FitLess
  <2>3. {"READING"} \in SUBSET WsStatus /\ "ERR" \notin {"READING"}
    BY DEF WsStatus
  <2>4. WsFit(SetStatus(x, {"READING"}), k) /\ SameReader(x, SetStatus(x, {"READING"}))
    BY <2>2, <2>3, FitStatus
  <2> QED BY <2>1, <2>4 DEF Result
<1>2. CASE ~ws_peer.up
  <2>1. PICK y \in CloseWithFrame(x) : r = Result(y, u, <<>>)
    BY <1>2 DEF WsReadFails
  <2>2. MayErr
    BY <1>2 DEF MayErr
  <2>3. WsFit(y, k) /\ SameReader(x, y)
    BY <2>1, <2>2, CloseFits
  <2> QED BY <2>1, <2>3 DEF Result
<1> QED BY <1>1, <1>2

LEMMA SameReaderAt ==
    ASSUME NEW fs, NEW j, NEW c, NEW x, NEW y, NEW d, ReaderAt(fs, j, c, x, d, ws_peer), SameReader(x, y)
    PROVE  ReaderAt(fs, j, c, y, d, ws_peer)
BY DEF ReaderAt, SameReader

LEMMA FrameFits ==
    ASSUME NEW x, NEW k \in Nat, WsFit(x, k), NEW h, h.got \in 0..2, h.len \in Nat
    PROVE  LET y == [x EXCEPT !.frame = h]
           IN  /\ WsFit(y, k) /\ y.message = x.message /\ y.headers = x.headers
               /\ y.frame = h /\ y.status = x.status
BY DEF WsFit, WsFields

LEMMA NothingRead ==
    ASSUME NEW p \in Seq(WsUnit)
    PROVE  SubSeq(p, 1, 0) = <<>> /\ SubSeq(p, 1, 0) \in Seq(WsUnit)
<1>1. SubSeq(p, 1, 0) \in Seq(WsUnit) /\ Len(SubSeq(p, 1, 0)) = 0
  BY FrontFacts, LenProperties
<1> QED BY <1>1, EmptySeq

LEMMA ReadHeaderKeeps ==
    ASSUME NEW fs, Table(fs, ws_peer), ws_link \in Seq(WsUnit), NEW x, NEW k \in Nat,
           WsFit(x, k + 1), NEW u \in Seq(WsUnit), NEW d, ReadsOn(fs, x, u, d),
           ~HeaderComplete(x), NEW r \in ReadHeader(x, u)
    PROVE  /\ r.messages = <<>> /\ r.rest \in Seq(WsUnit) /\ r.c.headers = x.headers
           /\ WsFit(r.c, k)
           /\ Closes(r.c) \/ ReadsOn(fs, r.c, r.rest, d)
           /\ HeaderComplete(r.c) => WsFit(r.c, k + 1) /\ ReadsOn(fs, r.c, r.rest, d)
<1>1. PICK j \in 1..(Len(fs) + 1), c \in Nat :
        OnWay(fs, c, u \o ws_link, ws_peer.up) /\ ReaderAt(fs, j, c, x, d, ws_peer)
  BY DEF ReadsOn, InStream
<1>2. fs \in Seq(WsFrame) /\ Len(u) \in Nat
  BY LenProperties DEF Table
<1> DEFINE got == x.frame.got
           n == Min({2 - got, Len(u)})
           w == Head(u)
           g == [got |-> got + n, op |-> w.op, fin |-> w.fin, len |-> w.len, masked |-> w.masked]
           y == [x EXCEPT !.frame = g]
<1>3. got \in {0, 1} /\ n \in Nat /\ n = IF 2 - got <= Len(u) THEN 2 - got ELSE Len(u)
  <2>1. got \in 0..2 /\ got # 2
    BY DEF WsFit, HeaderComplete
  <2>2. 2 - got \in Nat
    BY <2>1
  <2>3. Len(u) \in Nat
    BY <1>2
  <2> HIDE DEF got
  <2> QED BY ONLY <2>1, <2>2, <2>3, SmallerOfTwo
<1>4. n \in 0..Len(u) /\ k + 1 \in Nat /\ k \in 0..(k + 1)
  BY <1>2, <1>3
<1>5. /\ Rest(u, n) \in Seq(WsUnit)
      /\ OnWay(fs, c + n, Rest(u, n) \o ws_link, ws_peer.up)
      /\ n = 0 => Rest(u, n) = u
  <2> HIDE DEF n
  <2> QED BY <1>1, <1>2, <1>4, OnWayLater, RestIs
<1>6. CASE n = 0
  <2>1. r \in WsReadFails(x, u)
    BY <1>3, <1>5, <1>6 DEF ReadHeader
  <2>2. r.rest = u /\ r.messages = <<>> /\ WsFit(r.c, k) /\ SameReader(x, r.c)
    BY <2>1, ReadFailsKeeps
  <2>3. ReadsOn(fs, r.c, u, d)
    BY <1>1, <2>2, SameReaderAt DEF ReadsOn, InStream
  <2>4. ~HeaderComplete(r.c)
    BY <2>2 DEF SameReader, HeaderComplete
  <2> QED BY <2>2, <2>3, <2>4 DEF SameReader
<1>7. CASE n # 0
  <2>1. 1 \in 1..Len(u) /\ u # <<>> /\ w = u[1] /\ n \in 1..2
    <3>1. Len(u) >= 1
      BY <1>2, <1>3, <1>7
    <3>2. u # <<>>
      BY <3>1, EmptySeq
    <3> QED BY <1>2, <1>3, <1>7, <3>1, <3>2, HeadTailProperties
  <2>2. j \in 1..Len(fs) /\ c = fs[j].start + got /\ MessageAt(x.message, fs[j].part, <<>>)
    <3>1. CASE got = 1
      <4>1. /\ j <= Len(fs) /\ c = fs[j].start + 1
            /\ MessageAt(x.message, fs[j].part, <<>>)
        BY <1>1, <3>1 DEF ReaderAt, StandsAt
      <4> QED BY <1>2, <3>1, <4>1
    <3>2. CASE got = 0
      <4>1. /\ c = StartAt(fs, j)
            /\ \/ MessageAt(x.message, PartAt(fs, j), <<>>)
               \/ j = Len(fs) + 1
        BY <1>1, <3>2 DEF ReaderAt, StandsAt
      <4>2. j \in 1..Len(fs)
        BY <1>1, <2>1, <4>1, NotAtEnd
      <4>3. StartAt(fs, j) = fs[j].start /\ PartAt(fs, j) = fs[j].part /\ fs[j].start \in Nat
        BY <1>2, <4>2, PlaceFacts, FrameTypes
      <4>4. j # Len(fs) + 1
        BY <1>2, <4>2
      <4> QED BY <3>2, <4>1, <4>2, <4>3, <4>4
    <3> QED BY <1>3, <3>1, <3>2
  <2> DEFINE f == fs[j]
  <2>3. f \in WsFrame /\ f.start \in Nat /\ f.payload \in Seq(WsUnit) /\ Len(f.payload) \in Nat
        /\ f.masked \in BOOLEAN
    BY <1>2, <2>2, FrameTypes
  <2>4. w = WsHeader(f)
    <3>1. got + 1 <= 2 + Len(f.payload) /\ got \in Nat
      BY <1>3, <2>3
    <3>2. w = UnitOf(f, got + 1)
      <4> HIDE DEF got, n, w
      <4> QED BY <1>1, <1>2, <2>1, <2>2, <3>1, UnitAt
    <3> QED BY <1>3, <2>3, <3>2, HeaderIs
  <2>5. got + n \in 0..2 /\ (n < 2 - got <=> got + n = 1) /\ (~(n < 2 - got) <=> got + n = 2)
    BY <1>2, <1>3, <2>1
  <2>6. /\ WsFit(y, k + 1) /\ y.message = x.message /\ y.headers = x.headers /\ y.frame = g
        /\ y.frame.got = got + n /\ y.frame.op = f.op /\ y.frame.fin = f.fin
        /\ y.frame.len = Len(f.payload) /\ y.frame.masked = f.masked
    <3>1. g.got = got + n /\ g.op = f.op /\ g.fin = f.fin /\ g.len = Len(f.payload)
          /\ g.masked = f.masked
      <4> HIDE DEF f, w
      <4> QED BY <2>3, <2>4, HeaderIs
    <3>2. g.got \in 0..2 /\ g.len \in Nat
      BY <2>3, <2>5, <3>1
    <3>3. y = [x EXCEPT !.frame = g]
      OBVIOUS
    <3> HIDE DEF f, g, y
    <3>4. WsFit(y, k + 1) /\ y.message = x.message /\ y.headers = x.headers /\ y.frame = g
      BY <1>4, <3>2, <3>3, FrameFits
    <3> QED BY <3>1, <3>4
  <2> HIDE DEF y
  <2>7. c + n = f.start + (got + n) /\ HasGot(fs, j, d, ws_peer) /\ c + n \in Nat
    <3>1. HasGot(fs, j, d, ws_peer)
      BY <1>1 DEF ReaderAt
    <3>2. c = f.start + got /\ f.start \in Nat /\ got \in Nat /\ n \in Nat
      BY <1>3, <2>2, <2>3
    <3> HIDE DEF f, got, n
    <3>3. (f.start + got) + n = f.start + (got + n) /\ (f.start + got) + n \in Nat
      BY ONLY <3>2, SumsAgree
    <3> QED BY ONLY <3>1, <3>2, <3>3
  <2>8. CASE got + n = 1
    <3>1. StandsAt(fs, j, c + n, y.frame, y.message, ws_peer)
      BY <1>2, <2>2, <2>6, <2>7, <2>8 DEF StandsAt
    <3>2. ReadsOn(fs, y, Rest(u, n), d)
      BY <1>1, <1>5, <2>7, <3>1 DEF ReadsOn, InStream, ReaderAt
    <3>3. r \in WsReadFails(y, Rest(u, n))
      BY <1>7, <2>5, <2>8 DEF ReadHeader, y
    <3>4. r.rest = Rest(u, n) /\ r.messages = <<>> /\ WsFit(r.c, k) /\ SameReader(y, r.c)
      BY <2>6, <3>3, ReadFailsKeeps
    <3>5. ReadsOn(fs, r.c, Rest(u, n), d)
      BY <3>2, <3>4, SameReaderAt DEF ReadsOn, InStream
    <3>6. ~HeaderComplete(r.c)
      BY <2>6, <2>8, <3>4 DEF SameReader, HeaderComplete
    <3> QED BY <1>5, <2>6, <3>4, <3>5, <3>6 DEF SameReader
  <2>9. CASE got + n = 2
    <3>1. r = Result(IF y.frame.masked THEN SetStatus(y, {})
                     ELSE SetStatus([y EXCEPT !.frame.got = 1], {"ERR", "CLOSE"}),
                     Rest(u, n), <<>>)
      BY <2>5, <2>9 DEF ReadHeader, y
    <3>2. CASE f.masked
      <4>1. r = Result(SetStatus(y, {}), Rest(u, n), <<>>)
        BY <2>6, <3>1, <3>2
      <4>2. {} \in SUBSET WsStatus /\ "ERR" \notin {}
        OBVIOUS
      <4>3. WsFit(SetStatus(y, {}), k + 1) /\ SameReader(y, SetStatus(y, {}))
        BY <1>4, <2>6, <4>2, FitStatus
      <4>4. WsFit(SetStatus(y, {}), k)
        BY <1>4, <4>3, FitLess
      <4>5. StandsAt(fs, j, c + n, y.frame, y.message, ws_peer)
        <5>1. y.message.buflen = 0
          BY <2>2, <2>6, EmptySeq DEF MessageAt
        <5>2. SubSeq(f.payload, 1, y.message.buflen) = <<>>
          BY <2>3, <5>1, NothingRead
        <5>3. c + n = f.start + 2 + y.message.buflen /\ 0 <= Len(f.payload) /\ j <= Len(fs)
          BY <1>2, <2>2, <2>3, <2>7, <2>9, <5>1
        <5> QED BY <2>2, <2>6, <2>9, <3>2, <5>1, <5>2, <5>3 DEF StandsAt
      <4>6. ReadsOn(fs, SetStatus(y, {}), Rest(u, n), d)
        BY <1>1, <1>5, <2>7, <4>3, <4>5, SameReaderAt DEF ReadsOn, InStream, ReaderAt
      <4> QED BY <1>5, <2>6, <4>1, <4>3, <4>4, <4>6 DEF Result, SameReader
    <3>3. CASE ~f.masked
      <4> DEFINE z == [y EXCEPT !.frame.got = 1]
      <4>1. r = Result(SetStatus(z, {"ERR", "CLOSE"}), Rest(u, n), <<>>)
        BY <2>6, <3>1, <3>3
      <4>2. WsFit(z, k + 1) /\ z.frame.got = 1 /\ z.headers = y.headers
        <5> DEFINE h == [y.frame EXCEPT !.got = 1]
        <5>1. h.got = 1 /\ h.len = y.frame.len
          BY <2>6
        <5>2. z = [y EXCEPT !.frame = h] /\ h.got \in 0..2 /\ h.len \in Nat
          BY <2>3, <2>6, <5>1
        <5> HIDE DEF h, z
        <5> QED BY <1>4, <2>6, <5>1, <5>2, FrameFits
      <4> HIDE DEF z
      <4>3. MayErr /\ {"ERR", "CLOSE"} \in SUBSET WsStatus
        <5>1. ws_peer.ended
          BY <2>2, <3>3 DEF Table, IsLast
        <5> QED BY <5>1 DEF MayErr, WsStatus
      <4> DEFINE v == SetStatus(z, {"ERR", "CLOSE"})
      <4>4. WsFit(v, k + 1) /\ SameReader(z, v) /\ v.status = {"ERR", "CLOSE"}
        BY <1>4, <4>2, <4>3, FitStatus
      <4> HIDE DEF v
      <4>5. WsFit(v, k)
        BY <1>4, <4>4, FitLess
      <4>6. Closes(v) /\ ~HeaderComplete(v) /\ v.headers = x.headers
        BY <2>6, <4>2, <4>4 DEF Closes, HeaderComplete, SameReader
      <4> QED BY <1>5, <4>1, <4>5, <4>6 DEF Result, v
    <3> QED BY <2>3, <3>2, <3>3
  <2> QED BY <2>5, <2>8, <2>9
<1> QED BY <1>6, <1>7

-----------------------------------------------------------------------------
(***************************************************************************)
(* The end of a frame, and what is done with it.                           *)
(***************************************************************************)
Got(d) ==
    Len(d) <= Len(ws_peer.sent) /\ \A i \in 1..Len(d) : d[i] = ws_peer.sent[i]

\* The result r of a read by x, which had passed on d.
ReadWell(fs, k, x, r, d) ==
    /\ WsFit(r.c, k) /\ r.c.headers = x.headers
    /\ r.rest \in Seq(WsUnit) /\ r.messages \in Seq(Seq(WsUnit))
    /\ Got(d \o r.messages)
    /\ Closes(r.c) \/ ReadsOn(fs, r.c, r.rest, d \o r.messages)

\* x has read all of frame j, and v comes after it.
AtEnd(fs, j, x, v, d) ==
    /\ j \in 1..Len(fs)
    /\ x.frame.op = fs[j].op /\ x.frame.fin = fs[j].fin /\ fs[j].masked
    /\ x.frame.len = Len(fs[j].payload)
    /\ MessageAt(x.message, fs[j].part, fs[j].payload)
    /\ HasGot(fs, j, d, ws_peer) /\ d \in Seq(Seq(WsUnit))
    /\ v \in Seq(WsUnit) /\ OnWay(fs, StartAfter(fs[j]), v \o ws_link, ws_peer.up)

LEMMA MessageFits ==
    ASSUME NEW x, NEW k \in Nat, WsFit(x, k), NEW m \in MessageType, m.buflen <= Len(m.payload)
    PROVE  LET y == [x EXCEPT !.message = m]
           IN  /\ WsFit(y, k) /\ y.frame = x.frame /\ y.headers = x.headers
               /\ y.message = m /\ y.status = x.status
BY DEF WsFit, WsFields

LEMMA NothingPassed ==
    ASSUME NEW d \in Seq(Seq(WsUnit))
    PROVE  d \o <<>> = d /\ <<>> \in Seq(Seq(WsUnit))
<1>1. <<>> \in Seq(Seq(WsUnit))
  BY EmptySeq
<1> QED BY <1>1, JoinFacts

\* The next frame.
LEMMA FrameEnds ==
    ASSUME NEW fs, Table(fs, ws_peer), NEW k \in Nat, NEW j \in 1..Len(fs), NEW x, WsFit(x, k),
           NEW v \in Seq(WsUnit), OnWay(fs, StartAfter(fs[j]), v \o ws_link, ws_peer.up),
           NEW ms \in Seq(Seq(WsUnit)), NEW d, HasGot(fs, j + 1, d \o ms, ws_peer),
           \/ MessageAt(x.message, PartAfter(fs[j]), <<>>)
           \/ j = Len(fs) /\ ws_peer.ended
    PROVE  ReadWell(fs, k, x, EndFrame(x, v, ms), d)
<1> DEFINE y == [x EXCEPT !.frame = NoFrame]
<1>0. Len(fs) \in Nat
  BY LenProperties DEF Table
<1>1. /\ WsFit(y, k) /\ y.message = x.message /\ y.headers = x.headers
      /\ y.frame = NoFrame
  <2>1. NoFrame.got \in 0..2 /\ NoFrame.len \in Nat /\ NoFrame.got = 0
    BY DEF NoFrame
  <2> QED BY <2>1, FrameFits
<1>2. EndFrame(x, v, ms) = [c |-> y, rest |-> v, messages |-> ms]
  BY DEF EndFrame, Result
<1> HIDE DEF y
<1>3. /\ j \in 1..(Len(fs) + 1) /\ j + 1 \in 1..(Len(fs) + 1)
      /\ StartAt(fs, j + 1) = StartAfter(fs[j]) /\ PartAt(fs, j + 1) = PartAfter(fs[j])
      /\ StartAt(fs, j + 1) \in Nat
  BY <1>0, PlaceFacts
<1>4. NoFrame.got = 0
  BY DEF NoFrame
<1>5. StandsAt(fs, j + 1, StartAfter(fs[j]), y.frame, y.message, ws_peer)
  BY <1>1, <1>3, <1>4 DEF StandsAt
<1>6. ReadsOn(fs, y, v, d \o ms)
  BY <1>3, <1>5 DEF ReadsOn, InStream, ReaderAt
<1>7. Got(d \o ms)
  BY DEF HasGot, Got
<1> QED BY <1>1, <1>2, <1>6, <1>7 DEF ReadWell

\* A frame that ends the connection at once.
LEMMA FrameCloses ==
    ASSUME NEW fs, NEW k \in Nat, NEW x, WsFit(x, k), MayErr, NEW v \in Seq(WsUnit),
           NEW d \in Seq(Seq(WsUnit)), Got(d)
    PROVE  /\ ReadWell(fs, k, x, EndFrame(SetStatus(x, {"ERR", "CLOSE"}), v, <<>>), d)
           /\ ReadWell(fs, k, x, Result(SetStatus(x, {"ERR", "CLOSE"}), v, <<>>), d)
<1> DEFINE y == SetStatus(x, {"ERR", "CLOSE"})
           z == [y EXCEPT !.frame = NoFrame]
<1>1. WsFit(y, k) /\ SameReader(x, y) /\ y.status = {"ERR", "CLOSE"}
  <2>1. {"ERR", "CLOSE"} \in SUBSET WsStatus
    BY DEF WsStatus
  <2> QED BY <2>1, FitStatus
<1>2. EndFrame(y, v, <<>>) = [c |-> z, rest |-> v, messages |-> <<>>]
  BY DEF EndFrame, Result
<1>3. Result(y, v, <<>>) = [c |-> y, rest |-> v, messages |-> <<>>]
  BY DEF Result
<1>4. d \o <<>> = d /\ <<>> \in Seq(Seq(WsUnit))
  BY NothingPassed
<1> HIDE DEF y
<1>5. WsFit(z, k) /\ z.headers = y.headers /\ z.status = y.status
  <2>1. NoFrame.got \in 0..2 /\ NoFrame.len \in Nat
    BY DEF NoFrame
  <2> QED BY <1>1, <2>1, FrameFits
<1> HIDE DEF z
<1>6. Closes(y) /\ Closes(z)
  BY <1>1, <1>5 DEF Closes
<1>7. ASSUME NEW w, WsFit(w, k), w.headers = x.headers, Closes(w), NEW r, r.c = w, r.rest = v,
             r.messages = <<>>
      PROVE  ReadWell(fs, k, x, r, d)
  BY <1>4, <1>7 DEF ReadWell
<1>8. ReadWell(fs, k, x, EndFrame(y, v, <<>>), d)
  BY <1>1, <1>2, <1>5, <1>6, <1>7 DEF SameReader
<1>9. ReadWell(fs, k, x, Result(y, v, <<>>), d)
  BY <1>1, <1>3, <1>6, <1>7 DEF SameReader
<1> QED BY <1>8, <1>9 DEF y

LEMMA StillGot ==
    ASSUME NEW fs, NEW p, Table(fs, p), NEW j \in 1..Len(fs), NEW d, HasGot(fs, j, d, ws_peer),
           ~(IsData(fs[j]) /\ fs[j].fin)
    PROVE  HasGot(fs, j + 1, d, ws_peer)
<1>1. j \in 1..(Len(fs) + 1)
  BY LenProperties DEF Table
<1>2. DoneAt(fs, j) = fs[j].done /\ DoneAt(fs, j + 1) = DoneAfter(fs[j])
  BY <1>1, PlaceFacts
<1> QED BY <1>2 DEF HasGot, DoneAfter

\* A message that a PONG or a PING has freed, or that is not begun.
LEMMA Freed ==
    ASSUME NEW part \in Seq(WsUnit), part # <<>> => "pong" \in Liberties
    PROVE  MessageAt(NoMessage, part, <<>>) /\ NoMessage \in MessageType
           /\ NoMessage.buflen <= Len(NoMessage.payload)
<1>1. <<>> \in Seq(WsUnit) /\ Len(<<>>) = 0 /\ <<>> \o <<>> = <<>>
  BY EmptySeq, ConcatEmptySeq
<1> QED BY <1>1 DEF MessageAt, NoMessage, MessageType, Base

LEMMA PongKeeps ==
    ASSUME NEW fs, Table(fs, ws_peer), NEW k \in Nat, NEW x, WsFit(x, k), NEW j, NEW v, NEW d,
           AtEnd(fs, j, x, v, d), fs[j].op = "pong", NEW r \in HandlePong(x, v)
    PROVE  ReadWell(fs, k, x, r, d)
<1>1. /\ j \in 1..Len(fs) /\ fs[j].part \in Seq(WsUnit) /\ HasGot(fs, j, d, ws_peer)
      /\ d \in Seq(Seq(WsUnit)) /\ v \in Seq(WsUnit)
      /\ OnWay(fs, StartAfter(fs[j]), v \o ws_link, ws_peer.up)
  BY FrameTypes DEF AtEnd, Table
<1>2. Sensible(fs[j]) /\ ~IsData(fs[j])
  BY <1>1 DEF Table, IsData
<1>3. HasGot(fs, j + 1, d \o <<>>, ws_peer) /\ <<>> \in Seq(Seq(WsUnit))
  BY <1>1, <1>2, StillGot, NothingPassed
<1>4. MessageAt(NoMessage, PartAfter(fs[j]), <<>>) /\ NoMessage \in MessageType
      /\ NoMessage.buflen <= Len(NoMessage.payload)
  BY <1>1, <1>2, Freed DEF Sensible, PartAfter
<1> DEFINE y == FreeMessage(x)
<1>5. WsFit(y, k) /\ y.message = NoMessage /\ y.headers = x.headers
  BY <1>4, MessageFits DEF FreeMessage
<1>6. r = EndFrame(y, v, <<>>)
  BY DEF HandlePong
<1> HIDE DEF y
<1>7. ReadWell(fs, k, y, r, d)
  BY <1>1, <1>3, <1>4, <1>5, <1>6, FrameEnds
<1> QED BY <1>5, <1>7 DEF ReadWell

LEMMA CutBack ==
    ASSUME NEW S, NEW s \in Seq(S), NEW e \in Seq(S)
    PROVE  SubSeq(s \o e, 1, Len(s \o e) - Len(e)) = s
<1> DEFINE t == s \o e
           q == SubSeq(t, 1, Len(s))
<1>1. /\ t \in Seq(S) /\ Len(t) = Len(s) + Len(e) /\ Len(s) \in Nat /\ Len(e) \in Nat
      /\ \A i \in 1..Len(s) : t[i] = s[i]
  BY JoinFacts
<1> HIDE DEF t
<1>2. q \in Seq(S) /\ Len(q) = Len(s) /\ \A i \in 1..Len(s) : q[i] = t[i]
  <2>1. Len(s) \in Nat /\ Len(s) <= Len(t)
    BY <1>1
  <2> QED BY <1>1, <2>1, FrontFacts
<1>3. Len(t) - Len(e) = Len(s)
  BY <1>1
<1> HIDE DEF q
<1>4. q = s
  BY <1>1, <1>2, SeqEqual
<1> QED BY <1>3, <1>4 DEF q, t

LEMMA PingKeeps ==
    ASSUME NEW fs, Table(fs, ws_peer), NEW k \in Nat, NEW x, WsFit(x, k + 1), NEW j, NEW v, NEW d,
           AtEnd(fs, j, x, v, d), fs[j].op = "ping", NEW r \in HandlePing(x, v)
    PROVE  ReadWell(fs, k, x, r, d)
<1> DEFINE f == fs[j]
           m == x.message
           kept == [m EXCEPT !.payload = SubSeq(@, 1, Len(@) - x.frame.len), !.buflen = 0]
<1>1. /\ j \in 1..Len(fs) /\ f.part \in Seq(WsUnit) /\ HasGot(fs, j, d, ws_peer)
      /\ d \in Seq(Seq(WsUnit)) /\ v \in Seq(WsUnit)
      /\ OnWay(fs, StartAfter(f), v \o ws_link, ws_peer.up)
      /\ f.payload \in Seq(WsUnit) /\ Len(f.payload) \in Nat
      /\ x.frame.len = Len(f.payload)
      /\ MessageAt(m, f.part, f.payload)
  BY FrameTypes DEF AtEnd, Table
<1>2. ~IsData(f) /\ PartAfter(f) = f.part
  BY DEF PartAfter, IsData
<1>3. HasGot(fs, j + 1, d \o <<>>, ws_peer) /\ <<>> \in Seq(Seq(WsUnit))
  BY <1>1, <1>2, StillGot, NothingPassed
<1>4. m \in MessageType /\ m.buflen <= Len(m.payload)
  BY DEF WsFit
<1> HIDE DEF m, f
<1>5. <<>> \in Seq(WsUnit) /\ Len(<<>>) = 0
  BY EmptySeq
<1>6. ASSUME NEW n \in MessageType, n.buflen <= Len(n.payload), MessageAt(n, f.part, <<>>),
             NEW y, WsFit(y, k), SameReader(x, y), r = EndFrame([y EXCEPT !.message = n], v, <<>>)
      PROVE  ReadWell(fs, k, x, r, d)
  <2> DEFINE z == [y EXCEPT !.message = n]
  <2>1. WsFit(z, k) /\ z.message = n /\ z.headers = x.headers
    BY <1>6, MessageFits DEF SameReader
  <2>2. r = EndFrame(z, v, <<>>)
    BY <1>6
  <2> HIDE DEF z
  <2>3. ReadWell(fs, k, z, r, d)
    BY <1>1, <1>2, <1>3, <1>6, <2>1, <2>2, FrameEnds DEF f
  <2> QED BY <2>1, <2>3 DEF ReadWell
<1>7. CASE x.frame.len = 0
  <2>1. PICK y \in Respond(x, 1) : r = EndFrame(y, v, <<>>)
    BY <1>7 DEF HandlePing
  <2>2. WsFit(y, k) /\ SameReader(x, y)
    BY <2>1, RespondFits
  <2>3. y.message = m /\ y = [y EXCEPT !.message = m]
    BY <2>2 DEF SameReader, WsFit, WsFields, m
  <2>4. f.payload = <<>>
    BY <1>1, <1>7, EmptySeq
  <2>5. r = EndFrame([y EXCEPT !.message = m], v, <<>>)
    BY <2>1, <2>3
  <2> QED BY <1>1, <1>4, <1>6, <2>2, <2>4, <2>5
<1>8. CASE x.frame.len # 0 /\ m.fragmented
  <2>1. PICK y \in Respond(x, 1) : r = EndFrame([y EXCEPT !.message = kept], v, <<>>)
    BY <1>8 DEF HandlePing, m
  <2>2. WsFit(y, k) /\ SameReader(x, y)
    BY <2>1, RespondFits
  <2>3. m.payload = f.part \o f.payload /\ f.part # <<>>
    BY <1>1, <1>8 DEF MessageAt, Base
  <2>4. SubSeq(m.payload, 1, Len(m.payload) - x.frame.len) = f.part
    <3>1. SubSeq(f.part \o f.payload, 1, Len(f.part \o f.payload) - Len(f.payload)) = f.part
      BY <1>1, CutBack
    <3> QED BY <1>1, <2>3, <3>1
  <2>5. kept = [fragmented |-> m.fragmented, payload |-> f.part, buflen |-> 0]
    <3>1. kept = [m EXCEPT !.payload = f.part, !.buflen = 0]
      BY <2>4
    <3> HIDE DEF kept
    <3> QED BY <1>4, <3>1 DEF MessageType
  <2> HIDE DEF kept
  <2>6. kept \in MessageType /\ kept.buflen <= Len(kept.payload)
    BY <1>1, <1>4, <2>5, LenProperties DEF MessageType
  <2>7. f.part \o <<>> = f.part
    BY <1>1, ConcatEmptySeq
  <2>8. MessageAt(kept, f.part, <<>>)
    BY <1>5, <1>8, <2>3, <2>5, <2>7 DEF MessageAt, Base
  <2> QED BY <1>6, <2>1, <2>2, <2>6, <2>8
<1>9. CASE x.frame.len # 0 /\ ~m.fragmented
  <2>1. PICK y \in Respond(x, 1) : r = EndFrame([y EXCEPT !.message = NoMessage], v, <<>>)
    BY <1>9 DEF HandlePing, m
  <2>2. WsFit(y, k) /\ SameReader(x, y)
    BY <2>1, RespondFits
  <2>3. f.part # <<>> => "pong" \in Liberties
    BY <1>1, <1>9 DEF MessageAt
  <2> QED BY <1>1, <1>6, <2>1, <2>2, <2>3, Freed
<1> QED BY <1>7, <1>8, <1>9

LEMMA WithOne ==
    ASSUME NEW S, NEW d \in Seq(S), NEW p \in S
    PROVE  /\ <<p>> \in Seq(S) /\ d \o <<p>> \in Seq(S) /\ Len(d) \in Nat
           /\ Len(d \o <<p>>) = Len(d) + 1
           /\ \A i \in 1..Len(d) : (d \o <<p>>)[i] = d[i]
           /\ (d \o <<p>>)[Len(d) + 1] = p
<1> DEFINE e == <<p>>
<1>1. e \in Seq(S) /\ Len(e) = 1 /\ e[1] = p
  OBVIOUS
<1> HIDE DEF e
<1>2. /\ d \o e \in Seq(S) /\ Len(d \o e) = Len(d) + Len(e) /\ Len(d) \in Nat
      /\ \A i \in 1..Len(d) : (d \o e)[i] = d[i]
      /\ \A i \in 1..Len(e) : (d \o e)[Len(d) + i] = e[i]
  BY <1>1, JoinFacts
<1>3. (d \o e)[Len(d) + 1] = e[1]
  BY <1>1, <1>2
<1> QED BY <1>1, <1>2, <1>3 DEF e

\* The message that frame j ends is passed on.
LEMMA OneMore ==
    ASSUME NEW fs, Table(fs, ws_peer), NEW j \in 1..Len(fs), NEW d \in Seq(Seq(WsUnit)),
           HasGot(fs, j, d, ws_peer), IsData(fs[j]), fs[j].fin, NEW p, p = fs[j].part \o fs[j].payload
    PROVE  HasGot(fs, j + 1, d \o <<p>>, ws_peer) /\ <<p>> \in Seq(Seq(WsUnit))
<1> DEFINE f == fs[j]
           n == Len(d)
           e == d \o <<p>>
<1>1. /\ j \in 1..(Len(fs) + 1) /\ f.done \in Nat
      /\ f.part \in Seq(WsUnit) /\ f.payload \in Seq(WsUnit)
  BY LenProperties, FrameTypes DEF Table
<1>2. p \in Seq(WsUnit)
  BY <1>1, JoinFacts
<1>4. /\ Len(e) = n + 1 /\ n \in Nat /\ <<p>> \in Seq(Seq(WsUnit))
      /\ \A i \in 1..n : e[i] = d[i]
      /\ e[n + 1] = p
  <2>1. ASSUME NEW q \in Seq(WsUnit)
        PROVE  /\ <<q>> \in Seq(Seq(WsUnit)) /\ Len(d) \in Nat
               /\ Len(d \o <<q>>) = Len(d) + 1
               /\ \A i \in 1..Len(d) : (d \o <<q>>)[i] = d[i]
               /\ (d \o <<q>>)[Len(d) + 1] = q
    BY WithOne
  <2> QED BY <1>2, <2>1
<1> HIDE DEF e
<1>5. DoneAt(fs, j) = f.done /\ DoneAt(fs, j + 1) = f.done + 1
  BY <1>1, PlaceFacts DEF DoneAfter
<1>6. f.done < Len(ws_peer.sent) /\ ws_peer.sent[f.done + 1] = p /\ Len(ws_peer.sent) \in Nat
  <2>1. Len(ws_peer.sent) = DoneAt(fs, Len(fs) + 1)
    BY DEF Table
  <2>2. DoneAt(fs, Len(fs) + 1) \in Nat
    <3>1. Len(fs) + 1 \in 1..(Len(fs) + 1)
      BY <1>1, LenProperties DEF Table
    <3> QED BY <3>1, PlaceFacts
  <2> QED BY <2>1, <2>2 DEF Table
<1>7. n = f.done /\ \A i \in 1..n : d[i] = ws_peer.sent[i]
  BY <1>5 DEF HasGot
<1> HIDE DEF n, f
<1>8. Len(e) <= Len(ws_peer.sent) /\ \A i \in 1..Len(e) : e[i] = ws_peer.sent[i]
  <2>1. ASSUME NEW i \in 1..(n + 1) PROVE e[i] = ws_peer.sent[i]
    <3>1. i \in 1..n \/ i = n + 1
      BY <1>4
    <3> QED BY <1>4, <1>6, <1>7, <3>1
  <2> QED BY <1>1, <1>4, <1>6, <1>7, <2>1
<1>9. HasGot(fs, j + 1, e, ws_peer)
  BY <1>4, <1>5, <1>7, <1>8 DEF HasGot
<1> QED BY <1>4, <1>9 DEF e

LEMMA TextKeeps ==
    ASSUME NEW fs, Table(fs, ws_peer), NEW k \in Nat, NEW x, WsFit(x, k + 1), NEW j, NEW v, NEW d,
           AtEnd(fs, j, x, v, d), fs[j].op \in {"text", "continuation"},
           fs[j].op = "continuation" => x.message.fragmented, NEW r \in WsHandleText(x, v)
    PROVE  ReadWell(fs, k, x, r, d)
<1> DEFINE f == fs[j]
           m == x.message
           more == [m EXCEPT !.buflen = 0, !.fragmented = TRUE]
           y == [x EXCEPT !.message = more]
<1>1. /\ j \in 1..Len(fs) /\ f.part \in Seq(WsUnit) /\ HasGot(fs, j, d, ws_peer)
      /\ d \in Seq(Seq(WsUnit)) /\ v \in Seq(WsUnit)
      /\ OnWay(fs, StartAfter(f), v \o ws_link, ws_peer.up)
      /\ f.payload \in Seq(WsUnit) /\ Len(f.payload) \in Nat
      /\ x.frame.op = f.op /\ x.frame.fin = f.fin
      /\ MessageAt(m, f.part, f.payload)
  BY FrameTypes DEF AtEnd, Table
<1>2. IsData(f) /\ Sensible(f)
  BY <1>1 DEF IsData, AtEnd, Table
<1>3. m \in MessageType /\ k + 1 \in Nat /\ k \in 0..(k + 1)
  BY DEF WsFit
<1>4. f.part # <<>> <=> m.fragmented
  BY <1>1, <1>2 DEF Sensible, MessageAt
<1>5. m.payload = f.part \o f.payload /\ f.payload # <<>> /\ m.payload \in Seq(WsUnit)
      /\ m.payload # <<>>
  <2>1. Base(m, f.part) = f.part
    BY <1>4 DEF Base
  <2>2. f.part \o f.payload \in Seq(WsUnit) /\ (f.part \o f.payload = <<>> => f.payload = <<>>)
    BY <1>1, JoinFacts
  <2> QED BY <1>1, <1>2, <2>1, <2>2 DEF MessageAt, Sensible
<1>6. ~(m.fragmented /\ x.frame.op # "continuation")
  BY <1>1, <1>2, <1>4 DEF Sensible
<1>8. [x EXCEPT !.message.buflen = 0, !.message.fragmented = TRUE] = y
  BY <1>3 DEF WsFit, WsFields, MessageType
<1> HIDE DEF m
<1>7. more \in MessageType /\ more.fragmented /\ more.payload = m.payload /\ more.buflen = 0
  BY <1>3 DEF MessageType
<1> HIDE DEF more
<1>9. more.buflen <= Len(more.payload)
  <2>1. Len(m.payload) \in Nat
    BY <1>5, LenProperties
  <2> QED BY <1>7, <2>1
<1>10. WsFit(y, k + 1) /\ WsFit(y, k) /\ y.message = more /\ y.headers = x.headers
  <2>1. WsFit(y, k + 1) /\ y.message = more /\ y.headers = x.headers
    BY <1>3, <1>7, <1>9, MessageFits
  <2> HIDE DEF y
  <2>2. WsFit(y, k)
    BY <1>3, <2>1, FitLess
  <2> QED BY <2>1, <2>2
<1> HIDE DEF f, y
<1>11. CASE ~f.fin
  <2>1. r = EndFrame(y, v, <<>>)
    BY <1>1, <1>6, <1>8, <1>11 DEF WsHandleText, m
  <2>2. PartAfter(f) = m.payload
    BY <1>2, <1>5, <1>11 DEF PartAfter
  <2>3. m.payload \o <<>> = m.payload /\ Len(<<>>) = 0
    BY <1>5, ConcatEmptySeq, EmptySeq
  <2>4. MessageAt(y.message, PartAfter(f), <<>>)
    BY <1>5, <1>7, <1>10, <2>2, <2>3 DEF MessageAt, Base
  <2>5. HasGot(fs, j + 1, d \o <<>>, ws_peer) /\ <<>> \in Seq(Seq(WsUnit))
    BY <1>1, <1>11, StillGot, NothingPassed DEF f
  <2>6. ReadWell(fs, k, y, r, d)
    BY <1>1, <1>10, <2>1, <2>4, <2>5, FrameEnds DEF f
  <2> QED BY <1>10, <2>6 DEF ReadWell
<1>12. CASE f.fin
  <2>1. PICK z \in {y} \cup UNION {Respond(y, n) : n \in Replies} :
          r = EndFrame(FreeMessage(z), v, <<y.message.payload>>)
    BY <1>1, <1>6, <1>8, <1>12 DEF WsHandleText, m
  <2>2. WsFit(z, k) /\ z.headers = y.headers
    <3>1. CASE z = y
      BY <1>10, <3>1
    <3>2. CASE z # y
      <4>1. PICK n \in Replies : z \in Respond(y, n)
        BY <2>1, <3>2
      <4>2. n \in Nat
        BY WebSocketAssumption
      <4> QED BY <1>10, <4>1, <4>2, RespondFits DEF SameReader
    <3> QED BY <3>1, <3>2
  <2> DEFINE w == FreeMessage(z)
  <2>3. PartAfter(f) = <<>> /\ <<>> \in Seq(WsUnit)
    BY <1>2, <1>12, EmptySeq DEF PartAfter
  <2>4. MessageAt(NoMessage, PartAfter(f), <<>>) /\ NoMessage \in MessageType
        /\ NoMessage.buflen <= Len(NoMessage.payload)
    BY <2>3, Freed
  <2>5. WsFit(w, k) /\ w.message = NoMessage /\ w.headers = x.headers
    BY <1>10, <2>2, <2>4, MessageFits DEF FreeMessage
  <2>6. r = EndFrame(w, v, <<m.payload>>)
    BY <1>7, <1>10, <2>1
  <2>7. HasGot(fs, j + 1, d \o <<m.payload>>, ws_peer) /\ <<m.payload>> \in Seq(Seq(WsUnit))
    BY <1>1, <1>2, <1>5, <1>12, OneMore DEF f
  <2> HIDE DEF w
  <2>8. ReadWell(fs, k, w, r, d)
    BY <1>1, <2>4, <2>5, <2>6, <2>7, FrameEnds DEF f
  <2> QED BY <2>5, <2>8 DEF ReadWell
<1> QED BY <1>11, <1>12

LEMMA CloseFrameKeeps ==
    ASSUME NEW fs, Table(fs, ws_peer), NEW k \in Nat, NEW x, WsFit(x, k + 1), NEW j, NEW v, NEW d,
           AtEnd(fs, j, x, v, d), fs[j].op = "close",
           NEW r \in {EndFrame(y, v, <<>>) : y \in CloseWithFrame(x)}
    PROVE  ReadWell(fs, k, x, r, d)
<1>1. /\ j \in 1..Len(fs) /\ HasGot(fs, j, d, ws_peer)
      /\ d \in Seq(Seq(WsUnit)) /\ v \in Seq(WsUnit)
      /\ OnWay(fs, StartAfter(fs[j]), v \o ws_link, ws_peer.up)
  BY DEF AtEnd
<1>2. j = Len(fs) /\ ws_peer.ended /\ MayErr
  BY <1>1 DEF Table, IsLast, MayErr
<1>3. HasGot(fs, j + 1, d \o <<>>, ws_peer) /\ <<>> \in Seq(Seq(WsUnit))
  BY <1>1, StillGot, NothingPassed DEF IsData
<1>4. PICK y \in CloseWithFrame(x) : r = EndFrame(y, v, <<>>)
  OBVIOUS
<1>5. WsFit(y, k) /\ SameReader(x, y)
  BY <1>2, <1>4, CloseFits
<1>6. ReadWell(fs, k, y, r, d)
  BY <1>1, <1>2, <1>3, <1>4, <1>5, FrameEnds
<1> QED BY <1>5, <1>6 DEF ReadWell, SameReader

LEMMA HandlePayloadKeeps ==
    ASSUME NEW fs, Table(fs, ws_peer), NEW k \in Nat, NEW x, WsFit(x, k + 1), NEW j, NEW v, NEW d,
           AtEnd(fs, j, x, v, d), NEW r \in HandlePayload(x, v)
    PROVE  ReadWell(fs, k, x, r, d)
<1> DEFINE f == fs[j]
<1>1. /\ j \in 1..Len(fs) /\ x.frame.op = f.op /\ f.masked /\ f.op \in WsOps
      /\ HasGot(fs, j, d, ws_peer) /\ d \in Seq(Seq(WsUnit)) /\ v \in Seq(WsUnit)
      /\ MessageAt(x.message, f.part, f.payload)
  BY FrameTypes DEF AtEnd, Table
<1>2. WsFit(x, k)
  <2>1. k + 1 \in Nat /\ k \in 0..(k + 1)
    OBVIOUS
  <2> QED BY <2>1, FitLess
<1> HIDE DEF f
<1>3. CASE f.op = "continuation" /\ ~x.message.fragmented
  <2>1. r = EndFrame(SetStatus(x, {"ERR", "CLOSE"}), v, <<>>)
    BY <1>1, <1>3 DEF HandlePayload
  <2>2. Sensible(f) /\ IsData(f)
    BY <1>1, <1>3 DEF Table, IsData, f
  <2>3. MayErr
    BY <1>1, <1>3, <2>2 DEF Sensible, MessageAt, MayErr
  <2>4. Got(d)
    BY <1>1 DEF HasGot, Got
  <2> QED BY <1>1, <1>2, <2>1, <2>3, <2>4, FrameCloses
<1>4. CASE f.op = "text" \/ (f.op = "continuation" /\ x.message.fragmented)
  <2>1. r \in WsHandleText(x, v)
    BY <1>1, <1>4 DEF HandlePayload
  <2> QED BY <1>4, <2>1, TextKeeps DEF f
<1>5. CASE f.op = "pong"
  <2>1. r \in HandlePong(x, v)
    BY <1>1, <1>5 DEF HandlePayload
  <2> QED BY <1>2, <1>5, <2>1, PongKeeps DEF f
<1>6. CASE f.op = "ping"
  <2>1. r \in HandlePing(x, v)
    BY <1>1, <1>6 DEF HandlePayload
  <2> QED BY <1>6, <2>1, PingKeeps DEF f
<1>7. CASE f.op = "close"
  <2>1. r \in {EndFrame(y, v, <<>>) : y \in CloseWithFrame(x)}
    BY <1>1, <1>7 DEF HandlePayload
  <2> QED BY <1>7, <2>1, CloseFrameKeeps DEF f
<1> QED BY <1>1, <1>3, <1>4, <1>5, <1>6, <1>7 DEF WsOps

-----------------------------------------------------------------------------
(***************************************************************************)
(* Reading a payload.                                                      *)
(***************************************************************************)
\* What was read of a sequence before, and what comes next.
GoesOnWith(p, b, u, n) == \A i \in 1..n : u[i] = p[b + i]

LEMMA PiecesJoin ==
    ASSUME NEW S, NEW p \in Seq(S), NEW u \in Seq(S), NEW b \in Nat, NEW n \in Nat,
           b + n <= Len(p), n <= Len(u), GoesOnWith(p, b, u, n)
    PROVE  /\ SubSeq(p, 1, b) \o SubSeq(u, 1, n) = SubSeq(p, 1, b + n)
           /\ SubSeq(p, 1, b) \in Seq(S) /\ SubSeq(u, 1, n) \in Seq(S)
           /\ SubSeq(p, 1, b + n) \in Seq(S) /\ Len(SubSeq(p, 1, b + n)) = b + n
           /\ Len(SubSeq(p, 1, b)) = b
           /\ b + n = Len(p) => SubSeq(p, 1, b + n) = p
<1> DEFINE q == SubSeq(p, 1, b)
           w == SubSeq(u, 1, n)
           t == SubSeq(p, 1, b + n)
<1>1. Len(p) \in Nat /\ Len(u) \in Nat /\ b <= Len(p) /\ b + n \in Nat
  BY LenProperties
<1>2. q \in Seq(S) /\ Len(q) = b /\ \A i \in 1..b : q[i] = p[i]
  BY <1>1, FrontFacts
<1>3. w \in Seq(S) /\ Len(w) = n /\ \A i \in 1..n : w[i] = u[i]
  BY <1>1, FrontFacts
<1>4. t \in Seq(S) /\ Len(t) = b + n /\ \A i \in 1..(b + n) : t[i] = p[i]
  BY <1>1, FrontFacts
<1> HIDE DEF q, w, t
<1>5. /\ q \o w \in Seq(S) /\ Len(q \o w) = b + n
      /\ \A i \in 1..b : (q \o w)[i] = q[i]
      /\ \A i \in 1..n : (q \o w)[b + i] = w[i]
  <2>1. q \in Seq(S) /\ w \in Seq(S)
    BY <1>2, <1>3
  <2>2. /\ q \o w \in Seq(S) /\ Len(q \o w) = Len(q) + Len(w)
        /\ \A i \in 1..Len(q) : (q \o w)[i] = q[i]
        /\ \A i \in 1..Len(w) : (q \o w)[Len(q) + i] = w[i]
    BY <2>1, JoinFacts
  <2> QED BY <1>2, <1>3, <2>2
<1>6. ASSUME NEW i \in 1..(b + n)
      PROVE  (q \o w)[i] = t[i]
  <2>1. CASE i <= b
    BY <1>2, <1>4, <1>5, <2>1
  <2>2. CASE ~(i <= b)
    <3> DEFINE z == i - b
    <3>1. z \in 1..n /\ i = b + z
      BY <2>2
    <3> HIDE DEF z
    <3>2. (q \o w)[b + z] = w[z] /\ w[z] = u[z] /\ u[z] = p[b + z] /\ t[b + z] = p[b + z]
      BY <1>3, <1>4, <1>5, <3>1 DEF GoesOnWith
    <3> QED BY <3>1, <3>2
  <2> QED BY <2>1, <2>2
<1>7. q \o w = t
  BY <1>4, <1>5, <1>6, SeqEqual
<1>8. b + n = Len(p) => t = p
  <2>1. ASSUME b + n = Len(p) PROVE t = p
    BY <1>1, <1>4, <2>1, SeqEqual
  <2> QED BY <2>1
<1> QED BY <1>2, <1>3, <1>4, <1>7, <1>8 DEF q, w, t

LEMMA ReadPayloadWell ==
    ASSUME NEW fs, Table(fs, ws_peer), ws_link \in Seq(WsUnit), NEW x, NEW k \in Nat,
           WsFit(x, k + 1), HeaderComplete(x), NEW u \in Seq(WsUnit),
           NEW d \in Seq(Seq(WsUnit)), ReadsOn(fs, x, u, d), NEW r \in WsReadPayload(x, u)
    PROVE  ReadWell(fs, k, x, r, d)
<1>1. PICK j \in 1..(Len(fs) + 1), c \in Nat :
        OnWay(fs, c, u \o ws_link, ws_peer.up) /\ ReaderAt(fs, j, c, x, d, ws_peer)
  BY DEF ReadsOn, InStream
<1> DEFINE f == fs[j]
           m == x.message
           b == m.buflen
           need == x.frame.len - b
           n == Min({need, Len(u)})
           more == [m EXCEPT !.payload = @ \o SubSeq(u, 1, n), !.buflen = @ + n]
           y == [x EXCEPT !.message = more]
<1>2. /\ j <= Len(fs) /\ x.frame.op = f.op /\ x.frame.fin = f.fin /\ f.masked
      /\ x.frame.masked = f.masked /\ x.frame.got = 2
      /\ x.frame.len = Len(f.payload) /\ b <= Len(f.payload)
      /\ c = f.start + 2 + b
      /\ MessageAt(m, f.part, SubSeq(f.payload, 1, b))
      /\ HasGot(fs, j, d, ws_peer)
  BY <1>1 DEF ReaderAt, StandsAt, HeaderComplete
<1>3. /\ j \in 1..Len(fs) /\ fs \in Seq(WsFrame) /\ Len(fs) \in Nat /\ Len(u) \in Nat
      /\ f.start \in Nat /\ f.payload \in Seq(WsUnit) /\ Len(f.payload) \in Nat
      /\ f.part \in Seq(WsUnit) /\ f \in WsFrame
  <2>1. fs \in Seq(WsFrame) /\ Len(fs) \in Nat /\ Len(u) \in Nat /\ j \in 1..Len(fs)
    BY <1>2, LenProperties DEF Table
  <2> QED BY <2>1, FrameTypes
<1>4. m \in MessageType /\ b \in Nat /\ b <= Len(m.payload) /\ Got(d)
      /\ k + 1 \in Nat /\ k \in 0..(k + 1)
  <2>1. m \in MessageType /\ b <= Len(m.payload)
    BY DEF WsFit
  <2>2. b \in Nat
    BY <2>1 DEF MessageType
  <2>3. Got(d)
    BY <1>2 DEF HasGot, Got
  <2>4. k + 1 \in Nat /\ k \in 0..(k + 1)
    OBVIOUS
  <2> QED BY <2>1, <2>2, <2>3, <2>4
<1>5. WsFit(x, k)
  BY <1>4, FitLess
<1> HIDE DEF f, m
<1>6. need \in Nat /\ n \in Nat /\ n <= need /\ n <= Len(u) /\ b + n <= Len(f.payload)
      /\ (n = need <=> b + n = Len(f.payload)) /\ n \in 0..Len(u)
      /\ need = Len(f.payload) - b
  <2>1. need \in Nat /\ need = Len(f.payload) - b
    BY <1>2, <1>3, <1>4
  <2>2. n \in Nat /\ n = IF need <= Len(u) THEN need ELSE Len(u)
    <3> HIDE DEF need
    <3> QED BY <1>3, <2>1, SmallerOfTwo
  <2>3. b \in Nat /\ b <= Len(f.payload) /\ Len(f.payload) \in Nat /\ Len(u) \in Nat
    BY <1>2, <1>3, <1>4
  <2> HIDE DEF n, need, b
  <2> QED BY ONLY <2>1, <2>2, <2>3
<1> HIDE DEF n, need, b
<1>7. /\ Rest(u, n) \in Seq(WsUnit)
      /\ OnWay(fs, c + n, Rest(u, n) \o ws_link, ws_peer.up)
  BY <1>1, <1>3, <1>6, OnWayLater
<1>8. ASSUME NEW i \in 1..n
      PROVE  u[i] = f.payload[b + i]
  <2>1. i \in 1..Len(u) /\ 2 + b \in Nat /\ (2 + b) + i <= 2 + Len(f.payload)
    BY <1>3, <1>4, <1>6
  <2>4. c = f.start + (2 + b)
    <3>1. c = f.start + 2 + b /\ f.start \in Nat /\ b \in Nat
      BY <1>2, <1>3, <1>4
    <3> QED BY <3>1
  <2>2. u[i] = UnitOf(f, (2 + b) + i)
    BY <1>1, <1>3, <2>1, <2>4, UnitAt DEF f
  <2>3. ~((2 + b) + i <= 2) /\ ((2 + b) + i) - 2 = b + i
    BY <1>4
  <2> QED BY <2>2, <2>3 DEF UnitOf
<1>9. /\ SubSeq(f.payload, 1, b) \o SubSeq(u, 1, n) = SubSeq(f.payload, 1, b + n)
      /\ SubSeq(f.payload, 1, b) \in Seq(WsUnit) /\ SubSeq(u, 1, n) \in Seq(WsUnit)
      /\ SubSeq(f.payload, 1, b + n) \in Seq(WsUnit) /\ Len(SubSeq(f.payload, 1, b + n)) = b + n
      /\ b + n = Len(f.payload) => SubSeq(f.payload, 1, b + n) = f.payload
  <2> DEFINE p == f.payload
  <2>1. p \in Seq(WsUnit) /\ b \in Nat /\ n \in Nat /\ b + n <= Len(p) /\ n <= Len(u)
        /\ GoesOnWith(p, b, u, n)
    BY <1>3, <1>4, <1>6, <1>8 DEF GoesOnWith
  <2> HIDE DEF p
  <2>2. /\ SubSeq(p, 1, b) \o SubSeq(u, 1, n) = SubSeq(p, 1, b + n)
        /\ SubSeq(p, 1, b) \in Seq(WsUnit) /\ SubSeq(u, 1, n) \in Seq(WsUnit)
        /\ SubSeq(p, 1, b + n) \in Seq(WsUnit) /\ Len(SubSeq(p, 1, b + n)) = b + n
        /\ b + n = Len(p) => SubSeq(p, 1, b + n) = p
    BY <2>1, PiecesJoin
  <2> QED BY <2>2 DEF p
<1>10. /\ more \in MessageType /\ more.fragmented = m.fragmented /\ more.buflen = b + n
       /\ more.payload = m.payload \o SubSeq(u, 1, n)
       /\ more.buflen <= Len(more.payload)
  <2>1. m.payload \o SubSeq(u, 1, n) \in Seq(WsUnit)
        /\ Len(m.payload \o SubSeq(u, 1, n)) = Len(m.payload) + n
    <3>1. m.payload \in Seq(WsUnit)
      BY <1>4 DEF MessageType
    <3> DEFINE w == SubSeq(u, 1, n)
    <3>2. Len(w) = n /\ w \in Seq(WsUnit)
      BY <1>6, FrontFacts
    <3> HIDE DEF w
    <3>3. m.payload \o w \in Seq(WsUnit) /\ Len(m.payload \o w) = Len(m.payload) + Len(w)
      <4> DEFINE v == m.payload
      <4>1. v \in Seq(WsUnit)
        BY <3>1
      <4> HIDE DEF v
      <4>2. v \o w \in Seq(WsUnit) /\ Len(v \o w) = Len(v) + Len(w)
        BY ONLY <3>2, <4>1, JoinFacts
      <4> QED BY <4>2 DEF v
    <3> QED BY <3>2, <3>3 DEF w
  <2>2. more.buflen = b + n /\ more.payload = m.payload \o SubSeq(u, 1, n)
    BY <1>4 DEF MessageType, b
  <2>3. b + n \in Nat /\ b + n <= Len(m.payload) + n
    <3>1. Len(m.payload) \in Nat
      BY <1>4, LenProperties DEF MessageType
    <3> QED BY <1>4, <1>6, <3>1
  <2>4. more \in MessageType /\ more.fragmented = m.fragmented
    BY <1>4, <2>1, <2>3 DEF MessageType, b
  <2> HIDE DEF more
  <2> QED BY <2>1, <2>2, <2>3, <2>4
<1> HIDE DEF more
<1>11. MessageAt(more, f.part, SubSeq(f.payload, 1, b + n))
  <2> DEFINE a == Base(m, f.part)
             q == SubSeq(f.payload, 1, b)
             w == SubSeq(u, 1, n)
  <2>1. a \in Seq(WsUnit) /\ q \in Seq(WsUnit) /\ w \in Seq(WsUnit)
    BY <1>3, <1>9, EmptySeq DEF Base
  <2>2. (a \o q) \o w = a \o (q \o w)
    <3> HIDE DEF a, q, w
    <3> QED BY ONLY <2>1, ConcatAssociative
  <2>3. more.payload = a \o SubSeq(f.payload, 1, b + n)
    BY <1>2, <1>9, <1>10, <2>2 DEF MessageAt
  <2>4. a = Base(more, f.part)
    BY <1>10 DEF Base
  <2> HIDE DEF a
  <2> QED BY <1>2, <1>9, <1>10, <2>3, <2>4 DEF MessageAt
<1>12. /\ WsFit(y, k + 1) /\ WsFit(y, k) /\ y.frame = x.frame /\ y.headers = x.headers
       /\ y.message = more
  <2>1. WsFit(y, k + 1) /\ y.frame = x.frame /\ y.headers = x.headers /\ y.message = more
    BY <1>4, <1>10, MessageFits
  <2> HIDE DEF y
  <2>2. WsFit(y, k)
    BY <1>4, <2>1, FitLess
  <2> QED BY <2>1, <2>2
<1>13. [x EXCEPT !.message.payload = @ \o SubSeq(u, 1, n), !.message.buflen = @ + n] = y
  BY <1>4 DEF WsFit, WsFields, MessageType, more, m
<1> HIDE DEF y
<1>14. d \o <<>> = d /\ <<>> \in Seq(Seq(WsUnit))
  BY NothingPassed
<1>15. CASE TooLarge(x)
  <2>1. r = Result(SetStatus(x, {"ERR", "CLOSE"}), u, <<>>)
    BY <1>15 DEF WsReadPayload
  <2>2. m.payload # <<>> /\ b = 0 /\ Len(f.payload) > 0
        /\ Len(m.payload) + Len(f.payload) >= MaxWsInmem
    BY <1>2, <1>15 DEF TooLarge, m, b
  <2>3. m.payload = Base(m, f.part)
    <3>1. SubSeq(f.payload, 1, b) = <<>>
      BY <1>3, <2>2, NothingRead
    <3>2. Base(m, f.part) \in Seq(WsUnit)
      BY <1>3, EmptySeq DEF Base
    <3> QED BY <1>2, <3>1, <3>2, ConcatEmptySeq DEF MessageAt
  <2>4. Exceeds(f.part, Len(f.payload))
    BY <2>2, <2>3 DEF Base, Exceeds
  <2>5. MayErr
    BY <1>3, <2>4 DEF Table, IsLast, MayErr, f
  <2> QED BY <1>4, <1>5, <2>1, <2>5, FrameCloses
<1>16. CASE ~TooLarge(x) /\ n = need
  <2>1. r \in HandlePayload(y, Rest(u, n))
    BY <1>13, <1>16 DEF WsReadPayload, n, need, b, m
  <2>2. c + n = StartAfter(f)
    <3>1. c = f.start + 2 + b /\ b + n = Len(f.payload) /\ f.start \in Nat
          /\ b \in Nat /\ n \in Nat
      BY <1>2, <1>3, <1>4, <1>6, <1>16
    <3>2. c + n = f.start + 2 + (b + n)
      BY ONLY <3>1, SumsAgree
    <3> QED BY <3>1, <3>2 DEF StartAfter
  <2>3. AtEnd(fs, j, y, Rest(u, n), d)
    BY <1>2, <1>3, <1>6, <1>7, <1>9, <1>11, <1>12, <1>16, <2>2 DEF AtEnd, f
  <2>4. ReadWell(fs, k, y, r, d)
    BY <1>12, <2>1, <2>3, HandlePayloadKeeps
  <2> QED BY <1>12, <2>4 DEF ReadWell
<1>17. CASE ~TooLarge(x) /\ n # need /\ n > 0
  <2>1. r = Result(SetStatus(y, {"READING"}), Rest(u, n), <<>>)
    BY <1>13, <1>17 DEF WsReadPayload, n, need, b, m
  <2> DEFINE z == SetStatus(y, {"READING"})
  <2>2. WsFit(z, k) /\ SameReader(y, z)
    <3>1. {"READING"} \in SUBSET WsStatus /\ "ERR" \notin {"READING"}
      BY DEF WsStatus
    <3> QED BY <1>12, <3>1, FitStatus
  <2> HIDE DEF z
  <2>3. StandsAt(fs, j, c + n, y.frame, y.message, ws_peer)
    <3>1. c + n = f.start + 2 + (b + n)
      <4>1. c = f.start + 2 + b /\ f.start \in Nat /\ b \in Nat /\ n \in Nat
        BY <1>2, <1>3, <1>4, <1>6
      <4> QED BY ONLY <4>1, SumsAgree
    <3>2. y.frame.got = 2 /\ y.frame.masked /\ y.frame.masked = f.masked
      BY <1>2, <1>12
    <3> QED BY <1>2, <1>6, <1>10, <1>11, <1>12, <3>1, <3>2 DEF StandsAt, f
  <2>4. ReadsOn(fs, z, Rest(u, n), d)
    <3>1. c + n \in Nat
      BY <1>6
    <3>2. ReaderAt(fs, j, c + n, z, d, ws_peer)
      BY <1>2, <2>2, <2>3, SameReaderAt DEF ReaderAt
    <3> QED BY <1>7, <3>1, <3>2 DEF ReadsOn, InStream
  <2>5. r.c = z /\ r.rest = Rest(u, n) /\ r.messages = <<>>
    BY <2>1 DEF Result, z
  <2> QED BY <1>4, <1>7, <1>12, <1>14, <2>2, <2>4, <2>5 DEF ReadWell, SameReader
<1>18. CASE ~TooLarge(x) /\ n # need /\ ~(n > 0)
  <2>1. ASSUME NEW z, WsFit(z, k), SameReader(x, z), r = Result(z, u, <<>>)
        PROVE  ReadWell(fs, k, x, r, d)
    <3>1. r.c = z /\ r.rest = u /\ r.messages = <<>>
      BY <2>1 DEF Result
    <3>2. ReadsOn(fs, z, u, d)
      BY <1>1, <2>1, SameReaderAt DEF ReadsOn, InStream
    <3> QED BY <1>4, <1>14, <2>1, <3>1, <3>2 DEF ReadWell, SameReader
  <2>2. {"READING"} \in SUBSET WsStatus /\ "ERR" \notin {"READING"}
    BY DEF WsStatus
  <2>3. CASE ws_peer.up
    <3>1. r = Result(SetStatus(x, {"READING"}), u, <<>>)
      BY <1>18, <2>3 DEF WsReadPayload, n, need, b, m
    <3>2. WsFit(SetStatus(x, {"READING"}), k) /\ SameReader(x, SetStatus(x, {"READING"}))
      BY <1>5, <2>2, FitStatus
    <3> QED BY <2>1, <3>1, <3>2
  <2>4. CASE ~ws_peer.up
    <3>1. PICK z \in CloseWithFrame(x) : r = Result(SetStatus(z, {"READING"}), u, <<>>)
      BY <1>18, <2>4 DEF WsReadPayload, n, need, b, m
    <3>2. MayErr
      BY <2>4 DEF MayErr
    <3>3. WsFit(z, k) /\ SameReader(x, z)
      BY <3>1, <3>2, CloseFits
    <3>4. WsFit(SetStatus(z, {"READING"}), k) /\ SameReader(z, SetStatus(z, {"READING"}))
      BY <2>2, <3>3, FitStatus
    <3>5. SameReader(x, SetStatus(z, {"READING"}))
      BY <3>3, <3>4 DEF SameReader
    <3> QED BY <2>1, <3>1, <3>4, <3>5
  <2> QED BY <2>3, <2>4
<1> QED BY <1>6, <1>15, <1>16, <1>17, <1>18

LEMMA ReadMessageWell ==
    ASSUME NEW fs, Table(fs, ws_peer), ws_link \in Seq(WsUnit), NEW x, NEW k \in Nat,
           WsFit(x, k + 1), NEW u \in Seq(WsUnit),
           NEW d \in Seq(Seq(WsUnit)), ReadsOn(fs, x, u, d), NEW r \in ReadMessage(x, u)
    PROVE  ReadWell(fs, k, x, r, d)
<1>1. CASE HeaderComplete(x)
  <2>1. r \in WsReadPayload(x, u)
    BY <1>1 DEF ReadMessage
  <2> QED BY <1>1, <2>1, ReadPayloadWell
<1>2. CASE ~HeaderComplete(x)
  <2>1. PICK q \in ReadHeader(x, u) :
          r \in IF HeaderComplete(q.c) THEN WsReadPayload(q.c, q.rest) ELSE {q}
    BY <1>2 DEF ReadMessage
  <2>2. /\ q.messages = <<>> /\ q.rest \in Seq(WsUnit) /\ q.c.headers = x.headers
        /\ WsFit(q.c, k)
        /\ Closes(q.c) \/ ReadsOn(fs, q.c, q.rest, d)
        /\ HeaderComplete(q.c) => WsFit(q.c, k + 1) /\ ReadsOn(fs, q.c, q.rest, d)
    BY <1>2, <2>1, ReadHeaderKeeps
  <2>3. CASE HeaderComplete(q.c)
    <3>1. ReadWell(fs, k, q.c, r, d)
      BY <2>1, <2>2, <2>3, ReadPayloadWell
    <3> QED BY <2>2, <3>1 DEF ReadWell
  <2>4. CASE ~HeaderComplete(q.c)
    <3>1. Got(d)
      BY DEF ReadsOn, InStream, ReaderAt, HasGot, Got
    <3>2. r = q /\ d \o <<>> = d /\ <<>> \in Seq(Seq(WsUnit))
      BY <2>1, <2>4, NothingPassed
    <3> QED BY <2>2, <3>1, <3>2 DEF ReadWell
  <2> QED BY <2>3, <2>4
<1> QED BY <1>1, <1>2

-----------------------------------------------------------------------------
(***************************************************************************)
(* The peer sends one more frame.                                          *)
(***************************************************************************)
\* Position k of the frames fs is what it was when f is added.
LEMMA LongerTable ==
    ASSUME NEW fs \in Seq(WsFrame), NEW f \in WsFrame
    PROVE  LET gs == Append(fs, f)
           IN  /\ gs \in Seq(WsFrame) /\ Len(gs) = Len(fs) + 1 /\ Len(fs) \in Nat
               /\ \A k \in 1..Len(fs) : gs[k] = fs[k]
               /\ gs[Len(fs) + 1] = f
               /\ \A k \in 1..(Len(fs) + 1) :
                    /\ StartAt(gs, k) = StartAt(fs, k) /\ PartAt(gs, k) = PartAt(fs, k)
                    /\ DoneAt(gs, k) = DoneAt(fs, k)
               /\ StartAt(gs, Len(gs) + 1) = StartAfter(f)
               /\ PartAt(gs, Len(gs) + 1) = PartAfter(f)
               /\ DoneAt(gs, Len(gs) + 1) = DoneAfter(f)
<1> DEFINE gs == Append(fs, f)
<1>1. /\ gs \in Seq(WsFrame) /\ Len(gs) = Len(fs) + 1 /\ Len(fs) \in Nat
      /\ \A k \in 1..Len(fs) : gs[k] = fs[k]
      /\ gs[Len(fs) + 1] = f
  BY AppendProperties, LenProperties
<1> HIDE DEF gs
<1>2. ASSUME NEW k \in 1..(Len(fs) + 1)
      PROVE  /\ StartAt(gs, k) = StartAt(fs, k) /\ PartAt(gs, k) = PartAt(fs, k)
             /\ DoneAt(gs, k) = DoneAt(fs, k)
  <2>1. k # 1 => k - 1 \in 1..Len(fs)
    BY <1>1
  <2> QED BY <1>1, <2>1 DEF StartAt, PartAt, DoneAt
<1>3. Len(gs) + 1 # 1 /\ (Len(gs) + 1) - 1 = Len(fs) + 1
  BY <1>1
<1>4. /\ StartAt(gs, Len(gs) + 1) = StartAfter(f)
      /\ PartAt(gs, Len(gs) + 1) = PartAfter(f)
      /\ DoneAt(gs, Len(gs) + 1) = DoneAfter(f)
  BY <1>1, <1>3 DEF StartAt, PartAt, DoneAt
<1> QED BY <1>1, <1>2, <1>4 DEF gs

\* The frame that the peer p sends next.
NextFrame(fs, f, p) ==
    /\ f \in WsFrame /\ Sensible(f)
    /\ f.start = StartAt(fs, Len(fs) + 1) /\ f.part = p.part /\ f.done = Len(p.sent)

\* q is p after that.
HasSent(p, q, f) ==
    /\ q.up = p.up /\ (p.ended \/ IsLast(f) => q.ended)
    /\ q.part = PartAfter(f)
    /\ Len(q.sent) = DoneAfter(f)
    /\ \A i \in 1..Len(p.sent) : q.sent[i] = p.sent[i]
    /\ IsData(f) /\ f.fin => q.sent[Len(p.sent) + 1] = f.part \o f.payload

LEMMA TableGrows ==
    ASSUME NEW fs, NEW p, Table(fs, p), ~p.ended, NEW f, NextFrame(fs, f, p),
           NEW q, HasSent(p, q, f)
    PROVE  Table(Append(fs, f), q)
<1> DEFINE gs == Append(fs, f)
           n == Len(fs)
<1>1. fs \in Seq(WsFrame) /\ f \in WsFrame /\ n \in Nat
  BY LenProperties DEF Table, NextFrame
<1>2. /\ gs \in Seq(WsFrame) /\ Len(gs) = n + 1
      /\ \A k \in 1..n : gs[k] = fs[k]
      /\ gs[n + 1] = f
      /\ \A k \in 1..(n + 1) :
           /\ StartAt(gs, k) = StartAt(fs, k) /\ PartAt(gs, k) = PartAt(fs, k)
           /\ DoneAt(gs, k) = DoneAt(fs, k)
      /\ StartAt(gs, Len(gs) + 1) = StartAfter(f)
      /\ PartAt(gs, Len(gs) + 1) = PartAfter(f)
      /\ DoneAt(gs, Len(gs) + 1) = DoneAfter(f)
  BY <1>1, LongerTable
<1> HIDE DEF gs
<1>3. /\ f.start \in Nat /\ Len(f.payload) \in Nat /\ f.done \in Nat
      /\ f.start <= StartAfter(f) /\ StartAfter(f) \in Nat
  BY <1>1, LenProperties DEF WsFrame, StartAfter
<1>4. /\ f.start = StartAt(fs, n + 1) /\ f.part = PartAt(fs, n + 1) /\ f.done = DoneAt(fs, n + 1)
      /\ f.done = Len(p.sent)
  BY DEF NextFrame, Table
<1>5. n + 1 \in 1..(n + 1) /\ \A k \in 1..(n + 1) : k \in 1..n \/ k = n + 1
  BY <1>1
<1>6. ASSUME NEW k \in 1..n
      PROVE  /\ fs[k].start = StartAt(gs, k) /\ fs[k].part = PartAt(gs, k)
             /\ fs[k].done = DoneAt(gs, k)
             /\ StartAfter(fs[k]) <= StartAfter(f)
             /\ Sensible(fs[k]) /\ ~IsLast(fs[k])
             /\ IsData(fs[k]) /\ fs[k].fin =>
                  fs[k].done < Len(q.sent) /\ q.sent[fs[k].done + 1] = fs[k].part \o fs[k].payload
  <2>1. k \in 1..(n + 1) /\ fs[k].start \in Nat /\ Len(fs[k].payload) \in Nat /\ fs[k].done \in Nat
    BY <1>1, FrameTypes
  <2>2. /\ fs[k].start = StartAt(fs, k) /\ fs[k].part = PartAt(fs, k)
        /\ fs[k].done = DoneAt(fs, k)
        /\ StartAfter(fs[k]) <= StartAt(fs, n + 1)
        /\ Sensible(fs[k])
        /\ IsLast(fs[k]) => p.ended
        /\ IsData(fs[k]) /\ fs[k].fin =>
             fs[k].done < Len(p.sent) /\ p.sent[fs[k].done + 1] = fs[k].part \o fs[k].payload
    BY DEF Table
  <2>3. StartAfter(fs[k]) <= StartAfter(f)
    <3>1. StartAfter(fs[k]) \in Nat
      BY <2>1 DEF StartAfter
    <3> QED BY <1>3, <1>4, <2>2, <3>1
  <2>4. Len(p.sent) <= Len(q.sent) /\ Len(p.sent) \in Nat /\ Len(q.sent) \in Nat
    BY <1>3, <1>4 DEF HasSent, DoneAfter
  <2>5. ASSUME IsData(fs[k]), fs[k].fin
        PROVE  fs[k].done < Len(q.sent) /\ q.sent[fs[k].done + 1] = fs[k].part \o fs[k].payload
    <3>1. fs[k].done + 1 \in 1..Len(p.sent)
      BY <2>1, <2>2, <2>4, <2>5
    <3>2. q.sent[fs[k].done + 1] = p.sent[fs[k].done + 1]
      BY <3>1 DEF HasSent
    <3> QED BY <2>1, <2>2, <2>4, <2>5, <3>1, <3>2
  <2> QED BY <1>2, <2>1, <2>2, <2>3, <2>5
<1>7. /\ f.start = StartAt(gs, n + 1) /\ f.part = PartAt(gs, n + 1)
      /\ f.done = DoneAt(gs, n + 1)
      /\ Sensible(f) /\ (IsLast(f) => q.ended)
      /\ IsData(f) /\ f.fin => f.done < Len(q.sent) /\ q.sent[f.done + 1] = f.part \o f.payload
  <2>1. IsData(f) /\ f.fin => Len(q.sent) = f.done + 1
    BY DEF HasSent, DoneAfter
  <2>2. /\ f.start = StartAt(gs, n + 1) /\ f.part = PartAt(gs, n + 1)
        /\ f.done = DoneAt(gs, n + 1)
    BY <1>2, <1>4, <1>5
  <2>3. Sensible(f) /\ (IsLast(f) => q.ended)
    BY DEF NextFrame, HasSent
  <2>4. IsData(f) /\ f.fin => q.sent[f.done + 1] = f.part \o f.payload
    BY <1>4 DEF HasSent
  <2>5. IsData(f) /\ f.fin => f.done < Len(q.sent)
    BY <1>3, <2>1
  <2> QED BY <2>2, <2>3, <2>4, <2>5
<1>8. ASSUME NEW k \in 1..Len(gs)
      PROVE  /\ gs[k].start = StartAt(gs, k)
             /\ gs[k].part = PartAt(gs, k)
             /\ gs[k].done = DoneAt(gs, k)
             /\ StartAfter(gs[k]) <= StartAt(gs, Len(gs) + 1)
             /\ Sensible(gs[k])
             /\ IsLast(gs[k]) => k = Len(gs) /\ q.ended
             /\ IsData(gs[k]) /\ gs[k].fin =>
                 /\ gs[k].done < Len(q.sent)
                 /\ q.sent[gs[k].done + 1] = gs[k].part \o gs[k].payload
  <2>1. CASE k \in 1..n
    BY <1>2, <1>6, <2>1
  <2>2. CASE k = n + 1
    <3>1. gs[k] = f /\ k = Len(gs) /\ StartAt(gs, Len(gs) + 1) = StartAfter(f)
      BY <1>2, <2>2
    <3>2. StartAfter(f) <= StartAfter(f)
      BY <1>3
    <3> QED BY <1>7, <2>2, <3>1, <3>2
  <2> QED BY <1>2, <1>5, <2>1, <2>2
<1>9. q.part = PartAt(gs, Len(gs) + 1) /\ Len(q.sent) = DoneAt(gs, Len(gs) + 1)
  BY <1>2 DEF HasSent
<1> QED BY <1>2, <1>8, <1>9 DEF Table, gs

FrameSent(f) == <<WsHeader(f), WsHeader(f)>> \o f.payload

LEMMA FrameUnits ==
    ASSUME NEW f \in WsFrame
    PROVE  LET e == FrameSent(f)
           IN  /\ e \in Seq(WsUnit) /\ Len(e) = 2 + Len(f.payload) /\ Len(f.payload) \in Nat
               /\ \A i \in 1..Len(e) : e[i] = UnitOf(f, i)
<1> DEFINE e == FrameSent(f)
           h == WsHeader(f)
           b == <<h, h>>
<1>1. h \in WsUnit /\ f.payload \in Seq(WsUnit) /\ Len(f.payload) \in Nat
  BY HeaderIs, LenProperties DEF WsFrame
<1> HIDE DEF h
<1>2. b \in Seq(WsUnit) /\ Len(b) = 2 /\ b[1] = h /\ b[2] = h
  BY <1>1
<1>3. e = b \o f.payload
  BY DEF h, FrameSent
<1> HIDE DEF b, e
<1>4. /\ e \in Seq(WsUnit) /\ Len(e) = Len(b) + Len(f.payload)
      /\ \A i \in 1..Len(b) : e[i] = b[i]
      /\ \A i \in 1..Len(f.payload) : e[Len(b) + i] = f.payload[i]
  <2> DEFINE g == f.payload
  <2>1. b \in Seq(WsUnit) /\ g \in Seq(WsUnit)
    BY <1>1, <1>2
  <2> HIDE DEF g
  <2>2. /\ b \o g \in Seq(WsUnit) /\ Len(b \o g) = Len(b) + Len(g)
        /\ \A i \in 1..Len(b) : (b \o g)[i] = b[i]
        /\ \A i \in 1..Len(g) : (b \o g)[Len(b) + i] = g[i]
    BY <2>1, JoinFacts
  <2> QED BY <1>3, <2>2 DEF g
<1>5. ASSUME NEW i \in 1..Len(e)
      PROVE  e[i] = UnitOf(f, i)
  <2>1. CASE i <= 2
    <3>1. i \in 1..Len(b) /\ (i = 1 \/ i = 2)
      BY <1>2, <2>1
    <3> QED BY <1>2, <1>4, <2>1, <3>1 DEF UnitOf, h
  <2>2. CASE ~(i <= 2)
    <3> DEFINE z == i - 2
    <3>1. z \in 1..Len(f.payload) /\ Len(b) + z = i
      BY <1>1, <1>2, <1>4, <2>2
    <3>2. e[Len(b) + z] = f.payload[z]
      BY <1>4, <3>1
    <3> QED BY <2>2, <3>1, <3>2 DEF UnitOf
  <2> QED BY <2>1, <2>2
<1> QED BY <1>1, <1>2, <1>4, <1>5 DEF e

LEMMA OnWayGrows ==
    ASSUME NEW fs, NEW p, Table(fs, p), NEW f \in WsFrame, f.start = StartAt(fs, Len(fs) + 1),
           NEW c, NEW s \in Seq(WsUnit), OnWay(fs, c, s, TRUE), NEW up
    PROVE  OnWay(Append(fs, f), c, s \o FrameSent(f), up)
<1> DEFINE gs == Append(fs, f)
           e == FrameSent(f)
           n == Len(fs)
           t == s \o e
<1>1. fs \in Seq(WsFrame) /\ n \in Nat /\ f.start \in Nat
  BY LenProperties DEF Table, WsFrame
<1>2. /\ gs \in Seq(WsFrame) /\ Len(gs) = n + 1
      /\ \A k \in 1..n : gs[k] = fs[k]
      /\ gs[n + 1] = f
      /\ StartAt(gs, Len(gs) + 1) = StartAfter(f)
  BY <1>1, LongerTable
<1>3. /\ e \in Seq(WsUnit) /\ Len(e) = 2 + Len(f.payload) /\ Len(f.payload) \in Nat
      /\ \A i \in 1..Len(e) : e[i] = UnitOf(f, i)
  BY FrameUnits
<1> HIDE DEF gs, e
<1>4. /\ t \in Seq(WsUnit) /\ Len(t) = Len(s) + Len(e) /\ Len(s) \in Nat
      /\ \A i \in 1..Len(s) : t[i] = s[i]
      /\ \A i \in 1..Len(e) : t[Len(s) + i] = e[i]
  <2>1. e \in Seq(WsUnit)
    BY <1>3
  <2> QED BY <2>1, JoinFacts
<1> HIDE DEF t
<1>10. Len(t) = Len(s) + Len(e) /\ Len(s) \in Nat /\ Len(e) \in Nat
  BY <1>3, <1>4
<1>5. c \in Nat /\ c + Len(s) = f.start
  BY DEF OnWay
<1>6. c + Len(t) = StartAfter(f) /\ StartAfter(f) \in Nat
  <2>1. /\ c + (Len(s) + (2 + Len(f.payload))) = (c + Len(s)) + 2 + Len(f.payload)
        /\ (c + Len(s)) + 2 + Len(f.payload) \in Nat
    <3>1. c \in Nat /\ Len(s) \in Nat /\ Len(f.payload) \in Nat
      BY <1>3, <1>5, <1>10
    <3> QED BY ONLY <3>1, SumsAgree
  <2> QED BY <1>3, <1>5, <1>10, <2>1 DEF StartAfter
<1>7. ASSUME NEW a \in 1..Len(t), NEW k \in 1..Len(gs), NEW i \in 1..(2 + Len(gs[k].payload)),
             gs[k].start + i = c + a
      PROVE  t[a] = UnitOf(gs[k], i)
  <2>1. CASE k \in 1..n
    <3>1. gs[k] = fs[k] /\ fs[k].start \in Nat /\ Len(fs[k].payload) \in Nat
      BY <1>1, <1>2, <2>1, FrameTypes
    <3>2. fs[k].start + 2 + Len(fs[k].payload) <= f.start
      BY <2>1 DEF Table, StartAfter
    <3>3. i \in 1..(2 + Len(fs[k].payload)) /\ fs[k].start + i = c + a
      BY <1>7, <3>1
    <3>4. a \in 1..Len(s)
      <4> DEFINE o == fs[k].start
                 l == Len(fs[k].payload)
                 z == f.start
                 m == Len(s)
      <4>1. o \in Nat /\ l \in Nat /\ z \in Nat /\ o + 2 + l <= z /\ i \in 1..(2 + l)
            /\ o + i = c + a /\ c + m = z /\ c \in Nat /\ m \in Nat
        BY <1>1, <1>5, <1>10, <3>1, <3>2, <3>3
      <4>2. a \in Nat /\ a >= 1
        BY <1>10
      <4> HIDE DEF o, l, z, m
      <4>3. o + i <= z
        BY <4>1
      <4>4. a \in 1..m
        BY <4>1, <4>2, <4>3
      <4> QED BY <4>4 DEF m
    <3>5. s[a] = UnitOf(fs[k], i)
      BY <2>1, <3>3, <3>4 DEF OnWay
    <3> QED BY <1>4, <3>1, <3>4, <3>5
  <2>2. CASE k = n + 1
    <3>1. gs[k] = f
      BY <1>2, <2>2
    <3>2. i \in 1..(2 + Len(f.payload)) /\ f.start + i = c + a
      BY <1>7, <3>1
    <3>3. i \in 1..Len(e) /\ a = Len(s) + i
      <4> DEFINE z == f.start
                 m == Len(s)
      <4>1. i \in 1..Len(e) /\ a \in Nat
        BY <1>3, <1>10, <3>2
      <4>2. z + i = c + a /\ c + m = z /\ c \in Nat /\ m \in Nat /\ i \in Nat
        BY <1>1, <1>3, <1>5, <1>10, <3>2, <4>1
      <4> HIDE DEF z, m
      <4>3. a = m + i
        BY <4>1, <4>2
      <4> QED BY <4>1, <4>3 DEF m
    <3> QED BY <1>3, <1>4, <3>1, <3>3
  <2>3. k \in 1..n \/ k = n + 1
    BY <1>1, <1>2
  <2> QED BY <2>1, <2>2, <2>3
<1>8. c + Len(t) <= StartAfter(f)
  BY <1>6
<1>9. OnWay(gs, c, t, up)
  BY <1>2, <1>5, <1>6, <1>7, <1>8 DEF OnWay
<1> QED BY <1>9 DEF gs, t, e

LEMMA InStreamGrows ==
    ASSUME NEW fs, NEW p, Table(fs, p), ~p.ended, p.up, NEW f, NextFrame(fs, f, p),
           NEW q, HasSent(p, q, f), NEW x, NEW u \in Seq(WsUnit), NEW l \in Seq(WsUnit), NEW d,
           d \in Seq(Seq(WsUnit)), InStream(fs, x, u, l, d, p)
    PROVE  LET e == FrameSent(f)
           IN  InStream(Append(fs, f), x, u, l \o e, d, q) /\ l \o e \in Seq(WsUnit)
<1> DEFINE gs == Append(fs, f)
           e == FrameSent(f)
           n == Len(fs)
<1>1. PICK j \in 1..(n + 1), c \in Nat :
        OnWay(fs, c, u \o l, p.up) /\ ReaderAt(fs, j, c, x, d, p)
  BY DEF InStream
<1>2. fs \in Seq(WsFrame) /\ f \in WsFrame /\ n \in Nat
  BY LenProperties DEF Table, NextFrame
<1>3. /\ gs \in Seq(WsFrame) /\ Len(gs) = n + 1
      /\ \A k \in 1..n : gs[k] = fs[k]
      /\ \A k \in 1..(n + 1) :
           /\ StartAt(gs, k) = StartAt(fs, k) /\ PartAt(gs, k) = PartAt(fs, k)
           /\ DoneAt(gs, k) = DoneAt(fs, k)
  BY <1>2, LongerTable
<1>4. u \o l \in Seq(WsUnit) /\ e \in Seq(WsUnit) /\ l \o e \in Seq(WsUnit)
  <2>1. e \in Seq(WsUnit)
    BY <1>2, FrameUnits
  <2> QED BY <2>1, JoinFacts
<1>5. (u \o l) \o e = u \o (l \o e)
  <2> HIDE DEF e
  <2> QED BY <1>4, ConcatAssociative
<1>6. OnWay(fs, c, u \o l, TRUE)
  BY <1>1 DEF OnWay
<1>7. OnWay(gs, c, u \o (l \o e), q.up)
  BY <1>2, <1>4, <1>5, <1>6, OnWayGrows DEF NextFrame
<1> HIDE DEF gs
<1>8. StandsAt(gs, j, c, x.frame, x.message, q)
  <2>1. StandsAt(fs, j, c, x.frame, x.message, p)
    BY <1>1 DEF ReaderAt
  <2>2. CASE j <= n
    <3>1. gs[j] = fs[j] /\ j # n + 1 /\ j <= Len(gs)
      BY <1>2, <1>3, <2>2
    <3> QED BY <1>3, <2>1, <2>2, <3>1 DEF StandsAt
  <2>3. CASE ~(j <= n)
    <3>1. /\ x.frame.got = 0 /\ c = StartAt(fs, j)
          /\ MessageAt(x.message, PartAt(fs, j), <<>>)
      BY <2>1, <2>3 DEF StandsAt
    <3> QED BY <1>3, <3>1 DEF StandsAt
  <2> QED BY <2>2, <2>3
<1>9. HasGot(gs, j, d, q)
  <2>1. HasGot(fs, j, d, p) /\ DoneAt(gs, j) = DoneAt(fs, j)
    BY <1>1, <1>3 DEF ReaderAt
  <2>2. Len(d) \in Nat /\ Len(p.sent) \in Nat
    <3>1. n + 1 \in 1..(n + 1)
      BY <1>2
    <3> QED BY <3>1, LenProperties, PlaceFacts DEF Table
  <2>3. Len(p.sent) <= Len(q.sent) /\ Len(q.sent) \in Nat
    <3>1. f.done = Len(p.sent)
      BY DEF NextFrame
    <3> QED BY <2>2, <3>1 DEF HasSent, DoneAfter
  <2>4. ASSUME NEW i \in 1..Len(d)
        PROVE  d[i] = q.sent[i]
    <3>1. i \in 1..Len(p.sent) /\ d[i] = p.sent[i]
      BY <2>1, <2>2 DEF HasGot
    <3> QED BY <3>1 DEF HasSent
  <2>5. Len(d) <= Len(q.sent)
    BY <2>1, <2>2, <2>3 DEF HasGot
  <2> QED BY <2>1, <2>4, <2>5 DEF HasGot
<1>10. j \in 1..(Len(gs) + 1)
  BY <1>2, <1>3
<1>11. InStream(gs, x, u, l \o e, d, q)
  BY <1>7, <1>8, <1>9, <1>10 DEF InStream, ReaderAt
<1> QED BY <1>4, <1>11 DEF gs

\* The peer goes, and what is in the network may be lost.
LEMMA InStreamCut ==
    ASSUME NEW fs, NEW x, NEW u \in Seq(WsUnit), NEW l \in Seq(WsUnit), NEW d, NEW p,
           Table(fs, p), InStream(fs, x, u, l, d, p),
           NEW q, ~q.up, q.sent = p.sent, q.ended = p.ended, NEW m \in {l, <<>>}
    PROVE  InStream(fs, x, u, m, d, q)
<1>1. PICK j \in 1..(Len(fs) + 1), c \in Nat :
        OnWay(fs, c, u \o l, p.up) /\ ReaderAt(fs, j, c, x, d, p)
  BY DEF InStream
<1>2. ReaderAt(fs, j, c, x, d, q)
  BY <1>1 DEF ReaderAt, HasGot, StandsAt
<1>3. OnWay(fs, c, u \o m, FALSE)
  <2>1. CASE m = l
    BY <1>1, <2>1 DEF OnWay
  <2>2. CASE m = <<>>
    <3>1. /\ Len(u \o l) = Len(u) + Len(l) /\ Len(u) \in Nat /\ Len(l) \in Nat
          /\ \A i \in 1..Len(u) : (u \o l)[i] = u[i]
      BY JoinFacts
    <3>2. u \o m = u
      BY <2>2, ConcatEmptySeq
    <3> DEFINE e == StartAt(fs, Len(fs) + 1)
               s == u \o l
    <3>3. /\ c + Len(s) <= e
          /\ \A a \in 1..Len(s), k \in 1..Len(fs) : \A i \in 1..(2 + Len(fs[k].payload)) :
               fs[k].start + i = c + a => s[a] = UnitOf(fs[k], i)
      BY <1>1 DEF OnWay
    <3>4. c + Len(u) <= e
      <4>1. c + Len(u) <= c + Len(s) /\ c + Len(u) \in Nat /\ c + Len(s) \in Nat
        BY <3>1
      <4>2. e \in Nat
        <5>1. Len(fs) + 1 \in 1..(Len(fs) + 1)
          BY LenProperties DEF Table
        <5> QED BY <5>1, PlaceFacts
      <4> HIDE DEF e, s
      <4> QED BY <3>3, <4>1, <4>2
    <3>5. ASSUME NEW a \in 1..Len(u), NEW k \in 1..Len(fs), NEW i \in 1..(2 + Len(fs[k].payload)),
                 fs[k].start + i = c + a
          PROVE  u[a] = UnitOf(fs[k], i)
      <4>1. a \in 1..Len(s) /\ s[a] = u[a]
        BY <3>1
      <4> HIDE DEF s
      <4> QED BY <3>3, <3>5, <4>1
    <3> QED BY <3>2, <3>4, <3>5 DEF OnWay
  <2> QED BY <2>1, <2>2
<1>4. OnWay(fs, c, u \o m, q.up)
  BY <1>3 DEF OnWay
<1> QED BY <1>2, <1>4 DEF InStream

\* Units arrive.
LEMMA FrontAndRest ==
    ASSUME NEW S, NEW l \in Seq(S), NEW n \in 0..Len(l)
    PROVE  /\ SubSeq(l, 1, n) \o Rest(l, n) = l
           /\ SubSeq(l, 1, n) \in Seq(S) /\ Rest(l, n) \in Seq(S)
           /\ Len(SubSeq(l, 1, n)) = n /\ Len(Rest(l, n)) = Len(l) - n
<1> DEFINE a == SubSeq(l, 1, n)
           b == Rest(l, n)
<1>1. Len(l) \in Nat /\ n \in Nat /\ n <= Len(l)
  BY LenProperties
<1>2. a \in Seq(S) /\ Len(a) = n /\ \A i \in 1..n : a[i] = l[i]
  BY <1>1, FrontFacts
<1>3. b \in Seq(S) /\ Len(b) = Len(l) - n /\ \A i \in 1..(Len(l) - n) : b[i] = l[i + n]
  BY RestIs
<1> HIDE DEF a, b
<1>4. /\ a \o b \in Seq(S) /\ Len(a \o b) = Len(l)
      /\ \A i \in 1..n : (a \o b)[i] = a[i]
      /\ \A i \in 1..(Len(l) - n) : (a \o b)[n + i] = b[i]
  <2>1. a \in Seq(S) /\ b \in Seq(S)
    BY <1>2, <1>3
  <2>2. /\ a \o b \in Seq(S) /\ Len(a \o b) = Len(a) + Len(b)
        /\ \A i \in 1..Len(a) : (a \o b)[i] = a[i]
        /\ \A i \in 1..Len(b) : (a \o b)[Len(a) + i] = b[i]
    BY <2>1, JoinFacts
  <2> QED BY <1>1, <1>2, <1>3, <2>2
<1>5. ASSUME NEW i \in 1..Len(l)
      PROVE  (a \o b)[i] = l[i]
  <2>1. CASE i <= n
    BY <1>1, <1>2, <1>4, <2>1
  <2>2. CASE ~(i <= n)
    <3> DEFINE z == i - n
    <3>1. z \in 1..(Len(l) - n) /\ n + z = i /\ z + n = i
      BY <1>1, <2>2
    <3>2. (a \o b)[n + z] = b[z] /\ b[z] = l[z + n]
      BY <1>3, <1>4, <3>1
    <3> QED BY <3>1, <3>2
  <2> QED BY <2>1, <2>2
<1>6. a \o b = l
  BY <1>4, <1>5, SeqEqual
<1> QED BY <1>2, <1>3, <1>6 DEF a, b

LEMMA InStreamArrives ==
    ASSUME NEW fs, NEW x, NEW u \in Seq(WsUnit), NEW l \in Seq(WsUnit), NEW d, NEW p,
           InStream(fs, x, u, l, d, p), NEW n \in 0..Len(l)
    PROVE  InStream(fs, x, u \o SubSeq(l, 1, n), Rest(l, n), d, p)
<1> DEFINE a == SubSeq(l, 1, n)
           b == Rest(l, n)
<1>1. a \o b = l /\ a \in Seq(WsUnit) /\ b \in Seq(WsUnit)
  BY FrontAndRest
<1> HIDE DEF a, b
<1>2. (u \o a) \o b = u \o (a \o b)
  <2>1. a \in Seq(WsUnit) /\ b \in Seq(WsUnit)
    BY <1>1
  <2> QED BY <2>1, ConcatAssociative
<1>3. (u \o a) \o b = u \o l
  BY <1>1, <1>2
<1>4. InStream(fs, x, u \o a, b, d, p)
  BY <1>3 DEF InStream
<1> QED BY <1>4 DEF a, b

-----------------------------------------------------------------------------
(***************************************************************************)
(* The handshake.                                                          *)
(***************************************************************************)
LEMMA AcceptedFits ==
    ASSUME NEW x, NEW k \in Nat, WsFit(x, k + 1), NEW cs, NEW y \in OnAccepted(cs),
           \A z \in cs : WsFit(z, k + 1) /\ SameReader(x, z)
    PROVE  WsFit(y, k) /\ SameReader(x, y)
<1>0. PICK w \in RespondAll(cs, 1) : y = [w EXCEPT !.accepted = @ + 1]
  BY DEF OnAccepted
<1>1. PICK z \in cs : w \in Respond(z, 1)
  BY <1>0 DEF RespondAll
<1>2. WsFit(w, k) /\ SameReader(z, w)
  BY <1>1, RespondFits
<1>3. Alike(w, y) /\ y.status = w.status
  BY <1>0, <1>2 DEF Alike, SameReader, WsFit, WsFields
<1>4. WsFit(y, k) /\ SameReader(w, y)
  BY <1>2, <1>3, FitAlike DEF WsFit
<1> QED BY <1>1, <1>2, <1>4 DEF SameReader

LEMMA HandshakeKeeps ==
    ASSUME NEW x, WsFit(x, 2), NEW u \in Seq(WsUnit), u # <<>> \/ ~ws_peer.up,
           x.headers + Len(u) <= 2, NEW r \in ReadHandshake(x, u)
    PROVE  /\ WsFit(r.c, 0) /\ r.messages = <<>> /\ r.rest = <<>>
           /\ r.c.frame = x.frame /\ r.c.message = x.message
           /\ r.c.headers = x.headers + Len(u)
<1> DEFINE n == Len(u)
           d == [x EXCEPT !.headers = @ + n]
<1>1. /\ n \in Nat /\ x.headers \in 0..2 /\ WsFit(x, 1) /\ (n = 0 <=> u = <<>>)
  <2>1. x.headers \in 0..2
    BY DEF WsFit
  <2>2. WsFit(x, 1)
    <3>1. 2 \in Nat /\ 1 \in 0..2
      OBVIOUS
    <3> QED BY <3>1, FitLess
  <2> QED BY <2>1, <2>2, LenProperties, EmptySeq
<1>2. ASSUME NEW y, WsFit(y, 0), y.frame = x.frame, y.message = x.message,
             y.headers = x.headers + n, r = Result(y, <<>>, <<>>)
      PROVE  /\ WsFit(r.c, 0) /\ r.messages = <<>> /\ r.rest = <<>>
             /\ r.c.frame = x.frame /\ r.c.message = x.message
             /\ r.c.headers = x.headers + n
  <2>1. r.c = y /\ r.rest = <<>> /\ r.messages = <<>>
    BY <1>2 DEF Result
  <2> QED BY <1>2, <2>1
<1>3. 0 + 1 = 1 /\ 1 + 1 = 2 /\ 0 \in Nat /\ 1 \in Nat /\ 2 \in Nat /\ 0 \in 0..1
  OBVIOUS
<1>4. CASE n = 0
  <2> DEFINE e == SetStatus(x, {"ERR", "CLOSE"})
  <2>1. PICK y \in Respond(e, 1) : r = Result(y, u, <<>>)
    BY <1>4 DEF ReadHandshake
  <2>2. ~ws_peer.up /\ u = <<>>
    BY <1>1, <1>4
  <2>3. WsFit(e, 1) /\ SameReader(x, e)
    <3>1. {"ERR", "CLOSE"} \in SUBSET WsStatus /\ MayErr
      BY <2>2 DEF WsStatus, MayErr
    <3> QED BY <1>1, <1>3, <3>1, FitStatus
  <2> HIDE DEF e
  <2>4. WsFit(y, 0) /\ SameReader(e, y)
    BY <1>3, <2>1, <2>3, RespondFits
  <2>5. y.headers = x.headers + n
    BY <1>1, <1>4, <2>3, <2>4 DEF SameReader
  <2> QED BY <1>2, <2>1, <2>2, <2>3, <2>4, <2>5 DEF SameReader
<1>5. CASE n # 0
  <2>1. /\ WsFit(d, 2) /\ d.frame = x.frame /\ d.message = x.message /\ d.headers = x.headers + n
    <3>1. x.headers + n \in 0..2
      BY <1>1
    <3> HIDE DEF n
    <3> QED BY <3>1 DEF WsFit, WsFields
  <2>2. /\ {} \in SUBSET WsStatus /\ {"READING"} \in SUBSET WsStatus
        /\ {"CLOSE"} \in SUBSET WsStatus
        /\ "ERR" \notin {} /\ "ERR" \notin {"READING"} /\ "ERR" \notin {"CLOSE"}
    BY DEF WsStatus
  <2>3. CASE \E i \in 1..n : u[i].kind = "bad"
    <3>1. PICK y \in Respond(d, 1) : r = Result(SetStatus(y, {"CLOSE"}), <<>>, <<>>)
      BY <1>5, <2>3 DEF ReadHandshake
    <3> HIDE DEF d
    <3>2. WsFit(y, 1) /\ SameReader(d, y)
      BY <1>3, <2>1, <3>1, RespondFits
    <3>3. WsFit(y, 0)
      BY <1>3, <3>2, FitLess
    <3>4. WsFit(SetStatus(y, {"CLOSE"}), 0) /\ SameReader(y, SetStatus(y, {"CLOSE"}))
      BY <1>3, <2>2, <3>3, FitStatus
    <3> QED BY <1>2, <2>1, <3>1, <3>2, <3>4 DEF SameReader
  <2>4. CASE ~(\E i \in 1..n : u[i].kind = "bad") /\ d.headers < 2
    <3> DEFINE cs == {SetStatus(d, {"READING"})}
    <3>1. PICK y \in OnAccepted(cs) : r = Result(y, <<>>, <<>>)
      BY <1>5, <2>4 DEF ReadHandshake
    <3> HIDE DEF d
    <3>2. WsFit(SetStatus(d, {"READING"}), 2) /\ SameReader(d, SetStatus(d, {"READING"}))
      BY <1>3, <2>1, <2>2, FitStatus
    <3>5. \A z \in cs : WsFit(z, 1 + 1) /\ SameReader(d, z)
      BY <1>3, <3>2
    <3>6. WsFit(d, 1 + 1)
      BY <1>3, <2>1
    <3> HIDE DEF cs
    <3>3. WsFit(y, 1) /\ SameReader(d, y)
      BY <1>3, <3>1, <3>5, <3>6, AcceptedFits
    <3>4. WsFit(y, 0)
      BY <1>3, <3>3, FitLess
    <3> QED BY <1>2, <2>1, <3>1, <3>3, <3>4 DEF SameReader
  <2>5. CASE ~(\E i \in 1..n : u[i].kind = "bad") /\ ~(d.headers < 2)
    <3> DEFINE cs == {SetStatus(y, {}) : y \in Respond(d, 1)}
    <3>1. PICK y \in OnAccepted(cs) : r = Result(y, <<>>, <<>>)
      BY <1>5, <2>5 DEF ReadHandshake
    <3> HIDE DEF d
    <3>2. WsFit(d, 1)
      <4>1. 1 \in 0..2
        OBVIOUS
      <4> QED BY <1>3, <2>1, <4>1, FitLess
    <3>3. ASSUME NEW z \in cs
          PROVE  WsFit(z, 1) /\ SameReader(d, z)
      <4>1. PICK y0 \in Respond(d, 1) : z = SetStatus(y0, {})
        OBVIOUS
      <4>2. WsFit(y0, 1) /\ SameReader(d, y0)
        BY <1>3, <2>1, <4>1, RespondFits
      <4>3. WsFit(SetStatus(y0, {}), 1) /\ SameReader(y0, SetStatus(y0, {}))
        BY <1>3, <2>2, <4>2, FitStatus
      <4> QED BY <4>1, <4>2, <4>3 DEF SameReader
    <3> HIDE DEF cs
    <3>4. WsFit(y, 0) /\ SameReader(d, y)
      BY <1>3, <3>1, <3>2, <3>3, AcceptedFits
    <3> QED BY <1>2, <2>1, <3>1, <3>4 DEF SameReader
  <2> QED BY <2>3, <2>4, <2>5
<1> QED BY <1>4, <1>5

-----------------------------------------------------------------------------
(***************************************************************************)
(* The invariant.                                                          *)
(***************************************************************************)
PeerFields == {"up", "asked", "ended", "frames", "controls", "part", "sent"}
PeerType(p) ==
    /\ p = [f \in PeerFields |-> p[f]]
    /\ p.up \in BOOLEAN /\ p.ended \in BOOLEAN /\ p.asked \in BOOLEAN
    /\ p.frames \in Nat /\ p.frames <= MaxWsFrames
    /\ p.part \in Seq(WsUnit) /\ p.sent \in Seq(Seq(WsUnit))

WsTypes ==
    /\ PeerType(ws_peer)
    /\ WsFit(wsc, 0)
    /\ ws_link \in Seq(WsUnit) /\ ws_socket \in Seq(WsUnit)
    /\ ws_delivered \in Seq(Seq(WsUnit))
    /\ ws_phase \in {"open", "closed"}
    /\ Got(ws_delivered)

\* A connection whose handshake is not complete.
Handshaking ==
    /\ ~ws_peer.asked =>
        wsc.headers = 0 /\ ws_link = <<>> /\ ws_socket = <<>> /\ ~ws_peer.ended
    /\ wsc.headers < 2 =>
        /\ ws_peer.sent = <<>> /\ ws_peer.part = <<>> /\ ws_delivered = <<>>
        /\ wsc.frame.got = 0 /\ wsc.message = NoMessage
        /\ wsc.headers + (Len(ws_socket) + Len(ws_link)) <= 2

Receiving ==
    wsc.headers = 2 =>
        \E fs : Table(fs, ws_peer) /\ ReadsOn(fs, wsc, ws_socket, ws_delivered)

WsReadInv == WsTypes /\ (ws_phase = "open" => Handshaking /\ Receiving)

LEMMA ReadInit == WsInit => WsReadInv
<1> SUFFICES ASSUME WsInit PROVE WsReadInv
  OBVIOUS
<1>1. <<>> \in Seq(WsUnit) /\ <<>> \in Seq(Seq(WsUnit)) /\ <<>> \in Seq(Nat) /\ Len(<<>>) = 0
  BY EmptySeq
<1>2. PeerType(NewPeer) /\ ws_peer = NewPeer
  BY <1>1, WebSocketAssumption DEF WsInit, PeerType, NewPeer, PeerFields
<1>3. WsFit(wsc, 0) /\ wsc = NewWsClient
  BY <1>1, WebSocketAssumption DEF WsInit, NewWsClient, WsFit, WsFields, NoFrame, NoMessage,
                                   MessageType
<1>4. Got(ws_delivered)
  BY <1>1, <1>2 DEF WsInit, Got, NewPeer
<1>5. WsTypes
  BY <1>1, <1>2, <1>3, <1>4 DEF WsInit, WsTypes
<1>6. Handshaking /\ Receiving
  BY <1>1, <1>2, <1>3 DEF WsInit, Handshaking, Receiving, NewPeer, NewWsClient, NoFrame
<1> QED BY <1>5, <1>6 DEF WsReadInv

LEMMA ReadUnchanged == WsReadInv /\ UNCHANGED wsVars => WsReadInv'
BY DEF WsReadInv, wsVars, WsTypes, WsFit, MayErr, Got, Handshaking, Receiving, ReadsOn

\* A step of the client that reads nothing.
LEMMA WritesOnly ==
    ASSUME WsReadInv, ws_phase = "open", WsFit(wsc', 0), SameReader(wsc, wsc'),
           UNCHANGED <<ws_peer, ws_link, ws_socket, ws_delivered>>,
           ws_phase' \in {"open", "closed"}
    PROVE  WsReadInv'
<1>1. WsTypes'
  BY DEF WsReadInv, WsTypes, WsFit, MayErr, Got
<1>2. Handshaking'
  BY DEF WsReadInv, Handshaking, SameReader
<1>3. Receiving'
  BY DEF WsReadInv, Receiving, SameReader, ReadsOn, InStream, ReaderAt
<1> QED BY <1>1, <1>2, <1>3 DEF WsReadInv

LEMMA WriteStepKeeps ==
    ASSUME WsReadInv, WsHandleWrites
    PROVE  WsReadInv'
<1>1. WsFit(wsc, 0) /\ 0 \in Nat
  BY DEF WsReadInv, WsTypes
<1>2. PICK c \in RespondNothing(wsc) :
        LET d == IF c.queue = <<>> THEN SetStatus(c, c.status \ {"SENDING"}) ELSE c
        IN  \/ wsc' = d /\ ws_phase' = "closed"
            \/ \E b \in BOOLEAN : wsc' = [d EXCEPT !.armed = b] /\ ws_phase' = ws_phase
  BY DEF WsHandleWrites
<1>3. WsFit(c, 0) /\ SameReader(wsc, c)
  BY <1>1, <1>2, RespondNothingFits
<1> DEFINE d == IF c.queue = <<>> THEN SetStatus(c, c.status \ {"SENDING"}) ELSE c
<1>4. WsFit(d, 0) /\ SameReader(wsc, d)
  <2>1. CASE c.queue = <<>>
    <3>1. c.status \ {"SENDING"} \in SUBSET WsStatus /\ ("ERR" \in c.status \ {"SENDING"} => MayErr)
      BY <1>3 DEF WsFit
    <3>2. WsFit(SetStatus(c, c.status \ {"SENDING"}), 0)
          /\ SameReader(c, SetStatus(c, c.status \ {"SENDING"}))
      BY <1>1, <1>3, <3>1, FitStatus
    <3> QED BY <1>3, <2>1, <3>2 DEF SameReader
  <2>2. CASE c.queue # <<>>
    BY <1>3, <2>2
  <2> QED BY <2>1, <2>2
<1>5. \/ wsc' = d /\ ws_phase' = "closed"
      \/ \E b \in BOOLEAN : wsc' = [d EXCEPT !.armed = b] /\ ws_phase' = ws_phase
  BY <1>2
<1> HIDE DEF d
<1>6. WsFit(wsc', 0) /\ SameReader(wsc, wsc')
  <2>1. CASE wsc' = d
    BY <1>4, <2>1
  <2>2. ASSUME NEW b \in BOOLEAN, wsc' = [d EXCEPT !.armed = b]
        PROVE  WsFit(wsc', 0) /\ SameReader(wsc, wsc')
    <3>1. Alike(d, wsc') /\ wsc'.status = d.status
      BY <1>4, <2>2 DEF Alike, SameReader, WsFit, WsFields
    <3>2. d.status \subseteq WsStatus /\ ("ERR" \in d.status => MayErr)
      BY <1>4 DEF WsFit
    <3>3. WsFit(wsc', 0) /\ SameReader(d, wsc')
      BY <1>1, <1>4, <3>1, <3>2, FitAlike
    <3> QED BY <1>4, <3>3 DEF SameReader
  <2> QED BY <1>5, <2>1, <2>2
<1>7. ws_phase = "open" /\ ws_phase' \in {"open", "closed"}
  BY <1>5 DEF WsHandleWrites
<1>8. UNCHANGED <<ws_peer, ws_link, ws_socket, ws_delivered>>
  BY DEF WsHandleWrites
<1> QED BY <1>6, <1>7, <1>8, WritesOnly

LEMMA SendStepKeeps ==
    ASSUME WsReadInv, NEW len \in Replies, Send(len)
    PROVE  WsReadInv'
<1>1. WsFit(wsc, 0) /\ Len(wsc.calls) + 1 <= MaxWsCalls /\ len \in Nat
  BY WebSocketAssumption DEF WsReadInv, WsTypes, Send, WsCallsLeft
<1>2. WsFit(wsc, 0 + 1)
  BY <1>1 DEF WsFit
<1>3. WsFit(wsc', 0) /\ SameReader(wsc, wsc')
  BY <1>1, <1>2, RespondFits DEF Send
<1> QED BY <1>3, WritesOnly DEF Send

\* A read has brought the client to r.
LEMMA ReadStepKeeps ==
    ASSUME WsReadInv, WsHandleReads
    PROVE  WsReadInv'
<1>1. PICK r \in ReadClientData(wsc, ws_socket) :
        /\ wsc' = r.c /\ ws_socket' = r.rest /\ ws_delivered' = ws_delivered \o r.messages
        /\ ws_phase' = IF Closes(r.c) THEN "closed" ELSE "open"
  BY DEF WsHandleReads, Closes
<1>2. /\ WsTypes /\ Handshaking /\ Receiving
      /\ ws_socket # <<>> \/ ~ws_peer.up
      /\ UNCHANGED <<ws_peer, ws_link>>
  BY DEF WsHandleReads, WsReadInv
<1>3. WsFit(wsc, 2) /\ 1 \in Nat /\ 2 \in Nat /\ 1 + 1 = 2 /\ 0 \in 0..1 /\ wsc.headers \in 0..2
  <2>1. Len(wsc.calls) + 2 <= MaxWsCalls
    BY DEF WsHandleReads, WsCallsLeft
  <2>2. WsFit(wsc, 0)
    BY <1>2 DEF WsTypes
  <2>3. WsFit(wsc, 2)
    BY <2>1, <2>2 DEF WsFit
  <2>4. wsc.headers \in 0..2
    BY <2>2 DEF WsFit
  <2> QED BY <2>3, <2>4
<1>4. /\ ws_socket \in Seq(WsUnit) /\ ws_link \in Seq(WsUnit) /\ ws_delivered \in Seq(Seq(WsUnit))
      /\ Len(ws_socket) \in Nat /\ Len(ws_link) \in Nat
  BY <1>2, LenProperties DEF WsTypes
<1>5. CASE wsc.headers = 2
  <2>1. PICK fs : Table(fs, ws_peer) /\ ReadsOn(fs, wsc, ws_socket, ws_delivered)
    BY <1>2, <1>5 DEF Receiving
  <2>2. r \in ReadMessage(wsc, ws_socket)
    BY <1>1, <1>5 DEF ReadClientData
  <2>3. ReadWell(fs, 1, wsc, r, ws_delivered)
    BY <1>3, <1>4, <2>1, <2>2, ReadMessageWell
  <2>4. WsFit(r.c, 0)
    BY <1>3, <2>3, FitLess DEF ReadWell
  <2>5. ws_delivered \o r.messages \in Seq(Seq(WsUnit))
    BY <1>4, <2>3, JoinFacts DEF ReadWell
  <2>6. WsTypes'
    BY <1>1, <1>2, <2>3, <2>4, <2>5 DEF WsTypes, ReadWell, WsFit, MayErr, Got
  <2>7. wsc'.headers = 2
    BY <1>1, <1>5, <2>3 DEF ReadWell
  <2>8. Handshaking'
    BY <1>2, <1>5, <2>7 DEF Handshaking
  <2>9. ws_phase' = "open" => Receiving'
    <3>1. SUFFICES ASSUME ~Closes(r.c) PROVE Receiving'
      BY <1>1
    <3>2. InStream(fs, r.c, r.rest, ws_link, ws_delivered \o r.messages, ws_peer)
      BY <2>3, <3>1 DEF ReadWell, ReadsOn
    <3>3. InStream(fs, wsc', ws_socket', ws_link', ws_delivered', ws_peer')
      BY <1>1, <1>2, <3>2
    <3>4. Table(fs, ws_peer')
      BY <1>2, <2>1
    <3> QED BY <3>3, <3>4 DEF Receiving, ReadsOn
  <2> QED BY <2>6, <2>8, <2>9 DEF WsReadInv
<1>6. CASE wsc.headers # 2
  <2>1. wsc.headers < 2
    BY <1>3, <1>6
  <2>2. /\ ws_peer.sent = <<>> /\ ws_peer.part = <<>> /\ ws_delivered = <<>>
        /\ wsc.frame.got = 0 /\ wsc.message = NoMessage
        /\ wsc.headers + (Len(ws_socket) + Len(ws_link)) <= 2
    BY <1>2, <2>1 DEF Handshaking
  <2>3. r \in ReadHandshake(wsc, ws_socket) /\ wsc.headers + Len(ws_socket) <= 2
    BY <1>1, <1>3, <1>4, <2>1, <2>2 DEF ReadClientData
  <2>4. /\ WsFit(r.c, 0) /\ r.messages = <<>> /\ r.rest = <<>>
        /\ r.c.frame = wsc.frame /\ r.c.message = wsc.message
        /\ r.c.headers = wsc.headers + Len(ws_socket)
    BY <1>2, <1>3, <1>4, <2>3, HandshakeKeeps
  <2>5. ws_delivered' = ws_delivered /\ <<>> \in Seq(WsUnit) /\ ws_socket' = <<>> /\ Len(<<>>) = 0
    BY <1>1, <1>4, <2>4, NothingPassed, EmptySeq
  <2>6. WsTypes'
    BY <1>1, <1>2, <2>4, <2>5 DEF WsTypes, WsFit, MayErr, Got
  <2>7. Handshaking'
    <3>1. ~ws_peer.asked => wsc'.headers = 0
      BY <1>1, <1>2, <2>4, <2>5 DEF Handshaking
    <3>2. wsc'.headers + (Len(ws_socket') + Len(ws_link')) <= 2
      BY <1>1, <1>2, <1>3, <1>4, <2>2, <2>4, <2>5
    <3> QED BY <1>1, <1>2, <2>2, <2>4, <2>5, <3>1, <3>2 DEF Handshaking
  <2>8. Receiving'
    <3>1. SUFFICES ASSUME wsc'.headers = 2
                   PROVE  \E fs : Table(fs, ws_peer') /\
                            InStream(fs, wsc', ws_socket', ws_link', ws_delivered', ws_peer')
      BY DEF Receiving, ReadsOn
    <3>2. ws_link' = <<>>
      <4>1. Len(ws_link) = 0
        BY <1>1, <1>3, <1>4, <2>2, <2>4, <3>1
      <4> QED BY <1>2, <1>4, <4>1, EmptySeq
    <3>3. /\ <<>> \in Seq(WsFrame) /\ Len(<<>>) = 0 /\ <<>> \o <<>> = <<>>
          /\ StartAt(<<>>, 1) = 0 /\ PartAt(<<>>, 1) = <<>> /\ DoneAt(<<>>, 1) = 0
      BY EmptySeq, ConcatEmptySeq DEF StartAt, PartAt, DoneAt
    <3>4. Table(<<>>, ws_peer')
      BY <1>2, <2>2, <3>3 DEF Table
    <3>5. OnWay(<<>>, 0, ws_socket' \o ws_link', ws_peer'.up)
      BY <2>5, <3>2, <3>3 DEF OnWay
    <3>6. MessageAt(NoMessage, <<>>, <<>>)
      BY <2>5, Freed
    <3>7. ReaderAt(<<>>, 1, 0, wsc', ws_delivered', ws_peer')
      BY <1>1, <1>2, <2>2, <2>4, <2>5, <3>3, <3>6 DEF ReaderAt, StandsAt, HasGot
    <3>8. InStream(<<>>, wsc', ws_socket', ws_link', ws_delivered', ws_peer')
      BY <3>3, <3>5, <3>7 DEF InStream
    <3> QED BY <3>4, <3>8
  <2> QED BY <2>6, <2>7, <2>8 DEF WsReadInv
<1> QED BY <1>5, <1>6

LEMMA AskStepKeeps ==
    ASSUME WsReadInv, NEW kind \in {"http", "bad"}, PeerAsks(kind)
    PROVE  WsReadInv'
<1> DEFINE b == <<[kind |-> kind], [kind |-> kind]>>
<1>1. /\ WsTypes /\ Handshaking /\ ws_peer.up /\ ~ws_peer.asked
      /\ ws_peer' = [ws_peer EXCEPT !.asked = TRUE, !.ended = (kind = "bad")]
      /\ ws_link' = ws_link \o b
      /\ UNCHANGED <<wsc, ws_socket, ws_delivered, ws_phase>>
  BY DEF PeerAsks, PeerActs, WsReadInv
<1>2. wsc.headers = 0 /\ ws_link = <<>> /\ ws_socket = <<>> /\ ~ws_peer.ended
  BY <1>1 DEF Handshaking
<1>3. b \in Seq(WsUnit) /\ Len(b) = 2
  BY DEF WsUnit
<1> HIDE DEF b
<1>4. ws_link' = b
  BY <1>1, <1>2, <1>3, ConcatEmptySeq
<1>5. /\ PeerType(ws_peer') /\ ws_peer'.asked /\ ws_peer'.sent = ws_peer.sent
      /\ ws_peer'.part = ws_peer.part /\ ws_peer'.up = ws_peer.up
  BY <1>1 DEF WsTypes, PeerType, PeerFields
<1>6. MayErr => MayErr'
  BY <1>1, <1>2, <1>5 DEF MayErr
<1>7. WsTypes'
  BY <1>1, <1>3, <1>4, <1>5, <1>6 DEF WsTypes, WsFit, Got
<1>8. Handshaking'
  <2>1. Len(ws_socket) = 0 /\ 0 + (0 + 2) <= 2
    BY <1>2, EmptySeq
  <2> QED BY <1>1, <1>2, <1>3, <1>4, <1>5, <2>1 DEF Handshaking
<1>9. Receiving'
  BY <1>1, <1>2 DEF Receiving
<1> QED BY <1>7, <1>8, <1>9 DEF WsReadInv

LEMMA GoStepKeeps ==
    ASSUME WsReadInv, PeerGoes
    PROVE  WsReadInv'
<1>1. /\ WsTypes /\ Handshaking /\ Receiving
      /\ ws_peer' = [ws_peer EXCEPT !.up = FALSE]
      /\ ws_link' \in {ws_link, <<>>}
      /\ UNCHANGED <<wsc, ws_socket, ws_delivered, ws_phase>>
  BY DEF PeerGoes, WsReadInv
<1>2. <<>> \in Seq(WsUnit) /\ Len(<<>>) = 0
      /\ ws_socket \in Seq(WsUnit) /\ ws_link \in Seq(WsUnit) /\ wsc.headers \in 0..2
      /\ Len(ws_socket) \in Nat /\ Len(ws_link) \in Nat
  BY <1>1, EmptySeq, LenProperties DEF WsTypes, WsFit
<1>3. /\ PeerType(ws_peer') /\ ws_peer'.asked = ws_peer.asked /\ ws_peer'.sent = ws_peer.sent
      /\ ws_peer'.part = ws_peer.part /\ ~ws_peer'.up /\ ws_peer'.ended = ws_peer.ended
  BY <1>1 DEF WsTypes, PeerType, PeerFields
<1>4. WsTypes'
  BY <1>1, <1>2, <1>3 DEF WsTypes, WsFit, MayErr, Got
<1>5. Handshaking'
  <2>1. Len(ws_link') \in Nat /\ Len(ws_link') <= Len(ws_link)
    BY <1>1, <1>2
  <2>2. wsc.headers < 2 => wsc.headers + (Len(ws_socket) + Len(ws_link')) <= 2
    BY <1>1, <1>2, <2>1 DEF Handshaking
  <2> QED BY <1>1, <1>3, <2>2 DEF Handshaking
<1>6. Receiving'
  <2>1. SUFFICES ASSUME wsc.headers = 2
                 PROVE  \E fs : Table(fs, ws_peer') /\
                          InStream(fs, wsc, ws_socket, ws_link', ws_delivered, ws_peer')
    BY <1>1 DEF Receiving, ReadsOn
  <2>2. PICK fs : Table(fs, ws_peer) /\ InStream(fs, wsc, ws_socket, ws_link, ws_delivered, ws_peer)
    BY <1>1, <2>1 DEF Receiving, ReadsOn
  <2>3. Table(fs, ws_peer')
    BY <1>3, <2>2 DEF Table
  <2> DEFINE q == ws_peer'
             m == ws_link'
  <2>4. /\ ~q.up /\ q.sent = ws_peer.sent /\ q.ended = ws_peer.ended
        /\ m \in {ws_link, <<>>}
    BY <1>1, <1>3
  <2> HIDE DEF q, m
  <2>5. InStream(fs, wsc, ws_socket, m, ws_delivered, q)
    BY <1>2, <2>2, <2>4, InStreamCut
  <2> QED BY <2>3, <2>5 DEF q, m
<1> QED BY <1>4, <1>5, <1>6 DEF WsReadInv

LEMMA ArriveStepKeeps ==
    ASSUME WsReadInv, NEW n \in 1..Len(ws_link), WsArrive(n)
    PROVE  WsReadInv'
<1>1. /\ WsTypes /\ Handshaking /\ Receiving
      /\ ws_socket' = ws_socket \o SubSeq(ws_link, 1, n) /\ ws_link' = Rest(ws_link, n)
      /\ UNCHANGED <<wsc, ws_peer, ws_delivered, ws_phase>>
  BY DEF WsArrive, WsReadInv
<1>2. /\ ws_socket \in Seq(WsUnit) /\ ws_link \in Seq(WsUnit)
      /\ Len(ws_socket) \in Nat /\ Len(ws_link) \in Nat
  BY <1>1, LenProperties DEF WsTypes
<1>3. n \in 0..Len(ws_link) /\ n \in Nat
  BY <1>2
<1> DEFINE a == SubSeq(ws_link, 1, n)
<1>4. /\ a \in Seq(WsUnit) /\ Rest(ws_link, n) \in Seq(WsUnit)
      /\ Len(a) = n /\ Len(Rest(ws_link, n)) = Len(ws_link) - n
  BY <1>2, <1>3, FrontAndRest
<1> HIDE DEF a
<1>5. ws_socket \o a \in Seq(WsUnit) /\ Len(ws_socket \o a) = Len(ws_socket) + Len(a)
  <2>1. a \in Seq(WsUnit)
    BY <1>4
  <2> QED BY <1>2, <2>1, JoinFacts
<1>6. WsTypes'
  BY <1>1, <1>4, <1>5 DEF WsTypes, WsFit, MayErr, Got, a
<1>7. Handshaking'
  <2>1. Len(ws_socket') + Len(ws_link') = Len(ws_socket) + Len(ws_link)
    BY <1>1, <1>2, <1>3, <1>4, <1>5 DEF a
  <2>2. ws_peer.asked
    <3>1. ws_link # <<>>
      BY <1>2, EmptySeq
    <3> QED BY <1>1, <3>1 DEF Handshaking
  <2> QED BY <1>1, <2>1, <2>2 DEF Handshaking
<1>8. Receiving'
  <2>1. SUFFICES ASSUME wsc.headers = 2
                 PROVE  \E fs : Table(fs, ws_peer) /\
                          InStream(fs, wsc, ws_socket', ws_link', ws_delivered, ws_peer)
    BY <1>1 DEF Receiving, ReadsOn
  <2>2. PICK fs : Table(fs, ws_peer) /\ InStream(fs, wsc, ws_socket, ws_link, ws_delivered, ws_peer)
    BY <1>1, <2>1 DEF Receiving, ReadsOn
  <2>3. InStream(fs, wsc, ws_socket', ws_link', ws_delivered, ws_peer)
    BY <1>1, <1>2, <1>3, <2>2, InStreamArrives
  <2> QED BY <2>2, <2>3
<1> QED BY <1>6, <1>7, <1>8 DEF WsReadInv

\* The frame that the peer sends now, at any place of the stream.
FrameNow(start, op, fin, masked, payload) ==
    [start |-> start, op |-> op, fin |-> fin, masked |-> masked, payload |-> payload,
     part |-> ws_peer.part, done |-> Len(ws_peer.sent)]
MaySend(op, fin, masked, payload, p) ==
    \A start \in Nat : /\ Sensible(FrameNow(start, op, fin, masked, payload))
                       /\ HasSent(ws_peer, p, FrameNow(start, op, fin, masked, payload))

LEMMA PeerSendsKeeps ==
    ASSUME WsReadInv, NEW op \in WsOps, NEW fin \in BOOLEAN, NEW masked \in BOOLEAN,
           NEW payload \in Seq(WsUnit), NEW p, PeerType(p), p.asked = ws_peer.asked,
           PeerSends(Frame(op, fin, masked, payload), p), MaySend(op, fin, masked, payload, p)
    PROVE  WsReadInv'
<1>1. /\ WsTypes /\ Handshaking /\ Receiving /\ ws_peer.up /\ ~ws_peer.ended
      /\ wsc.headers = 2 /\ ws_peer' = p
      /\ ws_link' = ws_link \o Frame(op, fin, masked, payload)
      /\ UNCHANGED <<wsc, ws_socket, ws_delivered, ws_phase>>
  BY DEF PeerSends, PeerActs, WsReadInv
<1>2. /\ ws_socket \in Seq(WsUnit) /\ ws_link \in Seq(WsUnit)
      /\ ws_delivered \in Seq(Seq(WsUnit))
      /\ ws_peer.part \in Seq(WsUnit) /\ ws_peer.sent \in Seq(Seq(WsUnit))
  BY <1>1 DEF WsTypes, PeerType
<1>3. Len(ws_peer.sent) \in Nat /\ Len(ws_delivered) \in Nat
  BY <1>2, LenProperties
<1>4. PICK fs : Table(fs, ws_peer) /\ InStream(fs, wsc, ws_socket, ws_link, ws_delivered, ws_peer)
  BY <1>1 DEF Receiving, ReadsOn
<1> DEFINE start == StartAt(fs, Len(fs) + 1)
           f == FrameNow(start, op, fin, masked, payload)
<1>5. start \in Nat
  <2>1. Len(fs) + 1 \in 1..(Len(fs) + 1)
    BY <1>4, LenProperties DEF Table
  <2> QED BY <1>4, <2>1, PlaceFacts
<1>6. /\ f.start = start /\ f.op = op /\ f.fin = fin /\ f.masked = masked
      /\ f.payload = payload /\ f.part = ws_peer.part /\ f.done = Len(ws_peer.sent)
      /\ f \in WsFrame
  <2> HIDE DEF start
  <2> QED BY <1>2, <1>3, <1>5 DEF FrameNow, WsFrame
<1>7. Sensible(f) /\ HasSent(ws_peer, p, f)
  <2> HIDE DEF start
  <2> QED BY <1>5 DEF MaySend
<1> HIDE DEF f
<1>8. NextFrame(fs, f, ws_peer)
  BY <1>6, <1>7 DEF NextFrame
<1>9. Table(Append(fs, f), p)
  BY <1>1, <1>4, <1>7, <1>8, TableGrows
<1>10. Frame(op, fin, masked, payload) = FrameSent(f)
  BY <1>6 DEF Frame, FrameSent, WsHeader
<1>11. /\ InStream(Append(fs, f), wsc, ws_socket, ws_link \o FrameSent(f), ws_delivered, p)
       /\ ws_link \o FrameSent(f) \in Seq(WsUnit)
  BY <1>1, <1>2, <1>4, <1>7, <1>8, InStreamGrows
<1>12. p.up = ws_peer.up /\ Got(ws_delivered)'
  <2>1. /\ p.up = ws_peer.up /\ Len(p.sent) = DoneAfter(f)
        /\ \A i \in 1..Len(ws_peer.sent) : p.sent[i] = ws_peer.sent[i]
    BY <1>7 DEF HasSent
  <2>2. Len(p.sent) \in Nat /\ Len(ws_peer.sent) <= Len(p.sent)
    BY <1>3, <1>6, <2>1 DEF DoneAfter
  <2>3. Got(ws_delivered)
    BY <1>1 DEF WsTypes
  <2> QED BY <1>1, <1>3, <2>1, <2>2, <2>3 DEF Got
<1>13. WsTypes'
  <2>1. WsFit(wsc, 0)'
    <3>1. "ERR" \in wsc.status => MayErr'
      BY <1>1, <1>12 DEF WsTypes, WsFit, MayErr
    <3> QED BY <1>1, <3>1 DEF WsTypes, WsFit
  <2>2. ws_phase' \in {"open", "closed"}
    BY <1>1 DEF WsTypes
  <2> QED BY <1>1, <1>2, <1>10, <1>11, <1>12, <2>1, <2>2 DEF WsTypes
<1>14. Handshaking'
  BY <1>1 DEF Handshaking
<1>15. Receiving'
  <2>1. Table(Append(fs, f), ws_peer')
    BY <1>1, <1>9
  <2>2. InStream(Append(fs, f), wsc', ws_socket', ws_link', ws_delivered', ws_peer')
    BY <1>1, <1>10, <1>11
  <2> QED BY <2>1, <2>2 DEF Receiving, ReadsOn
<1> QED BY <1>13, <1>14, <1>15 DEF WsReadInv

LEMMA DataStepKeeps ==
    ASSUME WsReadInv, NEW len \in DataSizes, NEW fin \in BOOLEAN, PeerSendsData(len, fin)
    PROVE  WsReadInv'
<1> DEFINE op == IF ws_peer.part = <<>> THEN "text" ELSE "continuation"
           payload == [i \in 1..len |-> [kind |-> "data", frame |-> ws_peer.frames + 1,
                                         pos |-> i]]
           whole == ws_peer.part \o payload
           r == [ws_peer EXCEPT !.frames = @ + 1, !.ended = TooLong(len),
                                !.part = IF fin THEN <<>> ELSE whole]
           p == IF fin THEN [r EXCEPT !.sent = Append(@, whole)] ELSE r
<1>1. PeerSends(Frame(op, fin, TRUE, payload), p) /\ ws_peer.frames < MaxWsFrames
  BY DEF PeerSendsData
<1>2. PeerType(ws_peer) /\ ~ws_peer.ended /\ op \in WsOps
  BY <1>1 DEF WsReadInv, WsTypes, PeerSends, WsOps
<1>3. len \in Nat /\ len > 0 /\ MaxWsFrames \in Nat
  BY WebSocketAssumption
<1>4. payload \in Seq(WsUnit) /\ Len(payload) = len /\ payload # <<>>
  <2>1. ASSUME NEW i \in 1..len
        PROVE  [kind |-> "data", frame |-> ws_peer.frames + 1, pos |-> i] \in WsUnit
    <3>1. ws_peer.frames + 1 \in Nat /\ i \in Nat
      BY <1>2, <1>3 DEF PeerType
    <3> QED BY <3>1 DEF WsUnit
  <2>2. payload \in [1..len -> WsUnit]
    BY <2>1
  <2>3. payload \in Seq(WsUnit) /\ Len(payload) = len
    BY <1>3, <2>2, SeqDef, LenProperties
  <2> QED BY <1>3, <2>3, EmptySeq
<1> HIDE DEF payload
<1>5. whole \in Seq(WsUnit) /\ <<>> \in Seq(WsUnit)
  <2>1. ws_peer.part \in Seq(WsUnit)
    BY <1>2 DEF PeerType
  <2> QED BY <1>4, <2>1, JoinFacts, EmptySeq
<1> HIDE DEF whole
<1>6. /\ r = [f \in PeerFields |-> r[f]] /\ r.up = ws_peer.up /\ r.asked = ws_peer.asked
      /\ r.ended = TooLong(len) /\ r.frames = ws_peer.frames + 1
      /\ r.part = IF fin THEN <<>> ELSE whole
      /\ r.sent = ws_peer.sent
  BY <1>2 DEF PeerType, PeerFields
<1> HIDE DEF r
<1>7. /\ p = [f \in PeerFields |-> p[f]] /\ p.up = r.up /\ p.asked = r.asked
      /\ p.ended = r.ended /\ p.frames = r.frames /\ p.part = r.part
      /\ p.sent = IF fin THEN Append(ws_peer.sent, whole) ELSE ws_peer.sent
  BY <1>6 DEF PeerFields
<1> HIDE DEF p
<1>8. /\ Append(ws_peer.sent, whole) \in Seq(Seq(WsUnit))
      /\ Len(Append(ws_peer.sent, whole)) = Len(ws_peer.sent) + 1
      /\ Len(ws_peer.sent) \in Nat
      /\ \A i \in 1..Len(ws_peer.sent) : Append(ws_peer.sent, whole)[i] = ws_peer.sent[i]
      /\ Append(ws_peer.sent, whole)[Len(ws_peer.sent) + 1] = whole
  <2>1. ws_peer.sent \in Seq(Seq(WsUnit))
    BY <1>2 DEF PeerType
  <2> QED BY <1>5, <2>1, AppendProperties, LenProperties
<1>9. PeerType(p)
  <2>1. p.frames \in Nat /\ p.frames <= MaxWsFrames
    BY <1>1, <1>2, <1>3, <1>6, <1>7 DEF PeerType
  <2>2. p.up \in BOOLEAN /\ p.ended \in BOOLEAN /\ p.asked \in BOOLEAN
    BY <1>2, <1>6, <1>7 DEF PeerType, TooLong
  <2>3. p.part \in Seq(WsUnit) /\ p.sent \in Seq(Seq(WsUnit))
    BY <1>2, <1>5, <1>6, <1>7, <1>8 DEF PeerType
  <2> QED BY <1>7, <2>1, <2>2, <2>3 DEF PeerType
<1>10. MaySend(op, fin, TRUE, payload, p)
  <2> SUFFICES ASSUME NEW start \in Nat
               PROVE  LET f == FrameNow(start, op, fin, TRUE, payload)
                      IN  Sensible(f) /\ HasSent(ws_peer, p, f)
    BY DEF MaySend
  <2> DEFINE f == FrameNow(start, op, fin, TRUE, payload)
  <2>1. /\ f.op = op /\ f.fin = fin /\ f.masked = TRUE /\ f.payload = payload
        /\ f.part = ws_peer.part /\ f.done = Len(ws_peer.sent)
    BY DEF FrameNow
  <2> HIDE DEF f
  <2>2. IsData(f) /\ Sensible(f)
    BY <1>4, <2>1 DEF IsData, Sensible
  <2>3. IsLast(f) => TooLong(len)
    BY <1>4, <2>1 DEF IsLast, Exceeds, TooLong
  <2>4. p.part = PartAfter(f) /\ f.part \o f.payload = whole
    BY <1>6, <1>7, <2>1, <2>2 DEF PartAfter, whole
  <2>5. Len(p.sent) = DoneAfter(f)
    BY <1>7, <1>8, <2>1, <2>2 DEF DoneAfter
  <2>6. \A i \in 1..Len(ws_peer.sent) : p.sent[i] = ws_peer.sent[i]
    BY <1>7, <1>8
  <2>7. IsData(f) /\ f.fin => p.sent[Len(ws_peer.sent) + 1] = f.part \o f.payload
    BY <1>7, <1>8, <2>1, <2>4
  <2>8. p.up = ws_peer.up /\ (ws_peer.ended \/ IsLast(f) => p.ended)
    BY <1>2, <1>6, <1>7, <2>3
  <2>9. HasSent(ws_peer, p, f)
    BY <2>4, <2>5, <2>6, <2>7, <2>8 DEF HasSent
  <2> QED BY <2>2, <2>9 DEF f
<1>11. p.asked = ws_peer.asked
  BY <1>6, <1>7
<1> HIDE DEF op
<1> QED BY <1>1, <1>2, <1>4, <1>9, <1>10, <1>11, PeerSendsKeeps

\* A frame that is no part of a message, after which the peer has ended or not.
EndsNow(ended) == [ws_peer EXCEPT !.controls = @ + 1, !.ended = ended]
MayInsert(op, masked, payload, ended) ==
    /\ ~masked \/ op \notin {"text", "continuation"}
    /\ op = "pong" /\ ws_peer.part # <<>> => "pong" \in Liberties
    /\ op = "close" \/ ~masked \/ TooLong(Len(payload)) => ended

LEMMA OtherFrameKeeps ==
    ASSUME WsReadInv, NEW op \in WsOps, NEW masked \in BOOLEAN, NEW payload \in Seq(WsUnit),
           NEW ended \in BOOLEAN, MayInsert(op, masked, payload, ended),
           PeerSends(Frame(op, TRUE, masked, payload), EndsNow(ended))
    PROVE  WsReadInv'
<1> DEFINE p == EndsNow(ended)
<1>1. PeerType(ws_peer) /\ ~ws_peer.ended
  BY DEF WsReadInv, WsTypes, PeerSends
<1>2. /\ p = [f \in PeerFields |-> p[f]] /\ p.up = ws_peer.up /\ p.asked = ws_peer.asked
      /\ p.ended = ended /\ p.frames = ws_peer.frames
      /\ p.part = ws_peer.part /\ p.sent = ws_peer.sent
  BY <1>1 DEF PeerType, PeerFields, EndsNow
<1>3. PeerSends(Frame(op, TRUE, masked, payload), p)
  OBVIOUS
<1> HIDE DEF p
<1>4. PeerType(p)
  BY <1>1, <1>2 DEF PeerType
<1>5. MaySend(op, TRUE, masked, payload, p)
  <2> SUFFICES ASSUME NEW start \in Nat
               PROVE  LET f == FrameNow(start, op, TRUE, masked, payload)
                      IN  Sensible(f) /\ HasSent(ws_peer, p, f)
    BY DEF MaySend
  <2> DEFINE f == FrameNow(start, op, TRUE, masked, payload)
  <2>1. /\ f.op = op /\ f.fin = TRUE /\ f.masked = masked /\ f.payload = payload
        /\ f.part = ws_peer.part /\ f.done = Len(ws_peer.sent)
    BY DEF FrameNow
  <2> HIDE DEF f
  <2>2. ~IsData(f) /\ Sensible(f)
    BY <2>1 DEF IsData, Sensible, MayInsert
  <2>3. IsLast(f) => ended
    BY <2>1 DEF IsLast, Exceeds, TooLong, MayInsert
  <2>4. HasSent(ws_peer, p, f)
    BY <1>1, <1>2, <2>1, <2>2, <2>3 DEF HasSent, PartAfter, DoneAfter
  <2> QED BY <2>2, <2>4 DEF f
<1> QED BY <1>2, <1>3, <1>4, <1>5, PeerSendsKeeps

LEMMA ControlStepKeeps ==
    ASSUME WsReadInv, NEW op \in {"ping", "pong", "close"}, NEW len \in ControlSizes,
           WsPeerSendsControl(op, len)
    PROVE  WsReadInv'
<1> DEFINE payload == [i \in 1..len |-> [kind |-> "echo"]]
           ended == (op = "close" \/ TooLong(len))
<1>1. /\ PeerSends(Frame(op, TRUE, TRUE, payload), EndsNow(ended))
      /\ op = "pong" /\ ws_peer.part # <<>> => "pong" \in Liberties
  BY DEF WsPeerSendsControl, EndsNow
<1>2. payload \in Seq(WsUnit) /\ Len(payload) = len
  <2>1. len \in Nat /\ [kind |-> "echo"] \in WsUnit
    BY WebSocketAssumption DEF WsUnit
  <2>2. payload \in [1..len -> WsUnit]
    BY <2>1
  <2> QED BY <2>1, <2>2, SeqDef, LenProperties
<1>3. op \in WsOps /\ TRUE \in BOOLEAN
  BY DEF WsOps
<1> HIDE DEF payload
<1>4. ended \in BOOLEAN /\ MayInsert(op, TRUE, payload, ended)
  BY <1>1, <1>2 DEF TooLong, MayInsert
<1> HIDE DEF ended
<1> QED BY <1>1, <1>2, <1>3, <1>4, OtherFrameKeeps

LEMMA UnmaskedStepKeeps ==
    ASSUME WsReadInv, PeerSendsUnmasked
    PROVE  WsReadInv'
<1>1. PeerSends(Frame("text", TRUE, FALSE, <<>>), EndsNow(TRUE))
  BY DEF PeerSendsUnmasked, EndsNow
<1>2. "text" \in WsOps /\ FALSE \in BOOLEAN /\ TRUE \in BOOLEAN /\ <<>> \in Seq(WsUnit)
  BY EmptySeq DEF WsOps
<1>3. MayInsert("text", FALSE, <<>>, TRUE)
  BY DEF MayInsert
<1> QED BY <1>1, <1>2, <1>3, OtherFrameKeeps

LEMMA ReadNext == WsReadInv /\ [WsNext]_wsVars => WsReadInv'
<1> SUFFICES ASSUME WsReadInv, [WsNext]_wsVars PROVE WsReadInv'
  OBVIOUS
<1>1. CASE UNCHANGED wsVars
  BY <1>1, ReadUnchanged
<1>2. CASE WsHandleReads
  BY <1>2, ReadStepKeeps
<1>3. CASE WsHandleWrites
  BY <1>3, WriteStepKeeps
<1>4. ASSUME NEW len \in Replies, Send(len) PROVE WsReadInv'
  BY <1>4, SendStepKeeps
<1>5. CASE WsRemoved
  BY <1>5 DEF WsRemoved, WsReadInv, WsTypes, WsFit, MayErr, Got
<1>6. CASE WsAccept
  <2>1. WsInit'
    BY <1>6 DEF WsAccept, WsInit
  <2> QED BY <2>1, ReadInit, PTL
<1>7. ASSUME NEW kind \in {"http", "bad"}, PeerAsks(kind) PROVE WsReadInv'
  BY <1>7, AskStepKeeps
<1>8. ASSUME NEW len \in DataSizes, NEW fin \in BOOLEAN, PeerSendsData(len, fin)
      PROVE  WsReadInv'
  BY <1>8, DataStepKeeps
<1>9. ASSUME NEW op \in {"ping", "pong", "close"}, NEW len \in ControlSizes,
             WsPeerSendsControl(op, len)
      PROVE  WsReadInv'
  BY <1>9, ControlStepKeeps
<1>10. CASE PeerSendsUnmasked
  BY <1>10, UnmaskedStepKeeps
<1>11. CASE PeerGoes
  BY <1>11, GoStepKeeps
<1>12. CASE WsNetwork
  BY <1>12, ArriveStepKeeps DEF WsNetwork
<1> QED BY <1>1, <1>2, <1>3, <1>4, <1>5, <1>6, <1>7, <1>8, <1>9, <1>10, <1>11, <1>12 DEF WsNext

-----------------------------------------------------------------------------
(***************************************************************************)
(* Theorems                                                                *)
(***************************************************************************)
\* One web socket, with a peer and a network of any liberties, frames of any
\* size, and any number of them: the reader stands in the stream of frames that
\* was sent, with what it has read of this one (ws_get_message).
THEOREM WebReadInvariance == WsSpec => []WsReadInv
<1>1. WsInit => WsReadInv
  BY ReadInit
<1>2. WsReadInv /\ [WsNext]_wsVars => WsReadInv'
  BY ReadNext
<1> QED BY <1>1, <1>2, PTL DEF WsSpec

\* What reaches on_packet is what the peer has sent, whole, once and in order,
\* and a peer that keeps to the protocol and sends no PONG inside a message is
\* not given up for an error (ws_get_frm_payload, ws_handle_ping).
THEOREM MessagesAreReceived == WsSpec => []MessagesSound
<1>1. WsReadInv => MessagesSound
  <2> SUFFICES ASSUME WsReadInv PROVE MessagesSound
    OBVIOUS
  <2>1. WsTypes /\ WsFit(wsc, 0) /\ Got(ws_delivered) /\ PeerType(ws_peer)
    BY DEF WsReadInv, WsTypes
  <2>2. WsTypeOK
    <3>1. wsc.status \subseteq {"ERR", "CLOSE", "READING", "SENDING", "THROTTLING"}
      BY <2>1 DEF WsFit, WsStatus
    <3>2. /\ wsc.headers \in 0..2 /\ wsc.frame.got \in 0..2
          /\ wsc.message.buflen <= Len(wsc.message.payload)
      BY <2>1 DEF WsFit
    <3>3. Len(wsc.calls) <= MaxWsCalls
      <4>1. Len(wsc.calls) \in Nat /\ Len(wsc.calls) + 0 <= MaxWsCalls
        BY <2>1, LenProperties DEF WsFit
      <4> QED BY <4>1
    <3>4. ws_peer.frames <= MaxWsFrames /\ ws_phase \in {"open", "closed"}
      BY <2>1 DEF PeerType, WsTypes
    <3> QED BY <3>1, <3>2, <3>3, <3>4 DEF WsTypeOK
  <2>3. MessagesIntact
    <3> DEFINE d == ws_delivered
               s == ws_peer.sent
    <3>1. d \in Seq(Seq(WsUnit)) /\ s \in Seq(Seq(WsUnit))
      BY <2>1 DEF WsTypes, PeerType
    <3>2. Len(d) \in Nat /\ Len(s) \in Nat /\ Len(d) <= Len(s) /\ \A i \in 1..Len(d) : d[i] = s[i]
      BY <2>1, <3>1, LenProperties DEF Got
    <3>3. /\ SubSeq(d, 1, Len(d)) \in Seq(Seq(WsUnit)) /\ Len(SubSeq(d, 1, Len(d))) = Len(d)
          /\ \A i \in 1..Len(d) : SubSeq(d, 1, Len(d))[i] = d[i]
      BY <3>1, <3>2, FrontFacts
    <3>4. /\ SubSeq(s, 1, Len(d)) \in Seq(Seq(WsUnit)) /\ Len(SubSeq(s, 1, Len(d))) = Len(d)
          /\ \A i \in 1..Len(d) : SubSeq(s, 1, Len(d))[i] = s[i]
      BY <3>1, <3>2, FrontFacts
    <3> HIDE DEF d, s
    <3>5. SubSeq(d, 1, Len(d)) = SubSeq(s, 1, Len(d))
      BY <3>2, <3>3, <3>4, SeqEqual
    <3>6. IsPrefix(d, s)
      BY <3>2, <3>5 DEF IsPrefix
    <3> QED BY <3>6 DEF MessagesIntact, d, s
  <2>4. "pong" \notin Liberties => NoFalseError
    BY <2>1 DEF WsFit, MayErr, NoFalseError
  <2> QED BY <2>2, <2>3, <2>4 DEF MessagesSound
<1> QED BY <1>1, WebReadInvariance, PTL

=============================================================================
