------------------------------ MODULE HttpHead ------------------------------
(***************************************************************************)
(* The head of the request that opens a web socket (purcmc/websocket.c):   *)
(* ws_get_handshake collects what arrives until there is an empty line,    *)
(* parses the lines and answers.                                           *)
(*                                                                         *)
(* A line is one of LineKinds and arrives in two halves, the second of     *)
(* which holds its "\r\n".                                                 *)
(*   "get"      a request line ws_parse_request can read;                  *)
(*   "garbled"  a line without a name and a colon, another request method, *)
(*              or a GET without " HTTP/1.0" and " HTTP/1.1";              *)
(*   "mention"  a field with "GET " in its value;                          *)
(*   "nul"      a line with a NUL in its first half;                       *)
(*   "empty"    an empty line;                                             *)
(*   "foreign"  an Origin other than the configured one;                   *)
(* the others are fields of that name, "other" any field not looked at.    *)
(***************************************************************************)
EXTENDS Naturals, SequencesExt, NoValue

CONSTANTS
    Texts,          \* what clients send, sequences of lines
    MaxHead         \* WS_MAX_HEAD_SZ, in halves of lines

Fields == {"host", "origin", "foreign", "upgrade", "connection", "key", "version", "other"}
LineKinds == Fields \cup {"get", "garbled", "mention", "nul", "empty"}

Headers ==
    [reading : BOOLEAN, buflen : Nat, fields : SUBSET (LineKinds \cup {"method", "path", "protocol"}),
     origin : {Nil, "origin", "foreign"}, upgrade : {Nil, "client", "websocket"}]

\* Nil is neither headers nor one of their values.
ASSUME HeadAssumption ==
    /\ Texts \subseteq Seq(LineKinds) /\ MaxHead \in Nat
    /\ Nil \notin Headers /\ Nil \notin {"origin", "foreign", "client", "websocket"}

VARIABLES
    text,           \* what this client sends
    config,         \* whether an origin is configured
    headers,        \* WSHeaders: buflen, and the fields that have been set
    status,         \* status of the client
    replies,        \* the status lines sent
    taken           \* how much has been read

headVars == <<text, config, headers, status, replies, taken>>

HeadInit ==
    /\ text \in Texts /\ config \in BOOLEAN
    /\ headers = [reading |-> TRUE, buflen |-> 0, fields |-> {}, origin |-> Nil, upgrade |-> Nil]
    /\ status = {} /\ replies = <<>> /\ taken = 0

-----------------------------------------------------------------------------
(***************************************************************************)
(* What the string functions find in a buffer of n halves: a NUL ends it   *)
(* for them.                                                               *)
(***************************************************************************)
Visible(n) ==
    LET nuls == {i \in 1..Len(text) : text[i] = "nul" /\ 2 * i - 1 <= n}
    IN  IF nuls = {} THEN n ELSE 2 * (Min(nuls) - 1)

\* strstr(buf, "\r\n\r\n"): the first empty line behind another line, or 0.
Ends(n) == {i \in 2..Len(text) : text[i] = "empty" /\ 2 * i <= Visible(n)}
HeadEnd(n) == IF Ends(n) = {} THEN 0 ELSE Min(Ends(n))

(***************************************************************************)
(* ws_parse_request, ws_set_header_key_value and ws_set_header_fields:     *)
(* the headers with one more line, or Nil.                                 *)
(***************************************************************************)
ws_parse_request(h) == [h EXCEPT !.fields = @ \cup {"method", "path", "protocol"}]

ws_set_header_key_value(h, key) ==
    IF key \in {"origin", "foreign"} THEN [h EXCEPT !.origin = key]
    ELSE IF key = "upgrade" THEN [h EXCEPT !.upgrade = "client"]
    ELSE IF key = "other" THEN h ELSE [h EXCEPT !.fields = @ \cup {key}]

\* A line with "GET " in it is taken for a request wherever it is.
ws_set_header_fields(h, line) ==
    IF line \in {"garbled", "mention", "empty"} THEN Nil
    ELSE IF line = "get" THEN ws_parse_request(h)
    ELSE ws_set_header_key_value(h, line)

\* parse_headers: the loop ends well only at a line behind which there is
\* nothing but "\r\n\r\n"; a line that is empty ends it with an error.
parse_headers(h, n) ==
    LET end == HeadEnd(n)
        after[i \in 0..end] ==
            IF i = 0 THEN h
            ELSE IF after[i - 1] = Nil THEN Nil
            ELSE ws_set_header_fields(after[i - 1], text[i])
    IN  IF Visible(n) # 2 * end THEN Nil ELSE after[end - 1]

ws_verify_req_headers(h) ==
    /\ {"host", "method", "protocol", "path", "connection", "key", "version"} \subseteq h.fields
    /\ config => h.origin = "origin"

\* ws_set_handshake_headers; a request that does not ask for an upgrade gets one.
ws_set_handshake_headers(h) ==
    [h EXCEPT !.reading = FALSE, !.upgrade = IF @ = Nil THEN "websocket" ELSE @]

-----------------------------------------------------------------------------
http_error == replies' = Append(replies, 400)

\* Mutant: the bytes of the last read are counted only.
LastRead(h, bytes) == [h EXCEPT !.buflen = bytes]

Received(h, bytes) == [h EXCEPT !.buflen = @ + bytes]

\* ws_get_handshake with a read of so many halves.
ws_get_handshake(bytes) ==
    LET h == Received(headers, bytes)
        p == parse_headers(h, h.buflen)
        Refuse == http_error /\ status' = {"CLOSE"} /\ headers' = h
    IN  /\ status \cap {"CLOSE"} = {} /\ headers.reading
        /\ taken' = taken + bytes
        /\ IF bytes = 0
           THEN http_error /\ status' = {"ERR", "CLOSE"} /\ UNCHANGED headers
           ELSE IF HeadEnd(h.buflen) = 0
           THEN IF Visible(h.buflen) < MaxHead
                THEN status' = {"READING"} /\ headers' = h /\ UNCHANGED replies
                ELSE Refuse
           ELSE IF p = Nil THEN Refuse
           ELSE IF ~ws_verify_req_headers(p) THEN Refuse
           ELSE /\ headers' = ws_set_handshake_headers(p)
                /\ replies' = Append(replies, 101) /\ status' = {}
        /\ UNCHANGED <<text, config>>

\* What has come, up to the room that is left; without room recv() gives 0.
Coming == 2 * Len(text) - taken
HeadReads ==
    LET room == MaxHead - headers.buflen
    IN  IF room = 0 THEN Coming > 0 /\ ws_get_handshake(0)
        ELSE \E bytes \in 1..Min({Coming, room}) : ws_get_handshake(bytes)

\* The client goes away.
HeadGoes == ws_get_handshake(0)

HeadNext == HeadReads \/ HeadGoes

HeadSpec == HeadInit /\ [][HeadNext]_headVars
-----------------------------------------------------------------------------
(* Properties                                                              *)

Lines(from, to) == {text[i] : i \in from..to}
FirstEmpty == Min({i \in 1..Len(text) : text[i] = "empty"} \cup {Len(text) + 1})
LastOrigin == Max({i \in 1..Len(text) : text[i] \in {"origin", "foreign"}} \cup {0})

\* A head of a web socket's request, in the words of RFC 6455, 4.2.1, but that
\* Upgrade is not asked for.
Acceptable ==
    /\ FirstEmpty = Len(text)
    /\ Lines(1, Len(text) - 1) \subseteq Fields \cup {"get"}
    /\ {"get", "host", "connection", "key", "version"} \subseteq Lines(1, Len(text))
    /\ config => LastOrigin # 0 /\ text[LastOrigin] = "origin"

\* However a request that fits is cut into reads, it is accepted when it has
\* come whole if and only if it may be; there is one answer, a client is not
\* kept waiting for it, and no read goes beyond the buffer.
HandshakeDecided ==
    LET whole == taken = 2 * Len(text)
        fits == /\ Len(text) > 1 /\ 2 * Len(text) <= MaxHead
                /\ FirstEmpty = Len(text) /\ "nul" \notin Lines(1, Len(text))
    IN  /\ headers.buflen <= MaxHead
        /\ Len(replies) = (IF status = {"READING"} \/ (taken = 0 /\ status = {}) THEN 0 ELSE 1)
        /\ ~headers.reading <=> replies = <<101>>
        /\ fits /\ ~headers.reading => whole /\ Acceptable
        /\ fits /\ whole /\ Acceptable /\ "ERR" \notin status => ~headers.reading
        /\ fits /\ whole => replies # <<>>
=============================================================================
