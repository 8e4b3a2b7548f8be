-------------------------------- MODULE Uris --------------------------------
(***************************************************************************)
(* The URIs of the schemes hvml (lib/utils/hvml-uri.c) and hbdrun          *)
(* (bin/utils/hbdrun-uri.c): putting one together, taking one apart into   *)
(* host, application, runner, group and page, and finding the value of a   *)
(* key in its query.                                                       *)
(*                                                                         *)
(* A URI is the sequence of the characters behind the scheme: separators   *)
(* and letters, whose case is that of the comparison.  The functions walk  *)
(* a string that ends in a zero byte; what lies behind it is not theirs.   *)
(*                                                                         *)
(* A behaviour is a URI being typed: each state is one input.              *)
(***************************************************************************)
EXTENDS Naturals, SequencesExt

CONSTANTS
    Nil,
    Letters,        \* characters that separate nothing, in a query
    PathLetters,    \* those in a path
    MaxPath,        \* bound on the length of a path
    MaxQuery        \* bound on the length of a query

UrisAssumption ==
    /\ MaxPath \in Nat /\ MaxQuery \in Nat
    /\ (Letters \cup PathLetters) \cap {"/", "?", "#", "&", "=", "end"} = {}

VARIABLES
    text,           \* the URI
    part            \* whether its path or its query is typed

uriVars == <<text, part>>

Parts == 1..5       \* host, application, runner, group, page

\* What is read at i, or Nil behind the end.
CharAt(t, i) == CASE i <= Len(t) -> t[i] [] i = Len(t) + 1 -> "end" [] OTHER -> Nil

\* How far it is from i to the first of these characters, or to the end.
Span(t, i, stops) ==
    Min({n \in 0..Len(t) : CharAt(t, i + n) \in stops \cup {"end", Nil}})

Slice(t, i, n) == SubSeq(t, i, Min({i + n - 1, Len(t)}))

-----------------------------------------------------------------------------
(***************************************************************************)
(* Taking a URI apart.                                                     *)
(***************************************************************************)
hbdrun_stops == {"/", "?"}
hvml_stops == {"/"}

get_path_comp_len(t, i, stops) == Span(t, i, stops)
get_path_trail_len(t, i) == Span(t, i, {"?", "#"})

\* Where each part begins: one behind the character that ended the one before,
\* which may be the end of the string.
Begins(t, stops) ==
    LET begin[n \in Parts] == IF n = 1 THEN 1
                              ELSE begin[n - 1] + get_path_comp_len(t, begin[n - 1], stops) + 1
    IN  begin

PartLen(t, stops, n) ==
    LET i == Begins(t, stops)[n]
    IN  IF n = 5 THEN get_path_trail_len(t, i) ELSE get_path_comp_len(t, i, stops)

PartOf(t, stops, n) == Slice(t, Begins(t, stops)[n], PartLen(t, stops, n))

\* The buffer of a part that is empty is left as it was.
hbdrun_uri_split(t, wanted) ==
    [n \in 1..wanted |-> IF PartLen(t, hbdrun_stops, n) = 0 THEN Nil
                         ELSE PartOf(t, hbdrun_stops, n)]

\* It does not look whether the part before was the last.
SplitsInside(t, wanted) == \A n \in 1..wanted : Begins(t, hbdrun_stops)[n] <= Len(t) + 1

\* Mutant: a part that is the last one is taken for a part before others.
IsPartAnywhere(t, stops, n) == PartLen(t, stops, n) > 0

\* A part is there and ends as it must; the parts before it are, too.
IsPart(t, stops, n) ==
    /\ PartLen(t, stops, n) > 0
    /\ LET i == Begins(t, stops)[n]
       IN  IF n = 5 THEN CharAt(t, i) # "/" ELSE CharAt(t, i + PartLen(t, stops, n)) = "/"

Split(t, stops, wanted) ==
    IF \A n \in 1..wanted : IsPart(t, stops, n)
    THEN [n \in 1..wanted |-> PartOf(t, stops, n)] ELSE Nil

hbdrun_uri_split_alloc(t, wanted) == Split(t, hbdrun_stops, wanted)
hvml_uri_split(t, wanted) == Split(t, hvml_stops, wanted)
hvml_uri_split_alloc(t, wanted) == hvml_uri_split(t, wanted)

-----------------------------------------------------------------------------
(***************************************************************************)
(* Putting a URI together; group and page may be Nil.                      *)
(***************************************************************************)
hvml_uri_assemble(p) ==
    p[1] \o <<"/">> \o p[2] \o <<"/">> \o p[3] \o <<"/">>
      \o (IF p[4] = Nil THEN <<>> ELSE p[4] \o <<"/">> \o (IF p[5] = Nil THEN <<>> ELSE p[5]))

\* The size hvml_uri_assemble_alloc and its twin reserve, less the scheme's.
LenOf(p) == IF p = Nil THEN 0 ELSE Len(p)
hbdrun_uri_assemble_alloc(p) == MapThenSumSet(LAMBDA n : LenOf(p[n]), Parts) + 8

-----------------------------------------------------------------------------
(***************************************************************************)
(* The query.                                                              *)
(***************************************************************************)
get_key_len(t, i) == Span(t, i, {"=", "#"})
get_value_len(t, i) == Span(t, i, {"&", "#"})

BeginsWithKey(t, i, key) == Slice(t, i, Len(key) + 1) = Append(key, "=")

\* Where the value is, or 0.  A key without a value takes the next pair for its
\* own.
locate_query_value(t, key) ==
    LET question == Span(t, 1, {"?"}) + 1
        next(i) == LET v == i + get_key_len(t, i)
                       e == v + get_value_len(t, v)
                   IN  IF CharAt(t, e) = "&" THEN e + 1 ELSE e
        value[i \in 1..Len(t) + 2] ==
            IF CharAt(t, i) \in {"end", Nil} THEN 0
            ELSE IF BeginsWithKey(t, i, key) THEN i + Len(key) + 1
            ELSE IF CharAt(t, next(i)) = "#" THEN 0 ELSE value[next(i)]
    IN  IF question > Len(t) THEN 0 ELSE value[question + 1]

\* hbdrun_uri_get_query_value and its variants: an empty value is none.
get_query_value(t, key) ==
    LET i == locate_query_value(t, key)
        n == get_value_len(t, i)
    IN  IF i = 0 \/ n = 0 THEN Nil ELSE Slice(t, i, n)

-----------------------------------------------------------------------------
(* The inputs                                                              *)

Init ==
    /\ part \in {"path", "query"}
    /\ text = IF part = "query" THEN <<"?">> ELSE <<>>

Typed(chars, max) == Len(text) < max /\ \E c \in chars : text' = Append(text, c)

Next ==
    /\ \/ part = "path" /\ Typed(PathLetters \cup {"/", "?", "#"}, MaxPath)
       \/ part = "query" /\ Typed(Letters \cup {"&", "=", "#"}, MaxQuery)
    /\ UNCHANGED part

Spec == Init /\ [][Next]_uriVars
-----------------------------------------------------------------------------
(* Properties                                                              *)

\* Taking apart undoes putting together: what is accepted is the parts with a
\* query or a fragment behind them, and fits what is reserved for it; the lax
\* function of the hbdrun scheme gives the same parts when the strict one
\* accepts, and stays inside the string if it has as many separators as parts
\* are wanted but one.
PathsSound ==
    part = "path" =>
        /\ \A stops \in {hvml_stops, hbdrun_stops} :
             LET p == Split(text, stops, 5)
             IN  p # Nil =>
                   LET uri == hvml_uri_assemble(p)
                   IN  /\ uri = SubSeq(text, 1, Len(uri))
                       /\ CharAt(text, Len(uri) + 1) \in {"?", "#", "end"}
                       /\ Len(uri) + 1 <= hbdrun_uri_assemble_alloc(p)
        /\ hbdrun_uri_split_alloc(text, 5) # Nil =>
             hbdrun_uri_split(text, 5) = hbdrun_uri_split_alloc(text, 5)
        /\ Cardinality({i \in DOMAIN text : text[i] \in hbdrun_stops}) >= 2 =>
             SplitsInside(text, 3)

\* The pairs of a query, each from a begin to the next "&" or the end.
Query == SubSeq(text, 2, Span(text, 1, {"#"}))
PairBegins == {1} \cup {i + 1 : i \in {j \in DOMAIN Query : Query[j] = "&"}}
PairAt(i) == Slice(Query, i, Span(Query, i, {"&"}))
PairsWhole == \A i \in PairBegins : \E j \in DOMAIN PairAt(i) : PairAt(i)[j] = "="
Keys == {<<a>> : a \in Letters} \cup {<<a, b>> : a, b \in Letters}

\* A key of a query whose pairs all have an "=" has the value of the first pair
\* of that key, up to the next "&" or "#", and any other key has none.
QueriesFound ==
    part = "query" /\ PairsWhole =>
        \A key \in Keys :
            LET own == {i \in PairBegins : IsPrefix(Append(key, "="), PairAt(i))}
                value == SubSeq(PairAt(Min(own)), Len(key) + 2, Len(PairAt(Min(own))))
            IN  get_query_value(text, key) = IF own = {} \/ value = <<>> THEN Nil ELSE value

\* "hvml://<host>/<app>/<runner>/[<group>/]<page>[?key1=value1&key2=value2]"
\* (hvml-uri.h): a URI without a group can be taken apart.
GroupIsOptional ==
    LET page == Begins(text, hvml_stops)[4]
    IN  /\ part = "path" /\ hvml_uri_split_alloc(text, 3) # Nil
        /\ page <= Len(text) /\ \A i \in page..Len(text) : text[i] \in PathLetters
        => hvml_uri_split_alloc(text, 5) # Nil
=============================================================================
