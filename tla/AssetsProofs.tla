---------------------------- MODULE AssetsProofs ----------------------------
(***************************************************************************)
(* Proofs about Assets: a request is answered once, with bytes that were   *)
(* read, descriptors do not leak, and where files can be removed what is    *)
(* served once is not served twice, whoever writes the files meanwhile.    *)
(***************************************************************************)
EXTENDS Assets, TLAPS

-----------------------------------------------------------------------------
(***************************************************************************)
(* Types                                                                   *)
(***************************************************************************)
Asked == [at : {"asked"}, view : Views \cup {Nil}, uri : Uris]
Loading ==
    [at : {"open", "fstat", "read", "fopen", "fread", "remove", "finish"}, file : Files,
     once : BOOLEAN, fd : Descriptors \cup {Nil}, length : Nat, read : Nat, got : Nat,
     contents : {"heap", Nil}]

TypeOK ==
    /\ sessions \in [Sessions -> Clients \cup {Nil}]
    /\ session \in [Views -> Sessions \cup {Nil}]
    /\ files \in [Files -> Nat \cup {Nil}]
    /\ handler \in {Idle} \cup Asked \cup Loading
    /\ fds \in [Descriptors -> Files \cup {Nil}]
    /\ streams \subseteq Descriptors
    /\ given \in [Files -> Nat]
    /\ requests \in Nat
    /\ undefined \in {Nil, "session", "names", "buffer"}
    /\ faults \in SUBSET Faults

(***************************************************************************)
(* The inductive invariant                                                 *)
(***************************************************************************)
\* What is served from memory was read, and what is given back is of the heap.
FromMemory(answer) ==
    answer.kind = "memory" => /\ answer.length <= answer.read
                              /\ answer.frees <=> answer.contents = "heap"

\* There is no answer while the handler is busy, and one when it has finished.
OneAnswer ==
    /\ answers = <<>> \/ \E answer : answers = <<answer>> /\ FromMemory(answer)
    /\ handler # Idle => answers = <<>>
    /\ handler = Idle /\ undefined = Nil /\ requests > 0 => answers # <<>>

\* Open descriptors are those of streams and the one of the file being loaded.
Held == {d \in Descriptors : handler \in Loading /\ handler.fd = d}
DescriptorsKept ==
    /\ {d \in Descriptors : fds[d] # Nil} = streams \cup Held
    /\ streams \cap Held = {}

\* What a step of the loading relies on.
StepsInOrder ==
    handler \in Loading =>
        /\ handler.at \in {"open", "fopen", "fread", "remove"} => handler.fd = Nil
        /\ handler.at \in {"fstat", "read"} => handler.fd # Nil
        /\ handler.at \in {"fstat", "read", "fread"} => files[handler.file] # Nil
        /\ handler.at = "fread" => shrunk \/ files[handler.file] >= handler.length
        /\ handler.at \in {"open", "fstat", "read", "fopen", "fread"} => handler.contents = Nil
        /\ handler.contents # Nil => /\ handler.read = handler.got
                                     /\ handler.fd = Nil => handler.length <= handler.got
        /\ handler.at = "finish" /\ handler.contents = Nil => handler.fd = Nil

\* A file that was loaded with once is gone, or just about to be removed, where
\* files can be.
GivenOnce ==
    "unremovable" \notin faults => \A f \in Files :
        /\ given[f] <= 1
        /\ given[f] = 1 => \/ files[f] = Nil
                           \/ handler \in Loading /\ handler.at = "remove" /\ handler.file = f

UndefinedKnown ==
    /\ undefined = "buffer" => shrunk \/ "short" \in faults
    /\ undefined = "names" => ~coverPage

IInv == TypeOK /\ OneAnswer /\ DescriptorsKept /\ StepsInOrder /\ GivenOnce /\ UndefinedKnown

-----------------------------------------------------------------------------
LEMMA Constants ==
    /\ MaxToLoad \in Nat /\ MaxSize \in Nat
    /\ Nil \notin Sessions /\ Nil \notin Clients /\ Nil \notin Descriptors /\ Nil \notin Nat
    /\ Nil \notin Files
    /\ Nil # "heap" /\ Nil # "session" /\ Nil # "names" /\ Nil # "buffer"
BY AssetsAssumption, NoFile

\* The handler is in one of three states.
LEMMA Handlers ==
    /\ \A h \in Loading : h # Idle /\ h \notin Asked /\ h.at \notin {"idle", "asked"}
    /\ \A h \in Asked : h # Idle /\ h \notin Loading /\ h.at = "asked"
    /\ Idle \notin Loading /\ Idle \notin Asked /\ Idle.at = "idle"
<1>1. \A h \in Loading : h.at \in {"open", "fstat", "read", "fopen", "fread", "remove", "finish"}
  BY DEF Loading
<1>2. \A h \in Asked : h.at = "asked"
  BY DEF Asked
<1>3. Idle.at = "idle"
  BY DEF Idle
<1>4. QED
  BY <1>1, <1>2, <1>3

LEMMA InitIInv == Init => IInv
<1> SUFFICES ASSUME Init PROVE IInv
  OBVIOUS
<1>1. handler \notin Loading
  BY Handlers DEF Init
<1>2. TypeOK
  BY Constants DEF Init, TypeOK
<1>3. OneAnswer
  BY Constants DEF Init, OneAnswer
<1>4. DescriptorsKept
  BY <1>1 DEF Init, DescriptorsKept, Held
<1>5. StepsInOrder /\ GivenOnce /\ UndefinedKnown
  BY <1>1, Constants DEF Init, StepsInOrder, GivenOnce, UndefinedKnown
<1>6. QED
  BY <1>2, <1>3, <1>4, <1>5 DEF IInv

-----------------------------------------------------------------------------
(***************************************************************************)
(* Steps.  A step of the handler ends with an answer, goes on loading, or   *)
(* uses what is not there.                                                  *)
(***************************************************************************)
Same == UNCHANGED <<sessions, session, coverPage, faults>>

\* The parts of the invariant that concern descriptors and files only depend on
\* what the handler does with them.
LEMMA Finished ==
    ASSUME IInv, handler # Idle, handler' = Idle, UNCHANGED <<files, given, requests, streams>>,
           Same, undefined' = undefined, shrunk' = shrunk,
           NEW answer, answers' = Append(answers, answer), FromMemory(answer),
           handler \in Loading => handler.at # "remove",
           fds' \in [Descriptors -> Files \cup {Nil}],
           {d \in Descriptors : fds'[d] # Nil} = streams
    PROVE  IInv'
<1>1. handler' \notin Loading
  BY Handlers
<1>2. TypeOK'
  BY DEF IInv, TypeOK, Same
<1>3. answers' = <<answer>>
  BY DEF IInv, OneAnswer
<1>4. OneAnswer'
  BY <1>3 DEF OneAnswer
<1>5. DescriptorsKept'
  BY <1>1 DEF DescriptorsKept, Held
<1>6. GivenOnce'
  BY DEF IInv, GivenOnce, Same
<1>7. QED
  BY <1>1, <1>2, <1>4, <1>5, <1>6 DEF IInv, StepsInOrder, UndefinedKnown, Same


\* The handler goes on loading the same file, with what it keeps open.
LEMMA GoesOn ==
    ASSUME IInv, handler \in Loading, handler' \in Loading, handler'.file = handler.file,
           UNCHANGED <<given, requests, streams, answers>>, Same, undefined' = undefined,
           shrunk' = shrunk, files' \in [Files -> Nat \cup {Nil}],
           "unremovable" \notin faults => \A f \in Files : given[f] = 1 =>
               \/ files'[f] = Nil
               \/ files'[f] = files[f] /\ (handler.at = "remove" => handler'.at = "remove"),
           fds' \in [Descriptors -> Files \cup {Nil}],
           DescriptorsKept', StepsInOrder'
    PROVE  IInv'
<1>1. TypeOK'
  BY DEF IInv, TypeOK, Same
<1>2. OneAnswer'
  BY Handlers DEF IInv, OneAnswer
<1>3. GivenOnce'
  BY DEF IInv, GivenOnce, TypeOK, Same
<1>4. QED
  BY <1>1, <1>2, <1>3 DEF IInv, UndefinedKnown, Same

LEMMA OpenStep == ASSUME IInv, Open PROVE IInv'
<1>1. /\ handler.at = "open" /\ shrunk' = shrunk /\ requests' = requests /\ Same
      /\ UNCHANGED <<files, streams, given, undefined>>
  BY DEF Open, Step, worldVars, Same
<1>2. handler \in Loading /\ handler # Idle /\ handler.fd = Nil /\ handler.contents = Nil
  BY <1>1, Handlers, Constants DEF IInv, TypeOK, StepsInOrder
<1>3. Held = {}
  BY <1>2, Constants DEF Held
<1>4. CASE Failed /\ UNCHANGED fds
  <2>1. /\ handler' = Idle /\ answers' = Append(answers, [kind |-> "error"])
    BY <1>4 DEF Failed, FinishError, Answer
  <2>2. FromMemory([kind |-> "error"])
    BY DEF FromMemory
  <2>3. {d \in Descriptors : fds'[d] # Nil} = streams
    BY <1>3, <1>4 DEF IInv, DescriptorsKept
  <2>4. QED
    BY <1>1, <1>2, <1>4, <2>1, <2>2, <2>3, Finished DEF IInv, TypeOK
<1>5. ASSUME files[handler.file] # Nil, NEW d \in Descriptors, fds[d] = Nil,
             fds' = [fds EXCEPT ![d] = handler.file],
             handler' = [handler EXCEPT !.at = "fstat", !.fd = d], answers' = answers
      PROVE  IInv'
  <2>1. /\ handler' \in Loading /\ handler'.file = handler.file /\ handler'.at = "fstat"
        /\ handler'.fd = d /\ handler'.contents = handler.contents /\ handler.file \in Files
    BY <1>2, <1>5 DEF Loading
  <2>2. /\ fds' \in [Descriptors -> Files \cup {Nil}] /\ d \notin streams
        /\ \A e \in Descriptors : fds'[e] # Nil <=> e = d \/ fds[e] # Nil
    BY <1>3, <1>5, <2>1, Constants DEF IInv, TypeOK, DescriptorsKept
  <2>3. Held' = {d}
    BY <2>1 DEF Held
  <2>4. DescriptorsKept'
    BY <1>1, <1>3, <2>2, <2>3 DEF IInv, DescriptorsKept
  <2>5. StepsInOrder'
    BY <1>1, <1>2, <1>5, <2>1, Constants DEF StepsInOrder
  <2>6. QED
    BY <1>1, <1>2, <1>5, <2>1, <2>2, <2>4, <2>5, GoesOn DEF IInv, TypeOK, GivenOnce
<1>6. QED
  BY <1>4, <1>5 DEF Open

LEMMA FStatStep == ASSUME IInv, FStat PROVE IInv'
<1>1. /\ handler.at = "fstat" /\ shrunk' = shrunk /\ requests' = requests /\ Same
      /\ UNCHANGED <<files, fds, streams, answers, given, undefined>>
      /\ handler' = [handler EXCEPT !.at = "read", !.length = files[handler.file]]
  BY DEF FStat, Step, worldVars, Same
<1>2. handler \in Loading /\ handler # Idle /\ files[handler.file] # Nil /\ handler.contents = Nil
      /\ handler.fd # Nil
  BY <1>1, Handlers DEF IInv, TypeOK, StepsInOrder
<1>3. handler.file \in Files /\ files[handler.file] \in Nat
  BY <1>2 DEF IInv, TypeOK, Loading
<1>4. /\ handler' \in Loading /\ handler'.file = handler.file /\ handler'.at = "read"
      /\ handler'.fd = handler.fd /\ handler'.contents = handler.contents
  BY <1>1, <1>2, <1>3 DEF Loading
<1>5. Held' = Held
  BY <1>2, <1>4 DEF Held
<1>6. DescriptorsKept'
  BY <1>1, <1>5 DEF IInv, DescriptorsKept
<1>7. StepsInOrder'
  BY <1>1, <1>2, <1>4, Constants DEF StepsInOrder
<1>8. QED
  BY <1>1, <1>2, <1>4, <1>6, <1>7, GoesOn DEF IInv, TypeOK, GivenOnce

LEMMA ReadableType ==
    ASSUME IInv, handler \in Loading, handler.at = "read"
    PROVE  Readable \in Nat
<1> DEFINE S == {files[handler.file], handler.length, MaxToLoad}
<1>1. S \subseteq Nat
  BY Constants DEF IInv, TypeOK, StepsInOrder, Loading
<1>2. \E x \in S : \A y \in S : x <= y
  BY <1>1
<1>3. Min(S) \in S
  BY <1>2 DEF Min
<1>4. QED
  BY <1>1, <1>3 DEF Readable

LEMMA ReadStep == ASSUME IInv, Read PROVE IInv'
<1>1. /\ handler.at = "read" /\ shrunk' = shrunk /\ requests' = requests /\ Same
      /\ UNCHANGED <<files, streams, given, undefined>>
  BY DEF Read, Step, worldVars, Same
<1>2. handler \in Loading /\ handler # Idle /\ handler.fd \in Descriptors
  BY <1>1, Handlers DEF IInv, TypeOK, StepsInOrder, Loading
<1>3. Held = {handler.fd}
  BY <1>2 DEF Held
<1>4. CASE Failed /\ fds' = [fds EXCEPT ![handler.fd] = Nil]
  <2>1. /\ handler' = Idle /\ answers' = Append(answers, [kind |-> "error"])
    BY <1>4 DEF Failed, FinishError, Answer
  <2>2. FromMemory([kind |-> "error"])
    BY DEF FromMemory
  <2>3. /\ fds' \in [Descriptors -> Files \cup {Nil}]
        /\ {d \in Descriptors : fds'[d] # Nil} = streams
    BY <1>2, <1>3, <1>4 DEF IInv, TypeOK, DescriptorsKept
  <2>4. QED
    BY <1>1, <1>2, <2>1, <2>2, <2>3, Finished
<1>5. ASSUME NEW bytes \in IF "short" \in faults THEN 0..Readable ELSE {Readable},
             handler' = [handler EXCEPT !.at = "finish", !.contents = "heap", !.got = bytes,
                           !.read = bytes],
             UNCHANGED <<fds, answers>>
      PROVE  IInv'
  <2>1. bytes \in Nat
    BY <1>1, <1>2, ReadableType
  <2>2. /\ handler' \in Loading /\ handler'.file = handler.file /\ handler'.at = "finish"
        /\ handler'.fd = handler.fd /\ handler'.read = handler'.got /\ handler'.contents = "heap"
    BY <1>2, <1>5, <2>1 DEF Loading
  <2>3. Held' = Held
    BY <1>2, <2>2 DEF Held
  <2>4. DescriptorsKept'
    BY <1>1, <1>5, <2>3 DEF IInv, DescriptorsKept
  <2>5. StepsInOrder'
    BY <1>2, <2>2, Constants DEF StepsInOrder
  <2>6. QED
    BY <1>1, <1>2, <1>5, <2>2, <2>4, <2>5, GoesOn DEF IInv, TypeOK, GivenOnce
<1>6. QED
  BY <1>4, <1>5 DEF Read


LEMMA FOpenStep == ASSUME IInv, FOpen PROVE IInv'
<1>1. /\ handler.at = "fopen" /\ shrunk' = shrunk /\ requests' = requests /\ Same
      /\ UNCHANGED <<files, fds, streams, given, undefined>>
  BY DEF FOpen, Step, worldVars, Same
<1>2. /\ handler \in Loading /\ handler # Idle /\ handler.fd = Nil /\ handler.contents = Nil
      /\ handler.file \in Files
  BY <1>1, Handlers DEF IInv, TypeOK, StepsInOrder, Loading
<1>3. Held = {}
  BY <1>2, Constants DEF Held
<1>4. CASE Failed
  <2>1. /\ handler' = Idle /\ answers' = Append(answers, [kind |-> "error"])
    BY <1>4 DEF Failed, FinishError, Answer
  <2>2. FromMemory([kind |-> "error"])
    BY DEF FromMemory
  <2>3. {d \in Descriptors : fds'[d] # Nil} = streams
    BY <1>1, <1>3 DEF IInv, DescriptorsKept
  <2>4. QED
    BY <1>1, <1>2, <2>1, <2>2, <2>3, Finished DEF IInv, TypeOK
<1>5. CASE /\ files[handler.file] # Nil /\ answers' = answers
           /\ \/ handler' = [handler EXCEPT !.at = "fread", !.length = files[handler.file]]
              \/ handler' = [handler EXCEPT !.at = "remove"]
  <2>1. files[handler.file] \in Nat
    BY <1>2, <1>5 DEF IInv, TypeOK
  <2>2. /\ handler' \in Loading /\ handler'.file = handler.file /\ handler'.fd = Nil
        /\ handler'.contents = Nil
        /\ \/ handler'.at = "fread" /\ handler'.length = files[handler.file]
           \/ handler'.at = "remove"
    BY <1>2, <1>5, <2>1 DEF Loading
  <2>3. Held' = {}
    BY <2>2, Constants DEF Held
  <2>4. DescriptorsKept'
    BY <1>1, <1>3, <2>3 DEF IInv, DescriptorsKept
  <2>5. StepsInOrder'
    BY <1>1, <1>2, <1>5, <2>1, <2>2, Constants DEF StepsInOrder
  <2>6. QED
    BY <1>1, <1>2, <1>5, <2>2, <2>4, <2>5, GoesOn DEF IInv, TypeOK, GivenOnce
<1>6. QED
  BY <1>4, <1>5 DEF FOpen

LEMMA FReadStep == ASSUME IInv, FRead PROVE IInv'
<1>1. /\ handler.at = "fread" /\ shrunk' = shrunk /\ requests' = requests /\ Same
      /\ UNCHANGED <<files, fds, streams, answers>>
  BY DEF FRead, Step, worldVars, Same
<1>2. /\ handler \in Loading /\ handler # Idle /\ handler.fd = Nil /\ handler.file \in Files
      /\ files[handler.file] \in Nat /\ handler.length \in Nat
      /\ shrunk \/ files[handler.file] >= handler.length
  BY <1>1, Handlers DEF IInv, TypeOK, StepsInOrder, Loading
<1>3. Held = {} /\ answers = <<>>
  BY <1>2, Constants DEF Held, IInv, OneAnswer
<1>4. ASSUME files[handler.file] < handler.length \/ "short" \in faults,
             undefined' = "buffer", handler' = Idle, UNCHANGED given
      PROVE  IInv'
  <2>1. (shrunk \/ "short" \in faults) /\ handler' \notin Loading
    BY <1>2, <1>4, Handlers
  <2>2. TypeOK'
    BY <1>1, <1>4 DEF IInv, TypeOK, Same
  <2>3. OneAnswer'
    BY <1>1, <1>3, <1>4, Constants DEF OneAnswer
  <2>4. DescriptorsKept'
    BY <1>1, <1>3, <2>1 DEF IInv, DescriptorsKept, Held
  <2>5. GivenOnce'
    BY <1>1, <1>2, <1>4 DEF IInv, GivenOnce, Same
  <2>6. QED
    BY <1>1, <1>4, <2>1, <2>2, <2>3, <2>4, <2>5 DEF IInv, StepsInOrder, UndefinedKnown, Same
<1>5. ASSUME handler' = [handler EXCEPT !.at = "remove", !.contents = "heap",
                           !.read = handler.length, !.got = handler.length],
             given' = [given EXCEPT ![handler.file] = @ + 1], undefined' = undefined
      PROVE  IInv'
  <2>1. /\ handler' \in Loading /\ handler' # Idle /\ handler'.file = handler.file
        /\ handler'.at = "remove" /\ handler'.fd = Nil /\ handler'.contents = "heap"
        /\ handler'.length = handler.length /\ handler'.read = handler.length
        /\ handler'.got = handler.length
    BY <1>2, <1>5, Handlers DEF Loading
  <2>2. Held' = {}
    BY <2>1, Constants DEF Held
  <2>3. "unremovable" \notin faults => given[handler.file] = 0
    BY <1>1, <1>2, Constants DEF IInv, TypeOK, GivenOnce
  <2>4. /\ given' \in [Files -> Nat]
        /\ "unremovable" \notin faults => given'[handler.file] = 1
        /\ \A f \in Files : f # handler.file => given'[f] = given[f]
    BY <1>2, <1>5, <2>3 DEF IInv, TypeOK
  <2>5. TypeOK'
    BY <1>1, <1>5, <2>1, <2>4 DEF IInv, TypeOK, Same
  <2>6. OneAnswer'
    BY <1>1, <1>3, <2>1 DEF OneAnswer
  <2>7. DescriptorsKept'
    BY <1>1, <1>3, <2>2 DEF IInv, DescriptorsKept
  <2>8. StepsInOrder'
    BY <1>2, <2>1 DEF StepsInOrder
  <2>9. GivenOnce'
    BY <1>1, <2>1, <2>4 DEF IInv, GivenOnce, Same
  <2>10. QED
    BY <1>1, <1>5, <2>5, <2>6, <2>7, <2>8, <2>9 DEF IInv, UndefinedKnown, Same
<1>6. QED
  BY <1>4, <1>5 DEF FRead

LEMMA RemoveFileStep == ASSUME IInv, RemoveFile PROVE IInv'
<1>1. /\ handler.at = "remove" /\ shrunk' = shrunk /\ requests' = requests /\ Same
      /\ UNCHANGED <<fds, streams, answers, given, undefined>>
      /\ \/ files' = [files EXCEPT ![handler.file] = Nil]
         \/ "unremovable" \in faults /\ files' = files
      /\ handler' = [handler EXCEPT !.at = "finish"]
  BY DEF RemoveFile, Step, worldVars, Same
<1>2. /\ handler \in Loading /\ handler # Idle /\ handler.fd = Nil /\ handler.file \in Files
      /\ handler.contents # Nil => /\ handler.read = handler.got
                                   /\ handler.length <= handler.got
  BY <1>1, Handlers DEF IInv, TypeOK, StepsInOrder, Loading
<1>3. /\ handler' \in Loading /\ handler'.file = handler.file /\ handler'.at = "finish"
      /\ handler'.fd = handler.fd /\ handler'.contents = handler.contents
      /\ handler'.read = handler.read /\ handler'.got = handler.got
      /\ handler'.length = handler.length
  BY <1>1, <1>2 DEF Loading
<1>4. /\ files' \in [Files -> Nat \cup {Nil}]
      /\ "unremovable" \notin faults => files'[handler.file] = Nil
      /\ \A f \in Files : f # handler.file => files'[f] = files[f]
  BY <1>1, <1>2 DEF IInv, TypeOK
<1>5. "unremovable" \notin faults => \A f \in Files : given[f] = 1 => files'[f] = Nil
  BY <1>4 DEF IInv, GivenOnce
<1>6. Held' = Held
  BY <1>2, <1>3 DEF Held
<1>7. DescriptorsKept'
  BY <1>1, <1>6 DEF IInv, DescriptorsKept
<1>8. StepsInOrder'
  BY <1>2, <1>3 DEF StepsInOrder
<1>9. QED
  BY <1>1, <1>2, <1>3, <1>4, <1>5, <1>7, <1>8, GoesOn DEF IInv, TypeOK

LEMMA FinishStep == ASSUME IInv, Finish PROVE IInv'
<1>1. /\ handler.at = "finish" /\ shrunk' = shrunk /\ requests' = requests /\ Same
      /\ UNCHANGED <<files, given, undefined>> /\ handler' = Idle
  BY DEF Finish, Step, worldVars, Same
<1>2. /\ handler \in Loading /\ handler # Idle /\ handler.fd \in Descriptors \cup {Nil}
      /\ handler.length \in Nat /\ handler.read \in Nat /\ handler.got \in Nat
  BY <1>1, Handlers DEF IInv, TypeOK, Loading
<1>3. Held = {d \in Descriptors : d = handler.fd}
  BY <1>2 DEF Held
<1>4. /\ fds \in [Descriptors -> Files \cup {Nil}] /\ streams \subseteq Descriptors
      /\ {d \in Descriptors : fds[d] # Nil} = streams \cup Held /\ streams \cap Held = {}
  BY DEF IInv, TypeOK, DescriptorsKept
<1>5. CASE handler.contents = Nil /\ FinishError /\ UNCHANGED <<fds, streams>>
  <2>1. /\ answers' = Append(answers, [kind |-> "error"])
    BY <1>5 DEF FinishError, Answer
  <2>2. FromMemory([kind |-> "error"])
    BY DEF FromMemory
  <2>3. handler.fd = Nil
    BY <1>1, <1>2, <1>5 DEF IInv, StepsInOrder
  <2>4. {d \in Descriptors : fds'[d] # Nil} = streams
    BY <1>3, <1>4, <1>5, <2>3, Constants
  <2>5. QED
    BY <1>1, <1>2, <1>4, <1>5, <2>1, <2>2, <2>4, Finished
<1>6. CASE /\ handler.fd # Nil /\ UnixStream(handler.fd, handler.length)
           /\ streams' = streams \cup {handler.fd} /\ UNCHANGED fds
  <2>1. answers = <<>>
    BY <1>2 DEF IInv, OneAnswer
  <2>2. answers' = <<[kind |-> "unix", fd |-> handler.fd, length |-> handler.length]>>
    BY <1>6, <2>1 DEF UnixStream, Answer
  <2>3. FromMemory([kind |-> "unix", fd |-> handler.fd, length |-> handler.length])
    BY DEF FromMemory
  <2>4. handler' \notin Loading
    BY <1>1, Handlers
  <2>5. TypeOK'
    BY <1>1, <1>2, <1>4, <1>6 DEF IInv, TypeOK, Same
  <2>6. OneAnswer'
    BY <1>1, <2>2, <2>3 DEF OneAnswer
  <2>7. DescriptorsKept'
    BY <1>2, <1>3, <1>4, <1>6, <2>4 DEF DescriptorsKept, Held
  <2>8. GivenOnce'
    BY <1>1, <1>2 DEF IInv, GivenOnce, Same
  <2>9. QED
    BY <1>1, <2>4, <2>5, <2>6, <2>7, <2>8 DEF IInv, StepsInOrder, UndefinedKnown, Same
<1>7. CASE /\ handler.contents # Nil /\ ~(handler.length > handler.read /\ handler.fd # Nil)
           /\ MemoryStream("heap", handler.length, handler.got)
           /\ fds' = [d \in Descriptors |-> IF d = handler.fd THEN Nil ELSE fds[d]]
           /\ UNCHANGED streams
  <2> DEFINE answer == [kind |-> "memory", contents |-> "heap", length |-> handler.length,
                        read |-> handler.got, frees |-> "heap" \notin {"cover", "blank"}]
  <2>1. answers' = Append(answers, answer)
    BY <1>7 DEF MemoryStream, Answer
  <2>2. handler.length <= handler.got
    BY <1>2, <1>7 DEF IInv, StepsInOrder
  <2>3. FromMemory(answer)
    BY <2>2 DEF FromMemory
  <2>4. /\ fds' \in [Descriptors -> Files \cup {Nil}]
        /\ {d \in Descriptors : fds'[d] # Nil} = streams
    BY <1>3, <1>4, <1>7
  <2> HIDE DEF answer
  <2>5. QED
    BY <1>1, <1>2, <1>7, <2>1, <2>3, <2>4, Finished
<1>8. QED
  BY <1>5, <1>6, <1>7 DEF Finish

-----------------------------------------------------------------------------
(***************************************************************************)
(* A request, and what becomes of it                                       *)
(***************************************************************************)
LEMMA RequestStep ==
    ASSUME IInv, NEW view \in Views \cup {Nil}, NEW uri \in Uris, Request(view, uri),
           undefined = Nil
    PROVE  IInv'
<1>1. /\ handler = Idle /\ requests' = requests + 1 /\ answers' = <<>>
      /\ handler' = [at |-> "asked", view |-> view, uri |-> uri]
      /\ UNCHANGED <<files, fds, streams, given, undefined>> /\ Same
  BY DEF Request, worldVars, Same
<1>2. handler' \in Asked
  BY <1>1 DEF Asked
<1>3. handler' # Idle /\ handler' \notin Loading /\ handler \notin Loading
  BY <1>1, <1>2, Handlers
<1>4. TypeOK'
  BY <1>1, <1>2 DEF IInv, TypeOK, Same
<1>5. OneAnswer'
  BY <1>1, <1>3 DEF OneAnswer
<1>6. DescriptorsKept'
  BY <1>1, <1>3 DEF IInv, DescriptorsKept, Held
<1>7. GivenOnce' /\ UndefinedKnown'
  BY <1>1, <1>3, Constants DEF IInv, GivenOnce, UndefinedKnown, Same
<1>8. QED
  BY <1>3, <1>4, <1>5, <1>6, <1>7 DEF IInv, StepsInOrder

\* What can become of a request: it is answered, a file is going to be loaded,
\* or something is used that is not there.
Answered ==
    /\ handler' = Idle /\ undefined' = undefined
    /\ \E answer : answers' = Append(answers, answer) /\ FromMemory(answer)
Loads == \E file \in Files, once \in BOOLEAN : Load(file, once)
Undefined ==
    /\ handler' = Idle /\ answers' = answers
    /\ undefined' \in {"session", "names", "buffer"}
    /\ undefined' = "names" => ~coverPage
    /\ undefined' = "buffer" => "short" \in faults

LEMMA Pages ==
    ASSUME NEW uri, NEW contents, Page(uri, contents),
           contents # DefaultPage => contents = "blank" /\ uri.valid = "yes"
    PROVE  Answered \/ Undefined
<1>1. /\ handler' = Idle /\ FinishPage(uri, contents)
      /\ contents = "cover" => coverPage
      /\ contents # "cover" => contents = "blank"
      /\ uri.valid = "names" /\ contents = "blank" => ~coverPage
  BY DEF Page, DefaultPage
<1>2. ASSUME NEW c, c \in {"cover", "blank", "heap"}, MemoryStream(c, 1, 1)
      PROVE  \E answer : answers' = Append(answers, answer) /\ FromMemory(answer)
  <2> DEFINE answer == [kind |-> "memory", contents |-> c, length |-> 1, read |-> 1,
                        frees |-> c \notin {"cover", "blank"}]
  <2>1. answers' = Append(answers, answer)
    BY <1>2 DEF MemoryStream, Answer
  <2>2. answer.length = 1 /\ answer.read = 1
    OBVIOUS
  <2>3. answer.frees = (c \notin {"cover", "blank"}) /\ answer.contents = c
    OBVIOUS
  <2> HIDE DEF answer
  <2>4. answer.frees <=> answer.contents = "heap"
    BY <1>2, <2>3
  <2>5. FromMemory(answer)
    BY <2>2, <2>4 DEF FromMemory
  <2>6. QED
    BY <2>1, <2>5
<1>3. CASE contents = "cover"
  BY <1>1, <1>2, <1>3 DEF FinishPage, Answered
<1>4. CASE contents # "cover" /\ uri.valid = "names"
  BY <1>1, <1>4 DEF FinishPage, Undefined
<1>5. CASE contents # "cover" /\ uri.valid # "names"
  <2>1. build_blank_page_with_bg
    BY <1>5, <1>1 DEF FinishPage
  <2>2. CASE "short" \in faults /\ undefined' = "buffer" /\ UNCHANGED answers
    BY <1>1, <2>2 DEF Undefined
  <2>3. ASSUME NEW c \in {"heap", "blank"}, MemoryStream(c, 1, 1), UNCHANGED undefined
        PROVE  Answered
    BY <1>1, <1>2, <2>3 DEF Answered
  <2>4. QED
    BY <2>1, <2>2, <2>3 DEF build_blank_page_with_bg
<1>6. QED
  BY <1>3, <1>4, <1>5

\* Every file a request can mean is one of those there are.
LEMMA ClientType ==
    ASSUME IInv, NEW view \in Views \cup {Nil}
    PROVE  Client(view) \in Clients \cup {Nil}
BY DEF IInv, TypeOK, Client, SessionOf

LEMMA FilesThereAre ==
    /\ File("ext", "", "") \in Files /\ File("root", "", "") \in Files
    /\ \A c \in Clients, uri \in {u \in Uris : u.app = "_self" /\ u.host = "localhost"} :
         File("run", c.app, IF uri.runner = "_self" THEN c.runner ELSE uri.runner) \in Files
    /\ \A app \in {c.app : c \in Clients}
                 \cup {u.app : u \in {u \in Uris : u.host = "originhost"}} :
         File("exported", app, "") \in Files
<1> DEFINE Runs == {File("run", c.app, IF uri.runner = "_self" THEN c.runner ELSE uri.runner) :
                      c \in Clients, uri \in {u \in Uris : u.app = "_self" /\ u.host = "localhost"}}
           Apps == {c.app : c \in Clients} \cup {u.app : u \in {u \in Uris : u.host = "originhost"}}
           Exports == {File("exported", app, "") : app \in Apps}
<1>1. Files = {File("ext", "", ""), File("root", "", "")} \cup Runs \cup Exports
  BY DEF Files
<1>2. \A app \in Apps : File("exported", app, "") \in Exports
  OBVIOUS
<1>3. \A c \in Clients, uri \in {u \in Uris : u.app = "_self" /\ u.host = "localhost"} :
        File("run", c.app, IF uri.runner = "_self" THEN c.runner ELSE uri.runner) \in Runs
  OBVIOUS
<1> HIDE DEF Runs, Exports
<1>4. QED
  BY <1>1, <1>2, <1>3

LEMMA FilesMeant ==
    ASSUME IInv, NEW view \in Views \cup {Nil}, NEW uri \in Uris
    PROVE  /\ File("ext", "", "") \in Files
           /\ uri.host = "localhost" => LocalFile(view, uri) \in Files \cup {Nil}
           /\ uri.host = "originhost" => OriginFile(view, uri) \in Files
<1>1. File("ext", "", "") \in Files /\ File("root", "", "") \in Files
  BY FilesThereAre
<1>2. Client(view) \in Clients \cup {Nil}
  BY ClientType
<1>3. ASSUME uri.host = "localhost" PROVE LocalFile(view, uri) \in Files \cup {Nil}
  <2>1. CASE uri.app \in {"_system", "_filesystem"}
    BY <1>1, <2>1 DEF LocalFile
  <2>2. CASE uri.app = "_self" /\ Client(view) # Nil
    <3>1. Client(view) \in Clients /\ uri \in {u \in Uris : u.app = "_self" /\ u.host = "localhost"}
      BY <1>2, <1>3, <2>2
    <3>2. File("run", Client(view).app,
               IF uri.runner = "_self" THEN Client(view).runner ELSE uri.runner) \in Files
      BY <3>1, FilesThereAre
    <3>3. QED
      BY <3>2, <2>2 DEF LocalFile
  <2>3. CASE ~(uri.app \in {"_system", "_filesystem"}) /\ ~(uri.app = "_self" /\ Client(view) # Nil)
    BY <2>3 DEF LocalFile
  <2>4. QED
    BY <2>1, <2>2, <2>3
<1>4. ASSUME uri.host = "originhost" PROVE OriginFile(view, uri) \in Files
  <2>1. uri.app \in {u.app : u \in {u \in Uris : u.host = "originhost"}}
    BY <1>4
  <2>2. Client(view) # Nil => Client(view).app \in {c.app : c \in Clients}
    BY <1>2
  <2>3. QED
    BY <1>1, <2>1, <2>2, FilesThereAre DEF OriginFile
<1>5. QED
  BY <1>1, <1>3, <1>4

LEMMA Dispatched ==
    ASSUME IInv, NEW view \in Views \cup {Nil}, NEW uri \in Uris, Dispatch(view, uri)
    PROVE  Answered \/ Loads \/ Undefined
<1>1. /\ File("ext", "", "") \in Files
      /\ uri.host = "localhost" => LocalFile(view, uri) \in Files \cup {Nil}
      /\ uri.host = "originhost" => OriginFile(view, uri) \in Files
  BY FilesMeant
<1>2. uri.once \in BOOLEAN
  BY AssetsAssumption DEF IsUri
<1>3. CASE uri.valid # "yes" /\ Page(uri, DefaultPage)
  BY <1>3, Pages
<1>4. CASE Load(File("ext", "", ""), FALSE)
  BY <1>1, <1>4 DEF Loads
<1>5. CASE undefined' = "session" /\ handler' = Idle /\ UNCHANGED answers
  BY <1>5 DEF Undefined
<1>6. CASE uri.host = "originhost" /\ handle_origin_host_request(view, uri)
  <2>1. CASE do_redirect(Client(view), uri) /\ handler' = Idle /\ UNCHANGED undefined
    <3>1. \/ answers' = Append(answers, [kind |-> "error"])
          \/ answers' = Append(answers, [kind |-> "redirect", host |-> Client(view).host])
      BY <2>1 DEF do_redirect, finish_with_redirect, FinishError, Answer
    <3>2. /\ FromMemory([kind |-> "error"])
          /\ FromMemory([kind |-> "redirect", host |-> Client(view).host])
      BY DEF FromMemory
    <3>3. QED
      BY <2>1, <3>1, <3>2 DEF Answered
  <2>2. CASE Load(OriginFile(view, uri), uri.once)
    BY <1>1, <1>2, <1>6, <2>2 DEF Loads
  <2>3. QED
    BY <1>6, <2>1, <2>2 DEF handle_origin_host_request
<1>7. CASE /\ uri.host = "localhost" /\ LocalFile(view, uri) # Nil
           /\ Load(LocalFile(view, uri), uri.once)
  BY <1>1, <1>2, <1>7 DEF Loads
<1>8. CASE /\ uri.valid = "yes"
           /\ Page(uri, IF uri.host = "localhost" /\ uri.app # "_self" /\ uri.irId THEN "blank"
                        ELSE DefaultPage)
  BY <1>8, Pages
<1>9. QED
  BY <1>3, <1>4, <1>5, <1>6, <1>7, <1>8 DEF Dispatch

LEMMA CallbackStep == ASSUME IInv, hvmlURISchemeRequestCallback, undefined = Nil PROVE IInv'
<1>1. /\ handler.at = "asked" /\ Dispatch(handler.view, handler.uri)
      /\ UNCHANGED <<files, fds, streams, given, shrunk, requests>> /\ Same
  BY DEF hvmlURISchemeRequestCallback, worldVars, Same
<1>2. handler \in Asked /\ handler # Idle /\ handler \notin Loading
  BY <1>1, Handlers DEF IInv, TypeOK
<1>3. handler.view \in Views \cup {Nil} /\ handler.uri \in Uris /\ answers = <<>>
  BY <1>2 DEF Asked, IInv, OneAnswer
<1>4. Held = {}
  BY <1>2 DEF Held
<1>5. CASE Answered
  <2>1. PICK answer : answers' = Append(answers, answer) /\ FromMemory(answer)
    BY <1>5 DEF Answered
  <2>2. {d \in Descriptors : fds'[d] # Nil} = streams
    BY <1>1, <1>4 DEF IInv, DescriptorsKept
  <2>3. fds' \in [Descriptors -> Files \cup {Nil}]
    BY <1>1 DEF IInv, TypeOK
  <2>4. QED
    BY <1>1, <1>2, <1>5, <2>1, <2>2, <2>3, Finished DEF Answered
<1>6. CASE Undefined
  <2>1. handler' \notin Loading
    BY <1>6, Handlers DEF Undefined
  <2>2. TypeOK'
    BY <1>1, <1>6 DEF IInv, TypeOK, Same, Undefined
  <2>3. OneAnswer'
    BY <1>3, <1>6, Constants DEF OneAnswer, Undefined
  <2>4. DescriptorsKept'
    BY <1>1, <1>4, <2>1 DEF IInv, DescriptorsKept, Held
  <2>5. GivenOnce' /\ UndefinedKnown'
    BY <1>1, <1>2, <1>6, Constants DEF IInv, GivenOnce, UndefinedKnown, Undefined, Same
  <2>6. QED
    BY <2>1, <2>2, <2>3, <2>4, <2>5 DEF IInv, StepsInOrder
<1>7. CASE Loads
  <2>1. PICK file \in Files, once \in BOOLEAN : Load(file, once)
    BY <1>7 DEF Loads
  <2>2. /\ handler' \in Loading /\ handler' # Idle /\ handler'.at \in {"open", "fopen"}
        /\ handler'.fd = Nil /\ handler'.contents = Nil
    BY <2>1, Handlers DEF Load, Loading
  <2>3. UNCHANGED <<answers, undefined>>
    BY <2>1 DEF Load
  <2>4. Held' = {}
    BY <2>2, Constants DEF Held
  <2>5. TypeOK' /\ OneAnswer'
    BY <1>1, <1>3, <2>2, <2>3 DEF IInv, TypeOK, OneAnswer, Same
  <2>6. DescriptorsKept'
    BY <1>1, <1>4, <2>4 DEF IInv, DescriptorsKept
  <2>7. StepsInOrder'
    BY <2>2 DEF StepsInOrder
  <2>8. GivenOnce' /\ UndefinedKnown'
    BY <1>1, <1>2, <2>3 DEF IInv, GivenOnce, UndefinedKnown, Same
  <2>9. QED
    BY <2>5, <2>6, <2>7, <2>8 DEF IInv
<1>8. QED
  BY <1>1, <1>3, <1>5, <1>6, <1>7, Dispatched

-----------------------------------------------------------------------------
(***************************************************************************)
(* What happens around the handler                                         *)
(***************************************************************************)
LEMMA StreamClosesStep ==
    ASSUME IInv, NEW d \in Descriptors, StreamCloses(d)
    PROVE  IInv'
<1>1. /\ d \in streams /\ streams' = streams \ {d} /\ fds' = [fds EXCEPT ![d] = Nil] /\ Same
      /\ UNCHANGED <<files, handler, answers, given, shrunk, undefined, requests>>
  BY DEF StreamCloses, worldVars, Same
<1>2. Held' = Held
  BY <1>1 DEF Held
<1>3. TypeOK'
  BY <1>1 DEF IInv, TypeOK, Same
<1>4. DescriptorsKept'
  BY <1>1, <1>2 DEF IInv, TypeOK, DescriptorsKept
<1>5. OneAnswer' /\ StepsInOrder' /\ GivenOnce' /\ UndefinedKnown'
  BY <1>1 DEF IInv, OneAnswer, StepsInOrder, GivenOnce, UndefinedKnown, Same
<1>6. QED
  BY <1>3, <1>4, <1>5 DEF IInv

LEMMA WriteStep ==
    ASSUME IInv, NEW f \in Files, NEW size \in 0..MaxSize, Write(f, size)
    PROVE  IInv'
<1>1. /\ files' = [files EXCEPT ![f] = size] /\ given' = [given EXCEPT ![f] = 0] /\ Same
      /\ UNCHANGED <<fds, streams, handler, answers, undefined, requests>>
      /\ shrunk' = (shrunk \/ (/\ handler.at \notin {"idle", "asked"} /\ handler.file = f
                               /\ files[f] # Nil /\ size < files[f]))
  BY DEF Write, worldVars, Same
<1>2. size \in Nat /\ size # Nil
  BY Constants
<1>3. TypeOK'
  BY <1>1, <1>2 DEF IInv, TypeOK, Same
<1>4. OneAnswer' /\ DescriptorsKept'
  BY <1>1 DEF IInv, OneAnswer, DescriptorsKept, Held
<1>5. GivenOnce'
  BY <1>1 DEF IInv, TypeOK, GivenOnce, Same
<1>6. UndefinedKnown'
  BY <1>1 DEF IInv, UndefinedKnown, Same
<1>7. StepsInOrder'
  <2> SUFFICES ASSUME handler \in Loading PROVE StepsInOrder'
    BY <1>1 DEF StepsInOrder
  <2>1. handler.file \in Files /\ handler.length \in Nat /\ handler.at \notin {"idle", "asked"}
    BY Handlers DEF Loading
  <2>2. handler.at \in {"fstat", "read", "fread"} => files[handler.file] \in Nat
    BY <2>1 DEF IInv, TypeOK, StepsInOrder
  <2>3. handler.at \in {"fstat", "read", "fread"} => files'[handler.file] # Nil
    BY <1>1, <1>2, <2>1, <2>2, Constants DEF IInv, TypeOK
  <2>4. handler.at = "fread" => shrunk' \/ files'[handler.file] >= handler.length
    <3>1. CASE f = handler.file
      <4>1. files'[handler.file] = size
        BY <1>1, <2>1, <3>1 DEF IInv, TypeOK
      <4>2. CASE handler.at = "fread" /\ ~shrunk /\ ~(size < files[f])
        BY <1>2, <2>1, <2>2, <3>1, <4>1, <4>2 DEF IInv, StepsInOrder
      <4>3. handler.at = "fread" /\ size < files[f] => shrunk'
        BY <1>1, <2>1, <2>2, <3>1, Constants
      <4>4. shrunk => shrunk'
        BY <1>1
      <4>5. QED
        BY <4>2, <4>3, <4>4
    <3>2. CASE f # handler.file
      BY <1>1, <2>1, <3>2 DEF IInv, TypeOK, StepsInOrder
    <3>3. QED
      BY <3>1, <3>2
  <2>5. QED
    BY <1>1, <2>3, <2>4 DEF IInv, StepsInOrder
<1>8. QED
  BY <1>3, <1>4, <1>5, <1>6, <1>7 DEF IInv

\* Sessions and views come and go while the handler is idle.
LEMMA WorldStep ==
    ASSUME IInv, Otherwise, sessions' \in [Sessions -> Clients \cup {Nil}],
           session' \in [Views -> Sessions \cup {Nil}]
    PROVE  IInv'
BY DEF IInv, TypeOK, Otherwise, OneAnswer, DescriptorsKept, Held, StepsInOrder, GivenOnce,
       UndefinedKnown

LEMMA NextIInv == IInv /\ [Next]_vars => IInv'
<1> SUFFICES ASSUME IInv, [Next]_vars PROVE IInv'
  OBVIOUS
<1>1. CASE UNCHANGED vars
  BY <1>1, WorldStep DEF vars, Otherwise, IInv, TypeOK
<1>2. CASE undefined = Nil /\ \E view \in Views \cup {Nil}, uri \in Uris : Request(view, uri)
  BY <1>2, RequestStep
<1>3. CASE undefined = Nil /\ hvmlURISchemeRequestCallback
  BY <1>3, CallbackStep
<1>4. CASE Open \/ FStat \/ Read \/ FOpen \/ FRead \/ RemoveFile \/ Finish
  BY <1>4, OpenStep, FStatStep, ReadStep, FOpenStep, FReadStep, RemoveFileStep, FinishStep
<1>5. CASE \E d \in Descriptors : StreamCloses(d)
  BY <1>5, StreamClosesStep
<1>6. CASE \E f \in Files, size \in 0..MaxSize : Write(f, size)
  BY <1>6, WriteStep
<1>7. CASE \E s \in Sessions, client \in Clients : SessionStarts(s, client)
  BY <1>7, WorldStep DEF SessionStarts, IInv, TypeOK
<1>8. CASE \E v \in Views, s \in Sessions : PageShown(v, s)
  BY <1>8, WorldStep DEF PageShown, IInv, TypeOK
<1>9. CASE \E s \in Sessions : SessionEnds(s)
  BY <1>9, WorldStep DEF SessionEnds, IInv, TypeOK
<1>10. CASE \E v \in Views : ViewCloses(v)
  BY <1>10, WorldStep DEF ViewCloses, IInv, TypeOK
<1>11. QED
  BY <1>1, <1>2, <1>3, <1>4, <1>5, <1>6, <1>7, <1>8, <1>9, <1>10 DEF Next

\* The invariant holds throughout.
THEOREM Invariance == Spec => []IInv
BY InitIInv, NextIInv, PTL DEF Spec

-----------------------------------------------------------------------------
\* Whatever becomes of the file while it is loaded, a request is answered once,
\* with nothing but bytes that were read; no descriptor stays open but those of
\* streams (hvmlURISchemeRequestCallback, open_and_load_asset); and what is used
\* that is not there has the reason that AnsweredSoundly names.
THEOREM AnswersAreSound == Spec => []AnsweredSoundly
<1>1. ASSUME IInv PROVE AnsweredSoundly
  <2>1. ASSUME Done PROVE Len(answers) = 1 /\ {d \in Descriptors : fds[d] # Nil} = streams
    <3>1. handler \notin Loading
      BY <2>1, Handlers DEF Done
    <3>2. QED
      BY <1>1, <2>1, <3>1 DEF Done, IInv, OneAnswer, DescriptorsKept, Held
  <2>2. ASSUME NEW i \in DOMAIN answers PROVE FromMemory(answers[i])
    BY <1>1 DEF IInv, OneAnswer
  <2>3. CASE undefined = "buffer"
    BY <1>1, <2>1, <2>2, <2>3 DEF IInv, UndefinedKnown, AnsweredSoundly, FromMemory
  <2>4. CASE undefined = "names"
    BY <1>1, <2>1, <2>2, <2>4 DEF IInv, UndefinedKnown, AnsweredSoundly, FromMemory
  <2>5. CASE undefined \notin {"buffer", "names"}
    BY <2>1, <2>2, <2>5 DEF AnsweredSoundly, FromMemory
  <2>6. QED
    BY <2>3, <2>4, <2>5
<1>2. QED
  BY <1>1, Invariance, PTL

\* Where files can be removed, what was written once is not served twice with
\* once=yes, whenever and however often it is asked for (load_asset_content).
THEOREM ServedAtMostOnce == Spec => []ServedOnce
<1>1. IInv => ServedOnce
  BY DEF IInv, GivenOnce, ServedOnce
<1>2. QED
  BY <1>1, Invariance, PTL

=============================================================================
