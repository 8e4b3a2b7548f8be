------------------------------- MODULE Assets -------------------------------
(***************************************************************************)
(* The handler of the scheme hvml (HVMLURISchema.c) and the loading of the  *)
(* files it serves (load-asset.c).                                          *)
(*                                                                         *)
(* The handler runs in the main loop, one request at a time; the files it   *)
(* serves are written by other processes meanwhile.  It opens a file, asks   *)
(* for its size, and reads the first bytes to guess its type: a small file  *)
(* is served from memory, a large one from its descriptor.  A file asked    *)
(* for with once=yes is read whole and removed.  The file system may do less *)
(* than it is asked: `faults' says what.                                    *)
(*                                                                         *)
(* A web view outlives its session until WebKit has closed it, and its      *)
(* "purcmc-session" is not taken away.  When something is used that is not   *)
(* there the outcome is undefined: the behaviour ends, `undefined' says      *)
(* what it was.                                                             *)
(***************************************************************************)
EXTENDS Naturals, FiniteSetsExt, SequencesExt, NoValue

CONSTANTS
    Views,          \* web views
    Sessions,
    Clients,        \* what sessions are made for: [app, runner, type, host]
    Uris,           \* see IsUri
    MaxToLoad,      \* the bytes read to guess a type
    MaxSize,        \* bound on the size of a file
    MaxWrites,      \* bound on the times files are written
    MaxRequests,    \* bound on the requests
    Descriptors,
    Faults          \* see faults

IsUri(uri) ==
    /\ uri.valid \in {"yes", "page", "names"}       \* or what of it is not
    /\ uri.host \in {"localhost", "originhost", "other"}
    /\ uri.app \in STRING /\ uri.runner \in STRING /\ uri.group \in STRING
    /\ uri.once \in BOOLEAN /\ uri.irId \in BOOLEAN

ASSUME AssetsAssumption ==
    /\ {MaxToLoad, MaxSize, MaxWrites, MaxRequests} \subseteq Nat
    /\ \A uri \in Uris : IsUri(uri)
    /\ Nil \notin Sessions /\ Nil \notin Clients /\ Nil \notin Descriptors
    /\ Nil \notin Nat /\ Nil \notin {"heap", "session", "names", "buffer"}
    /\ Faults \subseteq {"short", "unremovable"}

VARIABLES
    coverPage,  \* whether ENABLE_COVER_PAGE is set
    faults,     \* "short": a file may give fewer bytes than it is long (its
                \* reading fails, it is a directory, the kernel makes it up);
                \* "unremovable": it may not be removed (its directory is read-only)
    sessions,   \* what each session was made for, or Nil
    session,    \* "purcmc-session" of each view
    files,      \* the size of each file, or Nil
    handler,    \* the loading of a file, or Idle
    fds,        \* the file each open descriptor reads
    streams,    \* the descriptors that WebKit reads from
    answers,    \* the answers to the last request
    given,      \* since it was written, how often each file was loaded with once
    shrunk,     \* whether the file being loaded was made shorter meanwhile
    undefined,  \* Nil, or what was used that was not there
    writes, requests

worldVars == <<coverPage, faults, sessions, session>>
vars == <<coverPage, faults, sessions, session, files, handler, fds, streams, answers, given, shrunk,
          undefined, writes, requests>>

Idle == [at |-> "idle"]

\* A file by its directory: that of the web extension, the root of the file
\* system, one of a runner, or the one an application exports.
File(dir, app, runner) == [dir |-> dir, app |-> app, runner |-> runner]
Files == {File("ext", "", ""), File("root", "", "")}
    \cup {File("run", c.app, IF uri.runner = "_self" THEN c.runner ELSE uri.runner) :
            c \in Clients, uri \in {u \in Uris : u.app = "_self" /\ u.host = "localhost"}}
    \cup {File("exported", app, "") :
            app \in {c.app : c \in Clients}
                    \cup {u.app : u \in {u \in Uris : u.host = "originhost"}}}

ASSUME NoFile == Nil \notin Files

Init ==
    /\ coverPage \in BOOLEAN /\ faults \in SUBSET Faults
    /\ sessions = [s \in Sessions |-> Nil]
    /\ session = [v \in Views |-> Nil]
    /\ files = [f \in Files |-> Nil]
    /\ handler = Idle
    /\ fds = [d \in Descriptors |-> Nil] /\ streams = {}
    /\ answers = <<>>
    /\ given = [f \in Files |-> 0]
    /\ shrunk = FALSE /\ undefined = Nil
    /\ writes = 0 /\ requests = 0

-----------------------------------------------------------------------------
(***************************************************************************)
(* Answering.  Contents are a page of the program, or of the heap; the      *)
(* memory stream gives the bytes from the heap back when it is closed.      *)
(***************************************************************************)
Answer(answer) == answers' = Append(answers, answer)

\* webkit_uri_scheme_request_finish_error
FinishError == Answer([kind |-> "error"])
finish_with_redirect(host) == Answer([kind |-> "redirect", host |-> host])
MemoryStream(contents, length, read) ==
    Answer([kind |-> "memory", contents |-> contents, length |-> length, read |-> read,
            frees |-> contents \notin {"cover", "blank"}])
UnixStream(fd, length) == Answer([kind |-> "unix", fd |-> fd, length |-> length])

\* The splash of the runner, of the application or of the program is looked for
\* in turn: there may be none.  One that gives fewer bytes than it is long has
\* its buffer freed, and written to (load_app_runner_asset_content).
build_blank_page_with_bg ==
    \/ /\ \E contents \in {"heap", "blank"} : MemoryStream(contents, 1, 1)
       /\ UNCHANGED undefined
    \/ "short" \in faults /\ undefined' = "buffer" /\ UNCHANGED answers

\* The label `error' with one of the program's pages.  The names of host, app
\* and runner are not there when they could not be split off.
FinishPage(uri, contents) ==
    IF contents = "cover"
    THEN MemoryStream("cover", 1, 1) /\ UNCHANGED undefined
    ELSE IF uri.valid = "names"
    THEN undefined' = "names" /\ UNCHANGED answers
    ELSE build_blank_page_with_bg

DefaultPage == IF coverPage THEN "cover" ELSE "blank"

-----------------------------------------------------------------------------
(***************************************************************************)
(* Which file is meant                                                     *)
(***************************************************************************)
IsBuiltin(uri) ==
    /\ uri.host = "localhost"
    /\ uri.app = "_renderer" /\ uri.runner = "_builtin" /\ uri.group = "_null"

\* The session of the view a request comes from, which may be gone.
SessionOf(view) == IF view = Nil THEN Nil ELSE session[view]
AsksForSession(uri) ==
    uri.valid = "yes" /\ (uri.host = "originhost" \/ (uri.host = "localhost" /\ uri.app = "_self"))
Client(view) == IF SessionOf(view) = Nil THEN Nil ELSE sessions[SessionOf(view)]

\* hvml://localhost/
LocalFile(view, uri) ==
    IF uri.app \in {"_system", "_filesystem"} THEN File("root", "", "")
    ELSE IF uri.app = "_self" /\ Client(view) # Nil
    THEN File("run", Client(view).app,
              IF uri.runner = "_self" THEN Client(view).runner ELSE uri.runner)
    ELSE Nil

\* hvml://_originhost/: what is asked of the host of the view's session.
should_do_redirect(client, uri) ==
    /\ client # Nil
    /\ \/ client.type = "unix" /\ uri.group = "dynamic"
       \/ client.type = "web" /\ ~(client.host = "localhost" /\ uri.group = "static")

do_redirect(client, uri) ==
    IF uri.runner \in {"_http", "_https", "_ftp", "_ftps"} THEN finish_with_redirect(client.host)
    ELSE FinishError

OriginFile(view, uri) ==
    IF uri.app = "_system" THEN File("root", "", "")
    ELSE File("exported", IF Client(view) = Nil THEN uri.app ELSE Client(view).app, "")

-----------------------------------------------------------------------------
(***************************************************************************)
(* The handler                                                             *)
(***************************************************************************)
\* read is what max_to_load becomes, got the bytes that are in the buffer.
Load(file, once) ==
    /\ handler' = [at |-> IF once THEN "fopen" ELSE "open", file |-> file, once |-> once,
                   fd |-> Nil, length |-> 0, read |-> 0, got |-> 0, contents |-> Nil]
    /\ UNCHANGED <<answers, undefined>>

Page(uri, contents) == FinishPage(uri, contents) /\ handler' = Idle

handle_origin_host_request(view, uri) ==
    IF should_do_redirect(Client(view), uri)
    THEN do_redirect(Client(view), uri) /\ handler' = Idle /\ UNCHANGED undefined
    ELSE Load(OriginFile(view, uri), uri.once)

\* WebKit asks for a URI.
Request(view, uri) ==
    /\ handler = Idle /\ requests < MaxRequests
    /\ requests' = requests + 1
    /\ handler' = [at |-> "asked", view |-> view, uri |-> uri]
    /\ answers' = <<>> /\ shrunk' = FALSE
    /\ UNCHANGED <<files, fds, streams, given, undefined, writes>> /\ UNCHANGED worldVars

\* hvmlURISchemeRequestCallback until a file is to be loaded
Dispatch(view, uri) ==
    IF uri.valid # "yes" THEN Page(uri, DefaultPage)
    ELSE IF IsBuiltin(uri) THEN Load(File("ext", "", ""), FALSE)
    ELSE IF AsksForSession(uri) /\ SessionOf(view) # Nil /\ Client(view) = Nil
    THEN undefined' = "session" /\ handler' = Idle /\ UNCHANGED answers
    ELSE IF uri.host = "originhost" THEN handle_origin_host_request(view, uri)
    ELSE IF uri.host = "localhost" /\ LocalFile(view, uri) # Nil
    THEN Load(LocalFile(view, uri), uri.once)
    ELSE Page(uri, IF uri.host = "localhost" /\ uri.app # "_self" /\ uri.irId THEN "blank"
                   ELSE DefaultPage)

hvmlURISchemeRequestCallback ==
    /\ handler.at = "asked"
    /\ Dispatch(handler.view, handler.uri)
    /\ UNCHANGED <<files, fds, streams, given, shrunk, writes, requests>> /\ UNCHANGED worldVars

Step(at) == handler.at = at /\ UNCHANGED <<shrunk, writes, requests>> /\ UNCHANGED worldVars
Failed == FinishError /\ handler' = Idle

\* open_and_load_asset opens the file, ...
Open ==
    /\ Step("open")
    /\ \/ files[handler.file] = Nil /\ Failed /\ UNCHANGED fds
       \/ /\ files[handler.file] # Nil
          /\ \E d \in Descriptors :
               /\ fds[d] = Nil
               /\ fds' = [fds EXCEPT ![d] = handler.file]
               /\ handler' = [handler EXCEPT !.at = "fstat", !.fd = d]
          /\ UNCHANGED answers
    /\ UNCHANGED <<files, streams, given, undefined>>

\* ... asks how long it is, ...
FStat ==
    /\ Step("fstat")
    /\ handler' = [handler EXCEPT !.at = "read", !.length = files[handler.file]]
    /\ UNCHANGED <<files, fds, streams, answers, given, undefined>>

\* What a read from the beginning of the file gives now.
Readable == Min({files[handler.file], handler.length, MaxToLoad})

\* Mutant: the bytes asked for are taken for the bytes read.
ReadAsAsked ==
    /\ Step("read")
    /\ handler' = [handler EXCEPT !.at = "finish", !.contents = "heap", !.got = Readable,
                     !.read = Min({handler.length, MaxToLoad})]
    /\ UNCHANGED <<files, fds, streams, answers, given, undefined>>

\* ... and reads its first bytes, which may not be as many by now, or fail.
Read ==
    /\ Step("read")
    /\ \/ /\ \E bytes \in IF "short" \in faults THEN 0..Readable ELSE {Readable} :
               handler' = [handler EXCEPT !.at = "finish", !.contents = "heap", !.got = bytes,
                             !.read = bytes]
          /\ UNCHANGED <<fds, answers>>
       \/ Failed /\ fds' = [fds EXCEPT ![handler.fd] = Nil]
    /\ UNCHANGED <<files, streams, given, undefined>>

\* load_asset_content opens the file and finds its end.  Should that fail the
\* file is removed all the same.
FOpen ==
    /\ Step("fopen")
    /\ \/ files[handler.file] = Nil /\ Failed
       \/ /\ files[handler.file] # Nil
          /\ \/ handler' = [handler EXCEPT !.at = "fread", !.length = files[handler.file]]
             \/ handler' = [handler EXCEPT !.at = "remove"]
          /\ UNCHANGED answers
    /\ UNCHANGED <<files, fds, streams, given, undefined>>

\* If the file has become shorter, or gives fewer bytes than it is long, the
\* buffer is freed, and written to at its length behind NULL.
FRead ==
    /\ Step("fread")
    /\ \/ /\ files[handler.file] < handler.length \/ "short" \in faults
          /\ undefined' = "buffer" /\ handler' = Idle
          /\ UNCHANGED given
       \/ /\ files[handler.file] >= handler.length
          /\ handler' = [handler EXCEPT !.at = "remove", !.contents = "heap",
                            !.read = handler.length, !.got = handler.length]
          /\ given' = [given EXCEPT ![handler.file] = @ + 1]
          /\ UNCHANGED undefined
    /\ UNCHANGED <<files, fds, streams, answers>>

\* Mutant: it is left to its writer to remove the file.
KeepFile == Step("remove") /\ handler' = [handler EXCEPT !.at = "finish"]
            /\ UNCHANGED <<files, fds, streams, answers, given, undefined>>

\* Nobody looks at what remove() returns.
RemoveFile ==
    /\ Step("remove")
    /\ \/ files' = [files EXCEPT ![handler.file] = Nil]
       \/ "unremovable" \in faults /\ UNCHANGED files
    /\ handler' = [handler EXCEPT !.at = "finish"]
    /\ UNCHANGED <<fds, streams, answers, given, undefined>>

\* The contents are served: from the descriptor, which the stream will close,
\* if there are more than were read.
Finish ==
    /\ Step("finish")
    /\ handler' = Idle
    /\ IF handler.contents = Nil THEN FinishError /\ UNCHANGED <<fds, streams>>
       ELSE IF handler.length > handler.read /\ handler.fd # Nil
       THEN /\ UnixStream(handler.fd, handler.length)
            /\ streams' = streams \cup {handler.fd} /\ UNCHANGED fds
       ELSE /\ MemoryStream("heap", handler.length, handler.got)
            /\ fds' = [d \in Descriptors |-> IF d = handler.fd THEN Nil ELSE fds[d]]
            /\ UNCHANGED streams
    /\ UNCHANGED <<files, given, undefined>>

-----------------------------------------------------------------------------
(***************************************************************************)
(* What happens around it                                                  *)
(***************************************************************************)

\* WebKit has read a stream to its end.
StreamCloses(d) ==
    /\ d \in streams
    /\ streams' = streams \ {d} /\ fds' = [fds EXCEPT ![d] = Nil]
    /\ UNCHANGED <<files, handler, answers, given, shrunk, undefined, writes, requests>>
    /\ UNCHANGED worldVars

\* An application writes one of its files, in place.
Write(f, size) ==
    /\ writes < MaxWrites
    /\ writes' = writes + 1
    /\ files' = [files EXCEPT ![f] = size]
    /\ given' = [given EXCEPT ![f] = 0]
    /\ shrunk' = (shrunk \/ (/\ handler.at \notin {"idle", "asked"} /\ handler.file = f
                             /\ files[f] # Nil /\ size < files[f]))
    /\ UNCHANGED <<fds, streams, handler, answers, undefined, requests>> /\ UNCHANGED worldVars

\* The rest happens in the main loop.  The memory of a session that a view
\* still refers to is not used for another.
Otherwise == UNCHANGED <<coverPage, faults, files, handler, fds, streams, answers, given, shrunk,
                         undefined, writes, requests>>
SessionStarts(s, client) ==
    /\ handler = Idle /\ sessions[s] = Nil /\ \A v \in Views : session[v] # s
    /\ sessions' = [sessions EXCEPT ![s] = client]
    /\ UNCHANGED session /\ Otherwise
PageShown(v, s) ==
    /\ handler = Idle /\ sessions[s] # Nil /\ session[v] = Nil
    /\ session' = [session EXCEPT ![v] = s]
    /\ UNCHANGED sessions /\ Otherwise
SessionEnds(s) ==
    /\ handler = Idle /\ sessions[s] # Nil
    /\ sessions' = [sessions EXCEPT ![s] = Nil]
    /\ UNCHANGED session /\ Otherwise
ViewCloses(v) ==
    /\ handler = Idle /\ session[v] # Nil
    /\ session' = [session EXCEPT ![v] = Nil]
    /\ UNCHANGED sessions /\ Otherwise

Next ==
    /\ undefined = Nil
    /\ \/ \E view \in Views \cup {Nil}, uri \in Uris : Request(view, uri)
       \/ hvmlURISchemeRequestCallback
       \/ Open \/ FStat \/ Read \/ FOpen \/ FRead \/ RemoveFile \/ Finish
       \/ \E d \in Descriptors : StreamCloses(d)
       \/ \E f \in Files, size \in 0..MaxSize : Write(f, size)
       \/ \E s \in Sessions, client \in Clients : SessionStarts(s, client)
       \/ \E v \in Views, s \in Sessions : PageShown(v, s)
       \/ \E s \in Sessions : SessionEnds(s)
       \/ \E v \in Views : ViewCloses(v)

Spec == Init /\ [][Next]_vars
-----------------------------------------------------------------------------
(* Properties                                                              *)

Done == handler = Idle /\ undefined = Nil /\ requests > 0

\* Whatever becomes of the file while it is loaded, a request is answered once,
\* and with nothing but bytes that were read; the program's own pages are not
\* freed; no descriptor stays open but those of streams; and unless a file to
\* be served once is made shorter while it is loaded, or a file or the picture of
\* the blank page gives fewer bytes than it is long, or a page outlives its
\* session, nothing is used that is not there (with the cover page).
AnsweredSoundly ==
    /\ Done => Len(answers) = 1
    /\ \A i \in DOMAIN answers :
         answers[i].kind = "memory" =>
             /\ answers[i].length <= answers[i].read
             /\ answers[i].frees <=> answers[i].contents = "heap"
    /\ Done => {d \in Descriptors : fds[d] # Nil} = streams
    /\ CASE undefined = "buffer" -> shrunk \/ "short" \in faults
         [] undefined = "names" -> ~coverPage
         [] OTHER -> TRUE

\* "load whole contents, and remove the asset file" (HVMLURISchema.c): where
\* files can be removed, what was written once is not served twice with
\* once=yes, however often it is asked for, and with whatever writes in between.
ServedOnce == "unremovable" \notin faults => \A f \in Files : given[f] <= 1
=============================================================================
