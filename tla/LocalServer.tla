----------------------------- MODULE LocalServer -----------------------------
(***************************************************************************)
(* globus_cli.login_manager.local_server and do_local_server_auth_flow:    *)
(* the main thread waits for an authorization code that the user's browser *)
(* brings to an HTTP server running in a daemon thread.                    *)
(*                                                                         *)
(* Three actors.  The main thread takes one answer from a queue and then   *)
(* shuts the server down.  The server thread (http.server.HTTPServer, not  *)
(* a threading one) handles one connection after another and puts an       *)
(* answer for each in the queue.  The browser opens connections, may send  *)
(* a request on each, and closes them when it likes; besides the redirect  *)
(* it is free to open speculative connections and to ask for other pages.  *)
(***************************************************************************)
EXTENDS Naturals, Sequences, FiniteSets

CONSTANT Conns    \* connections the browser may open

ASSUME ConnsAssumption == IsFiniteSet(Conns)

\* The redirect with a code, or any other GET: one with an error, a favicon.
Requests == {"code", "no_code"}

VARIABLES
    main,         \* control state of the main thread
    auth_code,    \* the answer it took: {} or {[conn |-> c, kind |-> k]}
    outcome,      \* how do_local_server_auth_flow ended
    queue,        \* _auth_code_queue
    stop,         \* serve_forever has been asked to stop
    server,       \* control state of the server thread and its connection
    backlog,      \* connections that wait to be accepted
    sent,         \* request of each connection: "unopened", "nothing" or a request
    gone,         \* connections the browser has closed
    page          \* the page each connection was sent

vars == <<main, auth_code, outcome, queue, stop, server, backlog, sent, gone, page>>
mainVars == <<main, auth_code, outcome>>
browserVars == <<sent, gone>>

Answers == [conn : Conns, kind : {"code", "local_error", "exception"}]

TypeOK ==
    /\ main \in {"setup", "wait", "shutdown", "decide", "ended"}
    /\ auth_code \subseteq Answers /\ Cardinality(auth_code) <= 1
    /\ outcome \in {"none", "exchanged", "refused", "timed_out", "aborted"}
    /\ queue \in Seq(Answers) /\ Len(queue) <= Cardinality(Conns)
    /\ stop \in BOOLEAN
    /\ server \in [pc : {"poll", "read", "write", "answer"}, conn : Conns]
                  \cup {[pc |-> "poll"], [pc |-> "stopped"]}
    /\ backlog \in Seq(Conns)
    /\ sent \in [Conns -> {"unopened", "nothing"} \cup Requests]
    /\ gone \subseteq Conns
    /\ page \in [Conns -> {"none", "Login successful", "Login failed"}]

\* start_local_server has just returned: the socket listens, the thread runs.
Init ==
    /\ main = "setup" /\ auth_code = {} /\ outcome = "none"
    /\ queue = <<>> /\ stop = FALSE
    /\ server = [pc |-> "poll"] /\ backlog = <<>>
    /\ sent = [c \in Conns |-> "unopened"] /\ gone = {}
    /\ page = [c \in Conns |-> "none"]
-------------------------------------------------------------------------------
\* The browser.  It knows the port only once the main thread has opened it.
Connect(c) ==
    /\ main \in {"wait", "shutdown", "decide"}
    /\ sent[c] = "unopened"
    /\ sent' = [sent EXCEPT ![c] = "nothing"]
    /\ backlog' = Append(backlog, c)
    /\ UNCHANGED <<mainVars, queue, stop, server, gone, page>>

Send(c) ==
    /\ sent[c] = "nothing" /\ c \notin gone
    /\ \E r \in Requests : sent' = [sent EXCEPT ![c] = r]
    /\ UNCHANGED <<mainVars, queue, stop, server, backlog, gone, page>>

Close(c) ==
    /\ sent[c] # "unopened" /\ c \notin gone
    /\ gone' = gone \cup {c}
    /\ UNCHANGED <<mainVars, queue, stop, server, backlog, sent, page>>
-------------------------------------------------------------------------------
\* The server thread.  It dies with the process.
Serving(pc) == main # "ended" /\ server.pc = pc

Finish == server' = [pc |-> "poll"]
Answer(kind) == queue' = Append(queue, [conn |-> server.conn, kind |-> kind])

\* serve_forever: look at the flag, then at the socket.
Accept ==
    /\ Serving("poll") /\ ~stop
    /\ backlog # <<>>
    /\ server' = [pc |-> "read", conn |-> Head(backlog)]
    /\ backlog' = Tail(backlog)
    /\ UNCHANGED <<mainVars, queue, stop, browserVars, page>>

StopServing ==
    /\ Serving("poll") /\ stop
    /\ server' = [pc |-> "stopped"]
    /\ UNCHANGED <<mainVars, queue, stop, backlog, browserVars, page>>

\* The request line is read with no timeout.  A connection that is closed
\* without a request is no error, one that is reset is.
ReadRequest ==
    /\ Serving("read")
    /\ sent[server.conn] # "nothing"
    /\ server' = [server EXCEPT !.pc = "write"]
    /\ UNCHANGED <<mainVars, queue, stop, backlog, browserVars, page>>

ReadNothing ==
    /\ Serving("read")
    /\ sent[server.conn] = "nothing" /\ server.conn \in gone
    /\ Finish
    /\ UNCHANGED <<mainVars, queue, stop, backlog, browserVars, page>>

\* do_GET, first half: the page.
WritePage ==
    /\ Serving("write")
    /\ page' = [page EXCEPT ![server.conn] =
                   IF sent[server.conn] = "code" THEN "Login successful"
                   ELSE "Login failed"]
    /\ server' = [server EXCEPT !.pc = "answer"]
    /\ UNCHANGED <<mainVars, queue, stop, backlog, browserVars>>

\* Fault: the connection is kept alive and read again.
ReturnCode_KeepAlive ==
    /\ Serving("answer")
    /\ Answer(IF sent[server.conn] = "code" THEN "code" ELSE "local_error")
    /\ server' = [server EXCEPT !.pc = "read"]
    /\ UNCHANGED <<mainVars, stop, backlog, browserVars, page>>

\* do_GET, second half: return_code.
ReturnCode ==
    /\ Serving("answer")
    /\ Answer(IF sent[server.conn] = "code" THEN "code" ELSE "local_error")
    /\ Finish
    /\ UNCHANGED <<mainVars, stop, backlog, browserVars, page>>

\* Reading from or writing to a connection that the browser has closed.
HandleError ==
    /\ Serving("read") \/ Serving("write")
    /\ server.conn \in gone
    /\ Answer("exception")
    /\ Finish
    /\ UNCHANGED <<mainVars, stop, backlog, browserVars, page>>
-------------------------------------------------------------------------------
\* The main thread.
End(how) == main' = "ended" /\ outcome' = how

\* webbrowser.open, once the auth client is known and the flow has started.
OpenBrowser ==
    /\ main = "setup"
    /\ main' = "wait"
    /\ UNCHANGED <<auth_code, outcome, queue, stop, server, backlog, browserVars, page>>

\* An exception before (no client could be registered) or a Ctrl-C at any time:
\* start_local_server has no `finally`, the process ends without a shutdown.
Abort ==
    /\ main \in {"setup", "wait", "shutdown"}
    /\ End("aborted")
    /\ UNCHANGED <<auth_code, queue, stop, server, backlog, browserVars, page>>

\* Fault: the latest answer is taken, not the first.
TakeAnswer_Latest ==
    /\ main = "wait"
    /\ queue # <<>>
    /\ auth_code' = {queue[Len(queue)]}
    /\ queue' = SubSeq(queue, 1, Len(queue) - 1)
    /\ main' = "shutdown"
    /\ stop' = TRUE
    /\ UNCHANGED <<outcome, server, backlog, browserVars, page>>

\* Fault: the main thread waits for the server but does not tell it to stop.
TakeAnswer_NoStop ==
    /\ main = "wait"
    /\ queue # <<>>
    /\ auth_code' = {Head(queue)}
    /\ queue' = Tail(queue)
    /\ main' = "shutdown"
    /\ UNCHANGED <<outcome, stop, server, backlog, browserVars, page>>

\* wait_for_code
TakeAnswer ==
    /\ main = "wait"
    /\ queue # <<>>
    /\ auth_code' = {Head(queue)}
    /\ queue' = Tail(queue)
    /\ main' = "shutdown"
    /\ stop' = TRUE
    /\ UNCHANGED <<outcome, server, backlog, browserVars, page>>

\* Fault: Queue.get has no timeout.
Timeout_Never == FALSE

\* Queue.get ran for an hour.
Timeout ==
    /\ main = "wait"
    /\ queue = <<>>
    /\ End("timed_out")
    /\ UNCHANGED <<auth_code, queue, stop, server, backlog, browserVars, page>>

\* Fault: the flag is set and the main thread goes on.
ShutdownReturns_NoJoin ==
    /\ main = "shutdown"
    /\ main' = "decide"
    /\ UNCHANGED <<auth_code, outcome, queue, stop, server, backlog, browserVars, page>>

\* server.shutdown() returns when serve_forever has.
ShutdownReturns ==
    /\ main = "shutdown"
    /\ server.pc = "stopped"
    /\ main' = "decide"
    /\ UNCHANGED <<auth_code, outcome, queue, stop, server, backlog, browserVars, page>>

\* Fault: only a LocalServerError stops the flow.
Decide_LocalErrorOnly ==
    /\ main = "decide"
    /\ \E answer \in auth_code :
          End(IF answer.kind # "local_error" THEN "exchanged" ELSE "refused")
    /\ UNCHANGED <<auth_code, queue, stop, server, backlog, browserVars, page>>

\* An exception that the handler met is as final as an error in the redirect.
Decide ==
    /\ main = "decide"
    /\ \E answer \in auth_code :
          End(IF answer.kind = "code" THEN "exchanged" ELSE "refused")
    /\ UNCHANGED <<auth_code, queue, stop, server, backlog, browserVars, page>>
-------------------------------------------------------------------------------
Server == Accept \/ StopServing \/ ReadRequest \/ ReadNothing \/ WritePage
          \/ ReturnCode \/ HandleError
Main == OpenBrowser \/ TakeAnswer \/ Timeout \/ ShutdownReturns \/ Decide
Browser(c) == Connect(c) \/ Send(c) \/ Close(c)

\* The flow is over; the user may still close windows.
Done == main = "ended" /\ UNCHANGED vars

Next == Main \/ Abort \/ Server \/ (\E c \in Conns : Browser(c)) \/ Done

Spec == Init /\ [][Next]_vars

\* The scheduler runs both threads, and Queue.get returns in time.
FairSpec == Spec /\ WF_vars(Main) /\ WF_vars(Server)

\* The browser may keep an idle connection for long, but not for ever.  Nothing
\* in the CLI makes it: this is a hypothesis of the properties that need it.
BrowserCloses == \A c \in Conns : WF_vars(Close(c))
-------------------------------------------------------------------------------
\* The page that the user was sent on the connection that decided the flow says
\* what the CLI does next: "Login successful" where the code is exchanged, and
\* never where the login is refused, although the page is written by another
\* thread and before the CLI has seen the code.
ResultMatchesPage ==
    \A answer \in auth_code :
        /\ outcome = "exchanged" => page[answer.conn] = "Login successful"
        /\ outcome = "refused" => page[answer.conn] # "Login successful"

\* Once the flow goes on after shutdown(), nobody is told anything any more: no
\* browser window can report a login that this command did not see.
NothingServedAfterShutdown ==
    [][(main \in {"decide", "ended"}) => page' = page]_vars

\* The wait for a code ends, whatever the browser does: connections that stay
\* open without a request cannot prolong it beyond its hour.
WaitEnds == main = "wait" ~> main # "wait"

\* A login whose first answer is a code goes on with it, whatever else the
\* browser asks for before the server has stopped.
CodeDelivered ==
    BrowserCloses => ((main = "wait" /\ queue # <<>> /\ queue[1].kind = "code")
                        ~> outcome \in {"exchanged", "aborted"})

\* Every flow comes to an end.  This needs a browser that does not hold a
\* connection for ever: shutdown() waits for the request that is being read.
FlowEnds == BrowserCloses => <>(main = "ended")
===============================================================================
