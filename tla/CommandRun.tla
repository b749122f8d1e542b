------------------------------ MODULE CommandRun ------------------------------
(* A command of the catalogue from its options to its exit status.             *)
(*                                                                             *)
(* The handler goes through the steps of a script; each of them may fail in    *)
(* its way.  What it raises goes to the hooks of exception_handling, which     *)
(* choose the exit status.                                                     *)
EXTENDS CommandState, Scripts

CONSTANTS
    Catalog,        \* the commands
    Settings,       \* command states a handler is run with
    Paths,          \* of the lines of a batch
    MaxLines,       \* of a batch
    MaxAttempts     \* of a command line that has failed

VARIABLES
    credentials,    \* of a user, of a client, or one of the client's two variables
    phase,          \* reading the options, running the handler, ended
    command,        \* its name
    todo,           \* the steps that are left; the one that failed comes first
    asserted,       \* services whose logins have been checked
    wrote,          \* changes that services have confirmed
    documents,      \* printed in the machine formats
    texts,          \* printed in no format
    lines,          \* of the batch, as far as it has been read
    path,           \* in the TaskPath object that all lines of a batch share
    items,          \* of the task that is to be submitted
    tasks,          \* that the user's submission ID has brought about
    attempt,
    error,          \* what was raised
    status          \* of the process

made == <<asserted, wrote, documents, texts, lines, path, items, tasks>>
run == <<phase, command, todo, made, attempt, error, status>>
vars == <<credentials, optionVars, run>>
-------------------------------------------------------------------------------
\* exception_handling and click
ExitCodes ==
    [call \in {"success", "failure", "usage", "auth", "timeout"} |->
        CASE call = "success" -> 0
          [] call = "failure" -> 1
          [] call = "usage" -> 2
          [] call = "auth" -> 4
          [] call = "timeout" -> 50]

\* The steps of scripts.  A submission is never guarded.
Steps ==
    {step \in [does : STRING, on : SUBSET STRING, call : STRING,
               guard : {"none", "flow", "run", "user"}] :
        /\ step.does = "exit" => step.call \in DOMAIN ExitCodes
        /\ step.does = "submit" => step.guard = "none"}

Names == {c.name : c \in Catalog} \union {"none"}

\* A batch is read before anything is changed.
Changes == {"write", "action", "submit"}
BatchFirst(s) ==
    \A i, j \in DOMAIN s : i < j /\ s[j].does = "batch" => s[i].does \notin Changes

ASSUME CatalogAssumption ==
    Catalog \subseteq [name : STRING, scripts : SUBSET Seq(Steps), disabled : SUBSET STRING]
ASSUME BatchAssumption == \A c \in Catalog : \A s \in c.scripts : BatchFirst(s)
ASSUME SettingsAssumption == Settings \subseteq CommandStates
ASSUME BoundsAssumption == MaxLines \in Nat /\ MaxAttempts \in Nat

\* What is raised.  An API error may come without JSON, ask for consent (and not
\* say to what), or for a session; whatever it is, it has an HTTP status.
Raised(type) == [type |-> type]
NoError == Raised("none")
ApiErrors ==
    [type : {"api"}, info : {"null", "plain", "unscoped", "consent", "session"},
     http : HttpStatuses \union {500}]
Requirements(origin) == [type |-> "requirements", origin |-> origin]
ExitWith(code) == [type |-> "exit", code |-> code]

Errors ==
    {Raised(t) : t \in {"none", "missing_login", "wrong_type", "usage", "value", "network"}}
    \union ApiErrors
    \union {Requirements(e) : e \in ApiErrors \union {NoError}}
    \union {ExitWith(ExitCodes[c]) : c \in DOMAIN ExitCodes}

TypeOK ==
    /\ state \in CommandStates
    /\ credentials \in {"user", "client", "half"}
    /\ phase \in {"options", "running", "ended"}
    /\ command \in Names
    /\ todo \in Seq(Steps)
    /\ asserted \subseteq STRING
    /\ wrote \in Nat /\ documents \in Nat /\ texts \in Nat
    /\ lines \in Seq(Paths) /\ items \in Seq(Paths) /\ path \in Paths \union {"none"}
    /\ tasks \in Nat /\ attempt \in Nat
    /\ error \in Errors
    /\ status \in Int

Init ==
    /\ InitOptions
    /\ credentials \in {"user", "client", "half"}
    /\ phase = "options" /\ command = "none" /\ todo = <<>>
    /\ asserted = {} /\ wrote = 0 /\ documents = 0 /\ texts = 0
    /\ lines = <<>> /\ path = "none" /\ items = <<>>
    /\ tasks = 0 /\ attempt = 0
    /\ error = NoError /\ status = 0
-------------------------------------------------------------------------------
(* Hooks *)

\* Fault: a hook's own status comes before a mapped one.
MappedStatus_HookFirst(e, s) ==
    IF s # 1 \/ e.http \notin DOMAIN state.http_status_map THEN s
    ELSE state.http_status_map[e.http]

\* _error_handler: --map-http-status comes before the status of the hook.
MappedStatus(e, s) ==
    IF e.http \in DOMAIN state.http_status_map THEN state.http_status_map[e.http] ELSE s

\* The first hook that matches: null data, JSON format, consent, session, and the
\* hooks of the services, all of which say 1.
GenericHooks(e) == e.info = "null" \/ state.output_format = "json"
ApiStatus(e) ==
    MappedStatus(e,
        IF GenericHooks(e) THEN 1
        ELSE IF e.info \in {"consent", "session"} THEN 4
        ELSE IF e.info = "unscoped" THEN 255
        ELSE 1)

\* invoke_exception_handler also tries the origin of a CLIAuthRequirementsError.
RequirementsStatus(origin) ==
    IF origin # NoError /\ GenericHooks(origin) THEN ApiStatus(origin) ELSE 4

ExitStatus(e) ==
    CASE e.type = "none" -> 0
      [] e.type = "exit" -> e.code
      [] e.type = "api" -> ApiStatus(e)
      [] e.type = "requirements" -> RequirementsStatus(e.origin)
      [] e.type = "missing_login" -> 4
      [] e.type = "wrong_type" -> 3
      [] e.type = "usage" -> 2
      [] OTHER -> 1

Finish(e) ==
    /\ phase' = "ended"
    /\ error' = e
    /\ status' = ExitStatus(e)
    /\ UNCHANGED <<optionVars, command, todo, attempt>>

Raise(e) == Finish(e) /\ UNCHANGED made
-------------------------------------------------------------------------------
(* The command line *)

\* What click makes of the rest of the command line may be refused, and so may
\* GLOBUS_CLI_INTERACTIVE, before the handler is called.
RefuseCommandLine ==
    /\ phase = "options"
    /\ \/ Raise(Raised("usage"))
       \/ context = "command" /\ Raise(ExitWith(1))

\* Options a command does not have may still be given to its group.
Accepts(c) ==
    \A g \in given : g[1] = "command" => g[2] \notin c.disabled

Invoke ==
    /\ phase = "options" /\ context = "command"
    /\ state \in Settings
    /\ \E c \in Catalog : \E s \in c.scripts :
        /\ Accepts(c)
        /\ command' = c.name
        /\ todo' = s
    /\ phase' = "running"
    /\ given' = {} /\ context' = "none"
    /\ UNCHANGED <<state, eager, made, attempt, error, status>>

Options == phase = "options" /\ ReadOptions /\ UNCHANGED run
-------------------------------------------------------------------------------
(* Steps *)

LeftOut(step) == credentials = "client" /\ step.guard = "user"
At(kinds) ==
    phase = "running" /\ todo # <<>> /\ Head(todo).does \in kinds /\ ~LeftOut(Head(todo))
Proceed ==
    /\ todo' = Tail(todo)
    /\ UNCHANGED <<optionVars, phase, command, attempt, error, status>>
Pass == Proceed /\ UNCHANGED made

Return == phase = "running" /\ todo = <<>> /\ Raise(NoError)

LeaveOut == phase = "running" /\ todo # <<>> /\ LeftOut(Head(todo)) /\ Pass

\* Fault: a later check forgets what an earlier one has found.
CheckLogins_Replaced ==
    /\ At({"login"})
    /\ \/ /\ credentials # "half"
          /\ Proceed
          /\ asserted' = Head(todo).on
          /\ UNCHANGED <<wrote, documents, texts, lines, path, items, tasks>>
       \/ credentials = "user" /\ Head(todo).on # {} /\ Raise(Raised("missing_login"))
       \/ credentials = "half" /\ Raise(Raised("value"))

\* Fault: clients are looked up in the storage like users.
CheckLogins_Clients ==
    /\ At({"login"})
    /\ \/ /\ credentials # "half"
          /\ Proceed
          /\ asserted' = asserted \union Head(todo).on
          /\ UNCHANGED <<wrote, documents, texts, lines, path, items, tasks>>
       \/ credentials # "half" /\ Head(todo).on # {} /\ Raise(Raised("missing_login"))
       \/ credentials = "half" /\ Raise(Raised("value"))

\* requires_login, assert_logins.  Clients are always logged in; with one of their
\* variables only there is no LoginManager.
CheckLogins ==
    /\ At({"login"})
    /\ \/ /\ credentials # "half"
          /\ Proceed
          /\ asserted' = asserted \union Head(todo).on
          /\ UNCHANGED <<wrote, documents, texts, lines, path, items, tasks>>
       \/ credentials = "user" /\ Head(todo).on # {} /\ Raise(Raised("missing_login"))
       \/ credentials = "half" /\ Raise(Raised("value"))

\* A command or a service finds fault with the arguments.
CheckArguments ==
    /\ At({"reject", "type", "gare", "fail"})
    /\ \/ Pass
       \/ Raise(CASE Head(todo).does = "reject" -> Raised("usage")
                  [] Head(todo).does = "type" -> Raised("wrong_type")
                  [] Head(todo).does = "gare" -> Requirements(NoError)
                  [] Head(todo).does = "fail" -> Raised("value"))

\* FlowScopeInjector: what asks for consent or a session is raised with the scope
\* of the flow, if the flow of a run is found; the client for that may lack tokens.
Injected(e) ==
    IF e.info \notin {"consent", "session"} THEN {e}
    ELSE CASE Head(todo).guard = "flow" -> {Requirements(e)}
           [] Head(todo).guard = "run" ->
                {e, Requirements(e)}
                \union (IF "search" \in asserted THEN {} ELSE {Raised("value")})
           [] OTHER -> {e}

ServiceRefuses == \E e \in ApiErrors : \E raised \in Injected(e) : Raise(raised)

\* _get_client_authorizer: without tokens there is a ValueError, but clients
\* request them then and there.
GetClient ==
    /\ At({"client"})
    /\ \/ Pass
       \/ credentials = "user" /\ ~(Head(todo).on \subseteq asserted) /\ Raise(Raised("value"))
       \/ credentials = "client" /\ (ServiceRefuses \/ Raise(Raised("network")))

\* Calls that change nothing; so does provisioning, but for identities.
Call ==
    /\ At({"read", "ask", "provision"})
    /\ \/ Pass
       \/ Head(todo).does # "ask" /\ ServiceRefuses
       \/ Raise(Raised("network"))

\* Calls that do.  Whether one whose answer is lost has been carried out nobody
\* can tell; the response to a batch of actions may say that nothing was done.
Change ==
    /\ At({"write", "action"})
    /\ \/ /\ Proceed
          /\ wrote' = wrote + 1
          /\ UNCHANGED <<asserted, documents, texts, lines, path, items, tasks>>
       \/ ServiceRefuses
       \/ Raise(Raised("network"))
       \/ Head(todo).does = "action" /\ Raise(Raised("value"))

\* Fault: the document is made without the ID.
SubmissionId_Dropped(users) == "fetched"

\* TransferData and DeleteData take the ID of the user; without one the SDK
\* fetches it.
SubmissionId(users) == users

\* Transfer takes a submission ID once and says so when it is used again.
AcceptTask(n, id) == IF id = "given" /\ n > 0 THEN n ELSE n + 1

Submission ==
    /\ At({"submit"})
    /\ \/ /\ Proceed
          /\ tasks' = AcceptTask(tasks, SubmissionId("given"))
          /\ wrote' = wrote + 1
          /\ UNCHANGED <<asserted, documents, texts, lines, path, items>>
       \/ /\ Finish(Raised("network"))
          /\ tasks' = AcceptTask(tasks, SubmissionId("given"))
          /\ UNCHANGED <<asserted, wrote, documents, texts, lines, path, items>>
       \/ Raise(Raised("network"))
       \/ ServiceRefuses

\* Fault: the item is made before the path is converted.
AddItem_Early(before, p) == Append(before, "None")

\* Fault: the items are the TaskPath object, not what it says.
AddItem_Shared(before, p) == [i \in 1 .. Len(before) + 1 |-> p]

\* process_batch_line: an item holds the path as a string.
AddItem(before, p) == Append(before, p)

\* TaskPath.convert writes to the object that belongs to the parameter.
BatchLine ==
    /\ At({"batch"})
    /\ Len(lines) < MaxLines
    /\ \E p \in Paths :
        /\ lines' = Append(lines, p)
        /\ path' = p
        /\ items' = AddItem(items, path')
    /\ UNCHANGED <<optionVars, phase, command, todo, asserted, wrote, documents, texts,
                   tasks, attempt, error, status>>

\* shlex_process_stream: a line click refuses, an open quote, or --help.
BatchEnds ==
    /\ At({"batch"})
    /\ \/ Pass
       \/ Raise(ExitWith(2))
       \/ Raise(Raised("value"))
       \/ Raise(ExitWith(0))
-------------------------------------------------------------------------------
(* Output *)

InText == state.output_format = "text"

\* Formatters that call a service are used in text only.
LookUpNames ==
    /\ At({"names"})
    /\ \/ Pass
       \/ InText /\ ServiceRefuses
       \/ InText /\ Raise(Raised("network"))

\* Fault: TextMode.SILENT is not looked at.
Display_NotSilent ==
    /\ At({"show", "silent"})
    /\ \/ /\ Proceed
          /\ IF InText THEN texts' = texts + 1 /\ UNCHANGED documents
                       ELSE documents' = documents + 1 /\ UNCHANGED texts
          /\ UNCHANGED <<asserted, wrote, lines, path, items, tasks>>
       \/ state.output_format = "unix" /\ Raise(Raised("usage"))
       \/ ~InText /\ state.jmespath_expr /\ Raise(Raised("value"))

\* display.  A document may be cut off by a UnixFormattingError, or not be what
\* the JMESPath expression expects.
Display ==
    /\ At({"show", "silent"})
    /\ \/ /\ Proceed
          /\ IF InText
             THEN /\ texts' = IF Head(todo).does = "show" THEN texts + 1 ELSE texts
                  /\ UNCHANGED documents
             ELSE documents' = documents + 1 /\ UNCHANGED texts
          /\ UNCHANGED <<asserted, wrote, lines, path, items, tasks>>
       \/ state.output_format = "unix" /\ Raise(Raised("usage"))
       \/ ~InText /\ state.jmespath_expr /\ Raise(Raised("value"))

\* Fault: what is meant for people is echoed in every format.
Echoes_AnyFormat ==
    \/ Head(todo).does \in {"echo", "text"}
    \/ Head(todo).does = "verbose" /\ state.verbosity > 0

Echoes ==
    \/ Head(todo).does = "echo"
    \/ Head(todo).does = "text" /\ InText
    \/ Head(todo).does = "verbose" /\ state.verbosity > 0

EchoLine ==
    /\ At({"text", "echo", "verbose"})
    /\ Proceed
    /\ texts' = IF Echoes THEN texts + 1 ELSE texts
    /\ UNCHANGED <<asserted, wrote, documents, lines, path, items, tasks>>

ExitStep == At({"exit"}) /\ Raise(ExitWith(ExitCodes[Head(todo).call]))
-------------------------------------------------------------------------------
\* After a network error the user repeats the command line, with the submission
\* ID that is part of it.
WithId(s) == \E i \in DOMAIN s : s[i].does = "submit"

Repeat ==
    /\ phase = "ended" /\ error = Raised("network")
    /\ WithId(todo)
    /\ attempt < MaxAttempts
    /\ \E c \in Catalog : \E s \in c.scripts : c.name = command /\ WithId(s) /\ todo' = s
    /\ phase' = "running"
    /\ attempt' = attempt + 1
    /\ asserted' = {} /\ wrote' = 0 /\ documents' = 0 /\ texts' = 0
    /\ lines' = <<>> /\ path' = "none" /\ items' = <<>>
    /\ error' = NoError /\ status' = 0
    /\ UNCHANGED <<optionVars, command, tasks>>

Act ==
    \/ Options \/ RefuseCommandLine \/ Invoke \/ Return
    \/ LeaveOut \/ CheckLogins \/ GetClient \/ CheckArguments
    \/ Call \/ Change \/ Submission \/ BatchLine \/ BatchEnds
    \/ LookUpNames \/ Display \/ EchoLine \/ ExitStep
    \/ Repeat

Next == Act /\ UNCHANGED credentials

Spec == Init /\ [][Next]_vars
-------------------------------------------------------------------------------
Ended == phase = "ended"
EndedAt(kinds) == Ended /\ todo # <<>> /\ Head(todo).does \in kinds

\* What services have changed is followed by output, and nothing that could still
\* refuse the command or fail for another reason: a command that fails otherwise
\* can be repeated.  task cancel --all goes on cancelling, rm waits for its task; a
\* client requests the tokens for its output only then.
ChangedMeansReported ==
    Ended /\ wrote > 0 /\ status # 0 =>
        \/ EndedAt({"names", "show", "silent"}) \/ command \in {"task cancel", "rm"}
        \/ credentials = "client" /\ EndedAt({"client"})

\* Commands whose output is not for programs
FreeText ==
    {c.name : c \in {c \in Catalog : "format" \in c.disabled}} \union {"list-commands"}
    \union {"api " \o s : s \in {"auth", "flows", "gcs", "groups", "search", "timers", "transfer"}}

\* whoami --linked-identities ends with status 0 although it has nothing to show
\* when the login lacks the consent for it.
Undocumented == {"whoami"}

\* A script that asks for JSON or unix output and sees status 0 finds one document
\* on stdout and nothing else, or nothing at all from a command that may end well
\* without one.  (--help in a batch ends the command.)
OneDocument ==
    /\ Ended /\ error \in {NoError, ExitWith(0)} /\ ~EndedAt({"batch"})
    /\ ~InText /\ command \notin FreeText
    => /\ documents = 1 \/ (documents = 0 /\ command \in Undocumented)
       /\ texts = 0

\* A transfer, delete or rm repeated with its --submission-id after the answer to
\* the first was lost is submitted once.
SubmittedOnce ==
    /\ tasks <= 1
    /\ Ended /\ error = NoError /\ attempt > 0 => tasks = 1

\* A batch is submitted line by line as it was written, although all lines go
\* through one parameter object, and not at all when one of them is no good.
BatchAsWritten ==
    /\ items = lines
    /\ EndedAt({"batch"}) => wrote = 0

\* Commands that use the auth client without requires_login("auth")
AuthUnasked ==
    {"flows create", "flows list", "timer resume", "group join", "group leave",
     "group invite accept", "group invite decline", "group member add",
     "group member approve", "group member invite", "group member reject",
     "group member remove", "collection role list", "collection role show",
     "gcs endpoint role create", "gcs endpoint role list", "gcs endpoint role show"}

\* A login that is missing is noticed by the check at the beginning of a command,
\* which says what to do, not by the client that is made later; a client, which
\* cannot log in, is not told to, but for a session that has timed out.
ClientsHaveLogins ==
    /\ EndedAt({"client"}) /\ error = Raised("value") =>
            Head(todo).on = {"auth"} /\ command \in AuthUnasked
    /\ credentials = "client" /\ Ended =>
            /\ error.type # "missing_login"
            /\ status = 4 /\ EndedAt({"exit"}) => command = "collection create guest"

\* The answer of a service that ended the command, where there is one: also the one
\* that FlowScopeInjector turned into a requirement.
Answers ==
    CASE error.type = "api" -> {error}
      [] error.type = "requirements" -> {error.origin} \ {NoError}
      [] OTHER -> {}
Mapped(e) == e.http \in DOMAIN state.http_status_map

\* A login, a consent or a session was needed and not there.
Unmet ==
    \/ error.type \in {"missing_login", "requirements"}
    \/ error.type = "api" /\ error.info \in {"consent", "session"}

\* What the exit status says (reference/_generate.py:35-50, --map-http-status).
\* Status 0 is for success, and for an answer whose status is mapped to it.  An
\* answer with a mapped status gives the mapped exit code; only one turned into a
\* requirement by FlowScopeInjector may give 4 in spite of the map.  Status 4 says
\* that a login, a consent or a session was missing.  That does not always give 4:
\* in JSON format, and for an answer without JSON, the generic hooks come first,
\* where the reference makes no exception.
DocumentedStatus ==
    Ended =>
        /\ status = 0 =>
                error \in {NoError, ExitWith(0)} \/ \E e \in Answers : Mapped(e)
        /\ \A e \in Answers : Mapped(e) =>
                \/ status = state.http_status_map[e.http]
                \/ status = 4 /\ error.type = "requirements"
                        /\ state.output_format # "json"
        /\ status = 4 => Unmet \/ EndedAt({"exit"})
        /\ Unmet =>
                \/ status = 4
                \/ \E e \in Answers :
                        Mapped(e) \/ state.output_format = "json" \/ e.info = "null"

\* task cancel --all prints a line for each task as it is cancelled, so that none is
\* missing when a later cancellation fails.
CancelledAreListed == command = "task cancel" /\ Ended /\ InText => texts = wrote
===============================================================================
