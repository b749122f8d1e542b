------------------------------- MODULE Scripts -------------------------------
(* The language of the command catalogue.                                      *)
(*                                                                             *)
(* A command is the set of the scripts its handler can run: sequences of steps *)
(* that a service, the user or the command state can tell apart.  Options and  *)
(* answers of services that decide which way a handler goes are alternatives   *)
(* between scripts; whether a step succeeds is up to CommandRun.               *)
EXTENDS Naturals, Sequences, SequencesExt

\* One step: what it does, the services it concerns, the call or the outcome,
\* and whether FlowScopeInjector guards it, for a flow or for a run, or a client
\* login leaves it out.
Step(does, on, call) == [does |-> does, on |-> on, call |-> call, guard |-> "none"]
One(step) == {<<step>>}
Guarded(part, guard) ==
    {[i \in DOMAIN s |-> [s[i] EXCEPT !.guard = guard]] : s \in part}
ForFlow(part) == Guarded(part, "flow")
ForRun(part) == Guarded(part, "run")
ForUser(part) == Guarded(part, "user")

\* LoginManager(), then requires_login and assert_logins.
Login(services) == One(Step("login", services, ""))

\* LoginManager.get_transfer_client and its like
Client(service) == One(Step("client", {service}, ""))

\* A call that changes nothing, one that does, and one whose response says
\* whether it did.
Read(service, call) == One(Step("read", {service}, call))
Write(service, call) == One(Step("write", {service}, call))
WriteOrError(service, call) == One(Step("action", {service}, call))

\* A call whose API errors the handler answers itself: what it does then is an
\* alternative of the script.
Ask(service, call) == One(Step("ask", {service}, call))

\* A task is submitted, with the submission ID of the user or one just fetched.
SubmitWithId(call) == One(Step("submit", {"transfer"}, call))

\* The arguments, or what the services said of them, may be refused by
\* click.UsageError, WrongEntityTypeError, CLIAuthRequirementsError, or an
\* exception no hook is registered for.
Reject == One(Step("reject", {}, ""))
CheckType == One(Step("type", {}, ""))
CheckGare == One(Step("gare", {}, ""))
Fail == One(Step("fail", {}, ""))

\* Names are looked up while text is formatted: those of identities, mostly.
ShowWithNames(service, call) ==
    {<<Step("names", {service}, call), Step("show", {}, "")>>}
ShowNames == ShowWithNames("auth", "get_identities")

\* utils.shlex_process_stream on the lines of a batch
Batch == One(Step("batch", {}, ""))

\* display(): a document in any format; in machine formats only
\* (TextMode.SILENT).  click.echo to stdout: in text format only; in any; in any
\* with -v.
Show == One(Step("show", {}, ""))
ShowSilent == One(Step("silent", {}, ""))
EchoText == One(Step("text", {}, ""))
Echo == One(Step("echo", {}, ""))
EchoVerbose == One(Step("verbose", {}, ""))

\* ctx.exit, with the name of a status
Exit(status) == One(Step("exit", {}, status))

\* Scripts one after the other, optional ones, alternatives, repetitions.
Script(parts) ==
    FoldLeft(LAMBDA done, part : {a \o b : a \in done, b \in part}, {<<>>}, parts)
Maybe(part) == part \union {<<>>}
Either(part, other) == part \union other
UpTo(n, part) == Script([i \in 1 .. n |-> Maybe(part)])

Command(name, parts) == [name |-> name, scripts |-> Script(parts), disabled |-> {}]

\* disable_options=["format", "map_http_status"]
PlainOptions == {"format", "jmespath", "map_http_status"}
PlainCommand(name, parts) == [Command(name, parts) EXCEPT !.disabled = PlainOptions]

\* The beginning of most handlers.
Using(service) == Script(<<Login({service}), Client(service)>>)

\* Pages are read as they are needed.
Pages(service, call) == Script(<<Read(service, call), Maybe(Read(service, call))>>)

\* PagingWrapper: one item of look-ahead, from the constructor on.
Paging(service, call) == Pages(service, call)

\* CustomAuthClient.maybe_lookup_identity_id: an ID is not looked up, and an
\* unknown name is provisioned on request.
LookupIdentity == Maybe(Read("auth", "get_identities"))
FindIdentity == Script(<<LookupIdentity, Reject>>)
ProvisionIdentity == One(Step("provision", {"auth"}, "get_identities"))
==============================================================================
