---------------------------- MODULE TimerCommands ----------------------------
(* globus timer                                                                *)
EXTENDS Scripts

TimerCommand(name, call) == Command(name, <<Using("timers"), call, Show>>)

delete_command == TimerCommand("timer delete", Write("timers", "delete_job"))
list_command == TimerCommand("timer list", Read("timers", "list_jobs"))
pause_command == TimerCommand("timer pause", Write("timers", "pause_job"))
show_command == TimerCommand("timer show", Read("timers", "get_job"))

\* Of what an inactive timer requires only consents are known to be met; the
\* auth client is used without requires_login("auth").
check_inactive_reason ==
    Either(Script(<<Client("auth"), Read("auth", "get_consents"), CheckGare>>), CheckGare)

resume_command ==
    TimerCommand("timer resume",
        Script(<<Read("timers", "get_job"), Maybe(check_inactive_reason),
                 Write("timers", "resume_job")>>))

\* --interval, --stop-after-date and --stop-after-runs do not go together with
\* each other, or one of them is missing; before the logins are checked.
timer_schedule_options == Reject

\* That there is no such flow is an answer too.
verify_flow_exists ==
    Script(<<Client("flows"),
             Either(Read("flows", "get_flow"),
                    Script(<<Ask("flows", "get_flow"), Exit("usage")>>))>>)

\* LoginManager.get_timer_client, with the scopes the timer needs
FlowTimerClient == Script(<<Login({"timers"}), Client("timers")>>)

flow_command ==
    Command("timer create flow",
        <<timer_schedule_options, Login({"auth", "flows", "timers"}),
          verify_flow_exists, FlowTimerClient, Write("timers", "create_timer"), Show>>)

\* Endpointish of the source and of the destination
Endpoints ==
    Script(<<Read("transfer", "get_endpoint"), Read("transfer", "get_endpoint")>>)

\* Collections that need a data_access consent the user has not given; a client
\* login just adds it to its requirements.
derive_missing_scopes ==
    ForUser(Script(<<Read("auth", "get_consents"), Maybe(Exit("auth"))>>))

transfer_command ==
    Command("timer create transfer",
        <<timer_schedule_options, Login({"auth", "timers", "transfer"}),
          Client("auth"), Client("transfer"), Reject, Endpoints,
          Maybe(derive_missing_scopes), Maybe(Batch), Client("timers"),
          Write("timers", "create_timer"), Show>>)

TimerCatalog ==
    {delete_command, list_command, pause_command, show_command, resume_command,
     flow_command, transfer_command}
==============================================================================
