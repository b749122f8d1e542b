---------------------------- MODULE FlowsCommands ----------------------------
(* globus flows                                                                *)
EXTENDS Scripts

FlowLogins == Login({"auth", "flows", "search"})
FlowClients == Script(<<Client("flows"), Client("auth")>>)

\* LoginManager.get_specific_flow_client
SpecificFlow == Using("flow")

\* The definition and the input schema must be JSON objects.
JsonObjects == Reject

flows_create ==
    Command("flows create",
        <<Login({"flows"}), JsonObjects, FlowClients, Write("flows", "create_flow"),
          ShowNames>>)

flows_delete ==
    Command("flows delete",
        <<FlowLogins, FlowClients, ForFlow(Write("flows", "delete_flow")), ShowNames>>)

flows_list ==
    Command("flows list",
        <<Using("flows"), Paging("flows", "list_flows"), Client("auth"), ShowNames>>)

flows_show ==
    Command("flows show",
        <<FlowLogins, FlowClients, ForFlow(Read("flows", "get_flow")), ShowNames>>)

flows_start ==
    Command("flows start",
        <<FlowLogins, JsonObjects, SpecificFlow, Client("auth"),
          ForFlow(Write("flow", "run_flow")), ShowNames>>)

flows_update ==
    Command("flows update",
        <<FlowLogins, JsonObjects, FlowClients, ForFlow(Write("flows", "update_flow")),
          ShowNames>>)

flows_validate ==
    Command("flows validate",
        <<Login({"flows"}), JsonObjects, Client("flows"),
          Read("flows", "validate_flow"), Show>>)

registered_api_list ==
    Command("flows registered-api list",
        <<Using("flows"), Paging("flows", "list_registered_apis"), Show>>)

registered_api_show ==
    Command("flows registered-api show",
        <<Login({"auth", "flows"}), Client("flows"),
          Read("flows", "get_registered_api"), Client("auth"), ShowNames>>)

run_cancel ==
    Command("flows run cancel",
        <<FlowLogins, FlowClients, ForRun(Write("flows", "cancel_run")), ShowNames>>)

run_delete ==
    Command("flows run delete",
        <<FlowLogins, FlowClients, ForRun(Write("flows", "delete_run")), ShowNames>>)

run_list ==
    Command("flows run list", <<Using("flows"), Paging("flows", "list_runs"), Show>>)

\* Of the requirements of an inactive run only consents are known to be met.
check_inactive_reason ==
    Either(Script(<<Client("auth"), Read("auth", "get_consents"), CheckGare>>), CheckGare)

run_resume ==
    Command("flows run resume",
        <<FlowLogins, FlowClients, ForRun(Read("flows", "get_run")), SpecificFlow,
          Maybe(check_inactive_reason), ForFlow(Write("flow", "resume_run")), ShowNames>>)

run_show ==
    Command("flows run show",
        <<FlowLogins, FlowClients, ForRun(Read("flows", "get_run")), ShowNames>>)

run_show_definition ==
    Command("flows run show-definition",
        <<FlowLogins, Client("flows"), ForRun(Read("flows", "get_run_definition")), Show>>)

\* Further pages are read outside the guard; whether the run is still active is
\* asked after the output.
run_show_logs ==
    Command("flows run show-logs",
        <<Using("flows"), ForRun(Read("flows", "get_run_logs")),
          Maybe(Read("flows", "get_run_logs")), Show, ForRun(Read("flows", "get_run"))>>)

run_update ==
    Command("flows run update",
        <<FlowLogins, FlowClients, ForRun(Write("flows", "update_run")), ShowNames>>)

FlowsCatalog ==
    {flows_create, flows_delete, flows_list, flows_show, flows_start, flows_update,
     flows_validate, registered_api_list, registered_api_show, run_cancel, run_delete,
     run_list, run_resume, run_show, run_show_definition, run_show_logs, run_update}
==============================================================================
