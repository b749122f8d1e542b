---------------------------- MODULE SearchCommands ----------------------------
(* globus search                                                               *)
EXTENDS Scripts

SearchCommand(name, call) == Command(name, <<Using("search"), call, Show>>)
SearchRead(name, call) == SearchCommand(name, Read("search", call))
SearchWrite(name, call) == SearchCommand(name, Write("search", call))

\* -q and --query-document exclude each other; one of them is needed, and the
\* document must be a JSON object.
delete_by_query_command ==
    Command("search delete-by-query",
        <<Reject, Using("search"), Reject, Write("search", "delete_by_query"), Show>>)

query_command ==
    Command("search query",
        <<Reject, Using("search"), Reject,
          Either(Read("search", "search"), Read("search", "post_search")), Show>>)

\* The document must be an object of a known datatype.
ingest_command ==
    Command("search ingest",
        <<Using("search"), Reject, Write("search", "ingest"), Show>>)

index_create_command == SearchWrite("search index create", "create_index")
index_delete_command == SearchWrite("search index delete", "delete_index")
index_list_command == SearchRead("search index list", "index_list")
index_show_command == SearchRead("search index show", "get_index")

subject_delete_command == SearchWrite("search subject delete", "delete_subject")
subject_show_command ==
    Command("search subject show",
        <<Login({"auth", "search"}), Client("search"), Read("search", "get_subject"),
          Show>>)

task_list_command == SearchRead("search task list", "get_task_list")
task_show_command == SearchRead("search task show", "get_task")

\* resolve_principal_urn: what is no principal is refused.
role_create_command ==
    Command("search index role create",
        <<Login({"auth", "search"}), Client("search"), Client("auth"), FindIdentity,
          Write("search", "create_role"), ShowNames>>)

role_delete_command == SearchWrite("search index role delete", "delete_role")

role_list_command ==
    Command("search index role list",
        <<Login({"auth", "search"}), Client("search"), Client("auth"),
          Read("search", "get_role_list"), ShowNames>>)

SearchCatalog ==
    {delete_by_query_command, query_command, ingest_command, index_create_command,
     index_delete_command, index_list_command, index_show_command,
     subject_delete_command, subject_show_command, task_list_command,
     task_show_command, role_create_command, role_delete_command, role_list_command}
==============================================================================
