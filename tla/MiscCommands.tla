----------------------------- MODULE MiscCommands -----------------------------
(* globus api, session show, whoami, get-identities and the commands about the *)
(* program itself                                                              *)
EXTENDS CollectionCommands

\* The answer is echoed as it came with --allow-errors, displayed otherwise,
\* its headers before it with -v.
execute_service_command ==
    Either(Script(<<Either(Read("api", "request"), Write("api", "request")),
                    EchoVerbose, Show>>),
           Script(<<Ask("api", "request"), EchoVerbose, Echo>>))

\* --scope-string is for client logins.
handle_scope_string == ForUser(Reject)

build_command(service) ==
    Command("api " \o service,
        <<Login({service}), handle_scope_string, Client(service),
          execute_service_command>>)
api_gcs ==
    Command("api gcs",
        <<Login({"auth", "transfer"}), handle_scope_string, get_gcs_client,
          execute_service_command>>)

ApiCatalog ==
    {build_command(s) : s \in {"auth", "flows", "groups", "search", "timers", "transfer"}}
        \union {api_gcs}

\* The stored token is looked into; names are looked up in any format.
session_show ==
    Command("session show",
        <<Using("auth"), Maybe(Read("auth", "oauth2_token_introspect")),
          Maybe(Read("auth", "get_identities")), Show>>)

\* "Unable to get user information" ends it; --linked-identities without the
\* consent for it says so on stderr, and the command ends well.
whoami_command ==
    [Command("whoami",
        <<Using("auth"), Ask("auth", "userinfo"), Either(Exit("failure"), Maybe(Show))>>)
        EXCEPT !.disabled = {"map_http_status"}]

\* IDs, then names; --provision creates those that are unknown.
get_identities ==
    Either(UpTo(2, Read("auth", "get_identities")), UpTo(2, ProvisionIdentity))
get_identities_command ==
    Command("get-identities", <<Using("auth"), get_identities, Show>>)

\* A table of each kind of profile, with an empty line before the second.
cli_profile_list ==
    PlainCommand("cli-profile-list", <<Login({}), Maybe(Show), Maybe(Script(<<Echo, Show>>))>>)

\* No pip, no answer, or no consent
update_command ==
    PlainCommand("update", <<Echo, Maybe(Exit("failure"))>>)
version_command == PlainCommand("version", <<Echo, EchoVerbose>>)
list_commands == Command("list-commands", <<Echo>>)
removal_stub_command == PlainCommand("endpoint activate", <<Exit("failure")>>)

MiscCatalog ==
    ApiCatalog \union
    {session_show, whoami_command, get_identities_command, cli_profile_list,
     update_command, version_command, list_commands, removal_stub_command}
==============================================================================
