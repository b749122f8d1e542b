--------------------------- MODULE BookmarkCommands ---------------------------
(* globus bookmark and globus streams                                          *)
EXTENDS Scripts

\* A name that is no UUID, or the UUID of no bookmark, is searched in the list,
\* where it may not be found.
resolve_id_or_name ==
    Either(Read("transfer", "get_bookmark"),
        Script(<<Maybe(Ask("transfer", "get_bookmark")),
                 Read("transfer", "bookmark_list"), Maybe(Exit("failure"))>>))

bookmark_create ==
    Command("bookmark create",
        <<Using("transfer"), Write("transfer", "create_bookmark"), Show>>)

bookmark_delete ==
    Command("bookmark delete",
        <<Using("transfer"), resolve_id_or_name, Write("transfer", "delete_bookmark"),
          Show>>)

\* The names of the endpoints are looked up one by one.
bookmark_list ==
    Command("bookmark list",
        <<Using("transfer"), Read("transfer", "bookmark_list"),
          ShowWithNames("transfer", "get_endpoint")>>)

bookmark_rename ==
    Command("bookmark rename",
        <<Using("transfer"), resolve_id_or_name, Write("transfer", "update_bookmark"),
          Show>>)

bookmark_show == Command("bookmark show", <<Using("transfer"), resolve_id_or_name, Show>>)

\* streams: requires_login("auth", "transfer")
StreamCommand(name, call) ==
    Command(name, <<Login({"auth", "transfer"}), Client("transfer"), call, Show>>)

show_access_point_command ==
    StreamCommand("streams access-point show", Read("transfer", "get_stream_access_point"))
create_tunnel_command ==
    StreamCommand("streams tunnel create", Write("transfer", "create_tunnel"))
delete_tunnel_command ==
    StreamCommand("streams tunnel delete", Write("transfer", "delete_tunnel"))
show_tunnel_events_command ==
    StreamCommand("streams tunnel events", Read("transfer", "get_tunnel_events"))
list_tunnel_command ==
    StreamCommand("streams tunnel list", Read("transfer", "list_tunnels"))
show_tunnel_command ==
    StreamCommand("streams tunnel show", Read("transfer", "get_tunnel"))
stop_tunnel_command ==
    StreamCommand("streams tunnel stop", Write("transfer", "update_tunnel"))
update_tunnel_command ==
    StreamCommand("streams tunnel update", Write("transfer", "update_tunnel"))

BookmarkCatalog ==
    {bookmark_create, bookmark_delete, bookmark_list, bookmark_rename, bookmark_show,
     show_access_point_command, create_tunnel_command, delete_tunnel_command,
     show_tunnel_events_command, list_tunnel_command, show_tunnel_command,
     stop_tunnel_command, update_tunnel_command}
==============================================================================
