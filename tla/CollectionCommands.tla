-------------------------- MODULE CollectionCommands --------------------------
(* globus collection and globus gcs endpoint: commands that talk to the manager *)
(* of a Globus Connect Server endpoint                                         *)
EXTENDS Scripts

\* LoginManager.get_gcs_client: the endpoint, or that of the collection, is read
\* and must be of the right type; its consent is required; its document may hold
\* no usable address.
get_gcs_client ==
    Script(<<Client("transfer"), Read("transfer", "get_endpoint"), CheckType,
             Login({"gcs"}), Fail, Client("gcs")>>)

OnManager == Script(<<Login({"transfer"}), get_gcs_client>>)
OnManagerWithNames == Script(<<Login({"auth", "transfer"}), get_gcs_client, Client("auth")>>)

ManagerRead(name, call) == Command(name, <<OnManager, Read("gcs", call), Show>>)
ManagerWrite(name, call) == Command(name, <<OnManager, Write("gcs", call), Show>>)

collection_delete == ManagerWrite("collection delete", "delete_collection")

collection_list ==
    Command("collection list",
        <<OnManagerWithNames, Paging("gcs", "get_collection_list"), ShowNames>>)

collection_show ==
    Command("collection show",
        <<OnManagerWithNames, Read("gcs", "get_collection"), ShowNames>>)

\* --sharing-restrict-paths must be an object; some options go with one kind of
\* collection only.
collection_update ==
    Command("collection update",
        <<Login({"auth", "transfer"}), Reject, get_gcs_client, Reject,
          Write("gcs", "update_collection"), Show>>)

\* One credential of the user must be on the storage gateway.
select_user_credential_id ==
    Script(<<Read("gcs", "get_collection"), Read("gcs", "get_user_credential_list"), Fail>>)

\* A timed out session is answered with MissingLoginError.
collection_create_guest ==
    Command("collection create guest",
        <<Reject, Login({"auth", "transfer"}), get_gcs_client,
          Maybe(select_user_credential_id),
          Either(Write("gcs", "create_collection"),
                 Script(<<Ask("gcs", "create_collection"), Exit("auth")>>)),
          Client("auth"), ShowNames>>)

\* The storage gateway may be left out when there is just one.
find_storage_gateway == Script(<<Read("gcs", "get_storage_gateway_list"), Reject>>)

\* Sharing policies of different connectors exclude each other.
mapped_collection_options == Reject

collection_create_mapped ==
    Command("collection create mapped",
        <<mapped_collection_options, Login({"auth", "transfer"}), Reject, get_gcs_client,
          Maybe(find_storage_gateway), Write("gcs", "create_collection"),
          Client("auth"), ShowNames>>)

collection_role_delete == ManagerWrite("collection role delete", "delete_role")

\* The auth client is used without requires_login("auth").
RoleClients == Script(<<OnManager, Client("auth")>>)

collection_role_list ==
    Command("collection role list", <<RoleClients, Read("gcs", "get_role_list"), ShowNames>>)
collection_role_show ==
    Command("collection role show", <<RoleClients, Read("gcs", "get_role"), ShowNames>>)

gcs_set_subscription_id ==
    ManagerWrite("gcs endpoint set-subscription-id", "put_subscription_id")
gcs_endpoint_show == ManagerRead("gcs endpoint show", "get_endpoint")

\* --network-use=custom needs all of its options; before the login is checked.
network_use_constraints == Reject

gcs_endpoint_update ==
    Command("gcs endpoint update",
        <<network_use_constraints, OnManager, Write("gcs", "update_endpoint"), Show>>)

gcs_role_create ==
    Command("gcs endpoint role create",
        <<RoleClients, FindIdentity, Write("gcs", "create_role"), ShowNames>>)
gcs_role_delete == ManagerWrite("gcs endpoint role delete", "delete_role")
gcs_role_list ==
    Command("gcs endpoint role list",
        <<RoleClients, Paging("gcs", "get_role_list"), ShowNames>>)
gcs_role_show ==
    Command("gcs endpoint role show", <<RoleClients, Read("gcs", "get_role"), ShowNames>>)

CollectionCatalog ==
    {collection_delete, collection_list, collection_show, collection_update,
     collection_create_guest, collection_create_mapped, collection_role_delete,
     collection_role_list, collection_role_show, gcs_set_subscription_id,
     gcs_endpoint_show, gcs_endpoint_update, gcs_role_create, gcs_role_delete,
     gcs_role_list, gcs_role_show}
==============================================================================
