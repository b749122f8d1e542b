--------------------------- MODULE EndpointCommands ---------------------------
(* globus endpoint and globus gcp                                              *)
EXTENDS CollectionCommands

\* Endpointish, then assert_entity_type or one of its like.
CheckedEndpoint == Script(<<Read("transfer", "get_endpoint"), CheckType>>)

TransferRead(name, call) == Command(name, <<Using("transfer"), Read("transfer", call), Show>>)
TransferWrite(name, call) == Command(name, <<Using("transfer"), Write("transfer", call), Show>>)
CheckedWrite(name, call) ==
    Command(name, <<Using("transfer"), CheckedEndpoint, Write("transfer", call), Show>>)

endpoint_delete == CheckedWrite("endpoint delete", "delete_endpoint")

\* Files of Globus Connect Personal; there may be none.
local_id ==
    PlainCommand("endpoint local-id", <<Either(Exit("failure"), Echo)>>)

my_shared_endpoint_list ==
    TransferRead("endpoint my-shared-endpoint-list", "my_shared_endpoint_list")

\* The whole of a scope is searched with a filter only.
endpoint_search ==
    Command("endpoint search",
        <<Login({"auth", "transfer"}), Reject, Client("transfer"), Client("auth"),
          LookupIdentity, Paging("transfer", "endpoint_search"), Show>>)

set_endpoint_subscription_id ==
    TransferWrite("endpoint set-subscription-id", "set_subscription_id")

\* --skip-endpoint-type-check
endpoint_show ==
    Command("endpoint show",
        <<Using("transfer"), Maybe(CheckedEndpoint), Read("transfer", "get_endpoint"), Show>>)

\* Options for servers, for managed endpoints, and for a custom network use
validate_endpoint_create_and_update_params == Reject

endpoint_update ==
    Command("endpoint update",
        <<Reject, Using("transfer"), CheckedEndpoint,
          validate_endpoint_create_and_update_params,
          Write("transfer", "update_endpoint"), Show>>)

\* Principals: an identity must exist, unless --provision-identity is given.
PrincipalClients ==
    Script(<<Login({"auth", "transfer"}), Client("transfer"), Client("auth")>>)
resolve_principal == Either(FindIdentity, ProvisionIdentity)

permission_create ==
    Command("endpoint permission create",
        <<Reject, PrincipalClients, resolve_principal,
          Write("transfer", "add_endpoint_acl_rule"), Show>>)
permission_delete == TransferWrite("endpoint permission delete", "delete_endpoint_acl_rule")
permission_list ==
    Command("endpoint permission list",
        <<PrincipalClients, Read("transfer", "endpoint_acl_list"), ShowNames>>)
permission_show ==
    Command("endpoint permission show",
        <<PrincipalClients, Read("transfer", "get_endpoint_acl_rule"), ShowNames>>)
permission_update == TransferWrite("endpoint permission update", "update_endpoint_acl_rule")

role_create ==
    Command("endpoint role create",
        <<Reject, PrincipalClients, resolve_principal,
          Write("transfer", "add_endpoint_role"), Show>>)
role_delete == TransferWrite("endpoint role delete", "delete_endpoint_role")
role_list ==
    Command("endpoint role list",
        <<Login({"auth", "transfer"}), Client("transfer"),
          Read("transfer", "endpoint_role_list"), Client("auth"), ShowNames>>)
role_show ==
    Command("endpoint role show",
        <<PrincipalClients, Read("transfer", "get_endpoint_role"), ShowNames>>)

\* requires_login("auth", "transfer")
GatewayCommand(name, parts) ==
    Command(name, <<Login({"auth", "transfer"})>> \o parts)
storage_gateway_list ==
    GatewayCommand("endpoint storage-gateway list",
        <<get_gcs_client, Read("gcs", "get_storage_gateway_list"), Show>>)

\* The document must be a JSON object.
user_credential_create_from_json ==
    GatewayCommand("endpoint user-credential create from-json",
        <<Reject, get_gcs_client, Write("gcs", "create_user_credential"), Show>>)
CreateCredential(name) ==
    GatewayCommand(name,
        <<get_gcs_client, Client("auth"), LookupIdentity,
          Write("gcs", "create_user_credential"), Show>>)
user_credential_create_posix == CreateCredential("endpoint user-credential create posix")
user_credential_create_s3 == CreateCredential("endpoint user-credential create s3")
user_credential_delete ==
    GatewayCommand("endpoint user-credential delete",
        <<get_gcs_client, Write("gcs", "delete_user_credential"), Show>>)
user_credential_list ==
    GatewayCommand("endpoint user-credential list",
        <<get_gcs_client, Client("auth"), Read("gcs", "get_user_credential_list"), ShowNames>>)
user_credential_show ==
    GatewayCommand("endpoint user-credential show",
        <<get_gcs_client, Client("auth"), Read("gcs", "get_user_credential"), ShowNames>>)
user_credential_update_from_json ==
    GatewayCommand("endpoint user-credential update from-json",
        <<Reject, get_gcs_client, Write("gcs", "update_user_credential"), Show>>)

gcp_create_guest == TransferWrite("gcp create guest", "create_shared_endpoint")
gcp_create_mapped == TransferWrite("gcp create mapped", "post_endpoint")
gcp_set_subscription_admin_verified ==
    CheckedWrite("gcp set-subscription-admin-verified", "set_subscription_admin_verified")
gcp_set_subscription_id == CheckedWrite("gcp set-subscription-id", "set_subscription_id")
gcp_update_guest == TransferWrite("gcp update guest", "update_endpoint")
gcp_update_mapped == TransferWrite("gcp update mapped", "update_endpoint")

EndpointCatalog ==
    {endpoint_delete, local_id, my_shared_endpoint_list, endpoint_search,
     set_endpoint_subscription_id, endpoint_show, endpoint_update, permission_create,
     permission_delete, permission_list, permission_show, permission_update, role_create,
     role_delete, role_list, role_show, storage_gateway_list,
     user_credential_create_from_json, user_credential_create_posix,
     user_credential_create_s3, user_credential_delete, user_credential_list,
     user_credential_show, user_credential_update_from_json, gcp_create_guest,
     gcp_create_mapped, gcp_set_subscription_admin_verified, gcp_set_subscription_id,
     gcp_update_guest, gcp_update_mapped}
==============================================================================
