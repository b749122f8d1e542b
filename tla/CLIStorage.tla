------------------------------ MODULE CLIStorage ------------------------------
(***************************************************************************)
(* globus_cli.login_manager.storage: one namespace of ~/.globus/cli/       *)
(* storage.db.  Every operation of the SQLite adapter is a transaction of  *)
(* its own; nothing holds the database across two of them, so what several *)
(* operations do together is as interleaved as the processes that call     *)
(* them.                                                                   *)
(***************************************************************************)
EXTENDS GlobusAuth

CONSTANTS
    MinContract,       \* min_contract_version of each resource server
    CURRENT_SCOPE_CONTRACT_VERSION

ASSUME ContractAssumption ==
    /\ Contracts = 0..CURRENT_SCOPE_CONTRACT_VERSION
    /\ CURRENT_SCOPE_CONTRACT_VERSION \in Nat
    /\ MinContract \in [ResourceServers -> Contracts]

CONSTANT NoIdentity
ASSUME NoIdentityAssumption == NoIdentity \notin Identities

VARIABLES
    db,                       \* does storage.db exist?
    tokens,                   \* token data by resource server
    auth_user_data,           \* the identity logged in as, or NoIdentity
    auth_client_data,         \* the templated client, or NoClient
    scope_contract_versions,  \* by resource server; missing reads as 0
    oldConfig                 \* what ~/.globus.cfg names that is still valid

storageVars == <<db, tokens, auth_user_data, auth_client_data,
                 scope_contract_versions, oldConfig>>

TokenData == [ResourceServers -> Grant \cup {NoGrant}]
NoTokens == [rs \in ResourceServers |-> NoGrant]
NoVersions == [rs \in ResourceServers |-> 0]

\* The resource servers a token map has data for; a token response; the stored
\* tokens of one resource server; a token map without a resource server.
Held(data) == {rs \in ResourceServers : data[rs] # NoGrant}
Response(g, servers) ==
    [rs \in ResourceServers |-> IF rs \in servers THEN g ELSE NoGrant]
Only(rs) == [NoTokens EXCEPT ![rs] = tokens[rs]]
Without(data, rs) == [data EXCEPT ![rs] = NoGrant]

StorageTypeOK ==
    /\ db \in BOOLEAN
    /\ tokens \in TokenData
    /\ auth_user_data \in Identities \cup {NoIdentity}
    /\ auth_client_data \in Client \cup {NoClient}
    /\ scope_contract_versions \in [ResourceServers -> Contracts]
    /\ oldConfig \subseteq {"tokens", "client"}

\* adapter.store: replaces the rows of the resource servers in the response.
StoreTokens(data) ==
    /\ tokens' = [rs \in ResourceServers |->
                     IF data[rs] # NoGrant THEN data[rs] ELSE tokens[rs]]
    /\ UNCHANGED <<db, auth_user_data, auth_client_data,
                   scope_contract_versions, oldConfig>>

\* adapter.remove_tokens_for_resource_server: by name, whatever the row holds.
RemoveTokens(rs) ==
    /\ tokens' = Without(tokens, rs)
    /\ UNCHANGED <<db, auth_user_data, auth_client_data,
                   scope_contract_versions, oldConfig>>

StoreUserData(who) ==
    /\ auth_user_data' = who
    /\ UNCHANGED <<db, tokens, auth_client_data, scope_contract_versions, oldConfig>>

StoreClientData(c) ==
    /\ auth_client_data' = c
    /\ UNCHANGED <<db, tokens, auth_user_data, scope_contract_versions, oldConfig>>

StoreVersions(versions) ==
    /\ scope_contract_versions' = versions
    /\ UNCHANGED <<db, tokens, auth_user_data, auth_client_data, oldConfig>>

\* Fault: every resource server is marked, not those of the response.
MarkCurrent_All(versions, data) ==
    [rs \in ResourceServers |-> CURRENT_SCOPE_CONTRACT_VERSION]

\* Fault: the stored version is raised, not set.
MarkCurrent_Raise(versions, data) ==
    [rs \in ResourceServers |->
        IF data[rs] # NoGrant THEN versions[rs] + 1 ELSE versions[rs]]

\* The second half of CLIStorage.store: the versions read before, with the
\* current one for every resource server of the response.
MarkCurrent(versions, data) ==
    [rs \in ResourceServers |->
        IF data[rs] # NoGrant THEN CURRENT_SCOPE_CONTRACT_VERSION ELSE versions[rs]]

\* invalidate_old_config, one API call at a time.
InvalidateOld(what) ==
    /\ oldConfig' = oldConfig \ {what}
    /\ UNCHANGED <<db, tokens, auth_user_data, auth_client_data,
                   scope_contract_versions>>

\* SQLiteAdapter(fname) creates the file.
CreateDb ==
    /\ db' = TRUE
    /\ UNCHANGED <<tokens, auth_user_data, auth_client_data,
                   scope_contract_versions, oldConfig>>
===============================================================================
