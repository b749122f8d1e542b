------------------------------ MODULE GlobusAuth ------------------------------
(***************************************************************************)
(* Globus Auth as the CLI sees it: an external service that registers      *)
(* instance ("templated") clients, issues grants of tokens, refreshes      *)
(* access tokens and revokes tokens.  Its code is not in the repository;   *)
(* everything here is read off the calls that globus_cli.login_manager and *)
(* commands/logout.py make and the outcomes they handle.                   *)
(*                                                                         *)
(* A grant stands for one token response.  It carries the identity (the    *)
(* "sub" of the id token), the client it was issued to, and the scope      *)
(* contract its scopes were requested under.  For every resource server    *)
(* of the response the grant has one access and one refresh token.         *)
(***************************************************************************)
EXTENDS Integers

CONSTANTS
    Identities,        \* the identities a user can authenticate as
    ResourceServers,   \* resource servers tokens are issued for
    Contracts,         \* scope contract versions of CLI releases
    MaxGrants,         \* bound: grants issued in a behaviour
    MaxClients         \* bound: templated clients registered in a behaviour

ASSUME BoundsAssumption == MaxGrants \in Nat \ {0} /\ MaxClients \in Nat \ {0}

VARIABLES
    issued,            \* number of grants issued so far
    live,              \* <<grant, resource server, kind>> of every usable token
    registered,        \* number of templated clients registered so far
    clients            \* the templated clients that have not been deleted

authVars == <<issued, live, registered, clients>>

NoClient == 0
Client == 1..MaxClients
Kind == {"access_token", "refresh_token"}

Grant == [n : 1..MaxGrants, sub : Identities, client : Client, contract : Contracts]
NoGrant == [n |-> 0]

AuthTypeOK ==
    /\ issued \in 0..MaxGrants
    /\ live \subseteq Grant \X ResourceServers \X Kind
    /\ registered \in 0..MaxClients
    /\ clients \subseteq Client

\* oauth2_exchange_code_for_tokens: tokens for the requested resource servers.
Issue(g, servers) ==
    /\ issued' = issued + 1
    /\ live' = live \cup ({g} \X servers \X Kind)
    /\ UNCHANGED <<registered, clients>>

\* oauth2_revoke_token
Revoke(g, rs, kind) ==
    /\ live' = live \ {<<g, rs, kind>>}
    /\ UNCHANGED <<issued, registered, clients>>

\* The refresh grant type: only the client the token was issued to can use it.
CanRefresh(g, rs, c) ==
    /\ <<g, rs, "refresh_token">> \in live
    /\ g.client = c
    /\ c \in clients

RefreshAccess(g, rs) ==
    /\ live' = live \cup {<<g, rs, "access_token">>}
    /\ UNCHANGED <<issued, registered, clients>>

\* POST /v2/api/clients
NewClient == registered + 1
RegisterInstance ==
    /\ registered < MaxClients
    /\ registered' = NewClient
    /\ clients' = clients \cup {NewClient}
    /\ UNCHANGED <<issued, live>>

\* DELETE /v2/api/clients/<id>: its consents go, and with them its tokens.
DeleteInstance(c) ==
    /\ clients' = clients \ {c}
    /\ live' = {t \in live : t[1].client # c}
    /\ UNCHANGED <<issued, registered>>
===============================================================================
