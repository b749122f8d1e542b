----------------------------- MODULE LoginSession -----------------------------
(***************************************************************************)
(* globus_cli.login_manager and the commands that change or use a login:   *)
(*   login    `globus login [--force]`                                     *)
(*   consent  `globus session consent`                                     *)
(*   update   `globus session update`                                      *)
(*   use      any command under requires_login(service) that calls it      *)
(*   logout   `globus logout [--ignore-errors]`                            *)
(*   delete   `globus logout --delete-client [--ignore-errors]`            *)
(*                                                                         *)
(* Each CLI process runs one command after another.  A step is one storage *)
(* transaction or one call to Globus Auth together with the local work up  *)
(* to the next one: other processes run, calls fail and the process dies   *)
(* between any two of them.                                                *)
(***************************************************************************)
EXTENDS CLIStorage

CONSTANTS
    Procs,             \* CLI processes sharing one storage namespace
    AuthRS,            \* the resource server of Globus Auth
    Commands,          \* the commands users run
    Sessions,          \* initial storage: subset of {"none", "old", "current"}
    Faults             \* subset of {"network", "api", "crash"}

ASSUME AuthRSAssumption == AuthRS \in ResourceServers /\ MinContract[AuthRS] = 0
ASSUME CommandsAssumption ==
    Commands \subseteq {"login", "consent", "update", "use", "logout", "delete"}

VARIABLE cli           \* the state of each process

vars == <<authVars, storageVars, cli>>

RevokeSteps == {"revoke_access", "revoke_refresh"}
StoreSteps == {"store_tokens", "read_versions", "store_versions"}
ClientSteps == {"client", "register", "save_client"}
RemoteSteps == {"revoke_old", "delete_old", "validate", "call", "register",
                "authorize", "check_user", "api_delete"} \cup RevokeSteps
Steps == {"idle", "open", "create_db", "has_login", "contract", "load_tokens",
          "store_user", "delete_client", "drop_versions",
          "list_tokens", "forget", "remove_user"}
         \cup StoreSteps \cup ClientSteps \cup RemoteSteps
Outcomes == {"none", "ok", "missing_login", "no_tokens", "mismatch", "error"}

\* pc       where the process is            cmd      the command it runs
\* ignore   --ignore-errors                 want     resource servers it needs
\* todo     logins still to be checked      cur      the one being worked on
\* mem      tokens it holds in memory       cred     its cached auth client
\* seen     contract versions it read       outcome  how the last command ended
\* ret      where to go on after the client is known or the tokens are stored
ProcState == [pc : Steps, cmd : Commands \cup {"none"}, ignore : BOOLEAN,
              want : SUBSET ResourceServers, todo : SUBSET ResourceServers,
              cur : ResourceServers, mem : TokenData, cred : Client \cup {NoClient},
              seen : [ResourceServers -> Contracts], outcome : Outcomes,
              ret : {"validate", "call", "authorize", "done"}]

Ended(outcome) ==
    [pc |-> "idle", cmd |-> "none", ignore |-> FALSE, want |-> {}, todo |-> {},
     cur |-> AuthRS, mem |-> NoTokens, cred |-> NoClient, seen |-> NoVersions,
     outcome |-> outcome, ret |-> "done"]

TypeOK == AuthTypeOK /\ StorageTypeOK /\ cli \in [Procs -> ProcState]
-------------------------------------------------------------------------------
\* A fresh install, possibly after a CLI that used ~/.globus.cfg, or a login
\* left by an older or by this release of the CLI.
InitialGrant(who, s) ==
    [n |-> 1, sub |-> who, client |-> 1,
     contract |-> IF s = "old" THEN 0 ELSE CURRENT_SCOPE_CONTRACT_VERSION]

InitFresh ==
    /\ db = FALSE
    /\ tokens = NoTokens
    /\ auth_user_data = NoIdentity
    /\ auth_client_data = NoClient
    /\ scope_contract_versions = NoVersions
    /\ oldConfig \in {{}, {"tokens", "client"}}
    /\ issued = 0
    /\ live = {}
    /\ registered = 0
    /\ clients = {}

InitSession(s) ==
    /\ db = TRUE
    /\ issued = 1
    /\ \E who \in Identities :
        /\ auth_user_data = who
        /\ tokens = [rs \in ResourceServers |-> InitialGrant(who, s)]
        /\ live = {InitialGrant(who, s)} \X ResourceServers \X Kind
    /\ auth_client_data = 1
    /\ scope_contract_versions =
          [rs \in ResourceServers |->
              IF s = "old" THEN 0 ELSE CURRENT_SCOPE_CONTRACT_VERSION]
    /\ oldConfig = {}
    /\ registered = 1
    /\ clients = {1}

Init ==
    /\ cli = [p \in Procs |-> Ended("none")]
    /\ \/ "none" \in Sessions /\ InitFresh
       \/ \E s \in Sessions \ {"none"} : InitSession(s)
-------------------------------------------------------------------------------
At(p, pc) == cli[p].pc = pc
Becomes(p, c) == cli' = [cli EXCEPT ![p] = c]
Goto(p, pc) == Becomes(p, [cli[p] EXCEPT !.pc = pc])
Exit(p, outcome) == Becomes(p, Ended(outcome))

IsLogout(p) == cli[p].cmd \in {"logout", "delete"}

\* What follows the requires_login checks (or the early part of `login`).
Checked(p) == IF cli[p].cmd = "consent" THEN "authorize" ELSE "load_tokens"

\* The logins a command checks before it does anything else.  `login --force`
\* and `consent` check none; requires_login() of logout names no service.
LoginsToCheck(cmd, force, want) ==
    CASE cmd = "login" /\ ~force -> want
      [] cmd = "update" -> {AuthRS}
      [] cmd = "use" -> want
      [] OTHER -> {}

\* What a command line can ask for.
WellFormed(cmd, ignore, force, want, cur) ==
    /\ ignore => cmd \in {"logout", "delete"}
    /\ force => cmd = "login"
    /\ cmd \in {"login", "update"} => want = ResourceServers
    /\ cmd = "consent" => AuthRS \in want
    /\ cmd = "use" => want = {cur}
    /\ cmd \in {"logout", "delete"} => want = {}
    /\ cmd # "use" => cur = AuthRS

Started(cmd, ignore, force, want, cur) ==
    [Ended("none") EXCEPT !.pc = "open", !.cmd = cmd, !.ignore = ignore, !.want = want,
                          !.cur = cur, !.todo = LoginsToCheck(cmd, force, want)]

Start(p) ==
    /\ At(p, "idle")
    /\ \E cmd \in Commands, ignore \in BOOLEAN, force \in BOOLEAN,
          want \in SUBSET ResourceServers, cur \in ResourceServers :
        /\ WellFormed(cmd, ignore, force, want, cur)
        /\ Becomes(p, Started(cmd, ignore, force, want, cur))
    /\ UNCHANGED <<authVars, storageVars>>

\* CLIStorage.__init__: with no storage.db, first invalidate the old config.
AfterOpen(p) ==
    IF cli[p].todo # {} THEN "has_login"
    ELSE IF cli[p].cmd = "login" THEN "authorize" ELSE Checked(p)

\* Fault: the adapter is constructed before the old config is invalidated.
OpenStorage_DbFirst(p) ==
    /\ At(p, "open")
    /\ Goto(p, IF db THEN AfterOpen(p) ELSE "create_db")
    /\ UNCHANGED <<authVars, storageVars>>

OpenStorage(p) ==
    /\ At(p, "open")
    /\ Goto(p, IF db THEN AfterOpen(p) ELSE "revoke_old")
    /\ UNCHANGED <<authVars, storageVars>>

RevokeOldTokens(p) ==
    /\ At(p, "revoke_old")
    /\ InvalidateOld("tokens")
    /\ Goto(p, "delete_old")
    /\ UNCHANGED authVars

\* An AuthAPIError of the DELETE is swallowed.
DeleteOldClient(p) ==
    /\ At(p, "delete_old")
    /\ InvalidateOld("client") \/ ("api" \in Faults /\ UNCHANGED storageVars)
    /\ Goto(p, "create_db")
    /\ UNCHANGED authVars

CreateStorage(p) ==
    /\ At(p, "create_db")
    /\ CreateDb
    /\ Goto(p, AfterOpen(p))
    /\ UNCHANGED authVars
-------------------------------------------------------------------------------
\* LoginManager.has_login, one resource server after the other.
Missing(p) ==
    IF cli[p].cmd = "login"
    THEN Becomes(p, [cli[p] EXCEPT !.pc = "authorize", !.todo = {}, !.mem = NoTokens])
    ELSE Exit(p, "missing_login")

HasLogin(p) ==
    /\ At(p, "has_login")
    /\ \E rs \in cli[p].todo :
          IF tokens[rs] = NoGrant THEN Missing(p)
          ELSE Becomes(p, [cli[p] EXCEPT !.pc = "contract", !.cur = rs, !.mem = Only(rs)])
    /\ UNCHANGED <<authVars, storageVars>>

\* Fault: the contract version is not compared.
MeetsContract_AnyVersion(p) ==
    /\ At(p, "contract")
    /\ Missing(p) \/ Goto(p, "validate")
    /\ UNCHANGED <<authVars, storageVars>>

\* _tokens_meet_static_requirements.  The token's scope string decides too;
\* scopes are not in the model, so they may fall short of the requirement.
MeetsContract(p) ==
    /\ At(p, "contract")
    /\ \/ Missing(p)
       \/ /\ scope_contract_versions[cli[p].cur] >= MinContract[cli[p].cur]
          /\ Goto(p, "validate")
    /\ UNCHANGED <<authVars, storageVars>>

\* _validate_token: False for an inactive token and for any AuthAPIError.
ValidateToken(p) ==
    /\ At(p, "validate")
    /\ cli[p].cred # NoClient
    /\ LET c == cli[p]
           active == /\ <<c.mem[c.cur], c.cur, "refresh_token">> \in live
                     /\ c.cred \in clients
           rest == c.todo \ {c.cur}
       IN  \/ (~active \/ "api" \in Faults) /\ Missing(p)
           \/ /\ active
              /\ IF rest = {} /\ c.cmd = "login" THEN Exit(p, "ok")
                 ELSE Becomes(p, [cli[p] EXCEPT !.todo = rest, !.mem = NoTokens,
                                !.pc = IF rest = {} THEN Checked(p) ELSE "has_login"])
    /\ UNCHANGED <<authVars, storageVars>>
-------------------------------------------------------------------------------
\* cli_confidential_client, cached per process: read it, else register one
\* and then save it.
NeedClient(p) ==
    /\ cli[p].pc \in {"validate", "call", "authorize"}
    /\ cli[p].cred = NoClient
    /\ Becomes(p, [cli[p] EXCEPT !.pc = "client", !.ret = cli[p].pc])
    /\ UNCHANGED <<authVars, storageVars>>

ReadClient(p) ==
    /\ At(p, "client")
    /\ IF auth_client_data = NoClient THEN Goto(p, "register")
       ELSE Becomes(p, [cli[p] EXCEPT !.pc = cli[p].ret, !.cred = auth_client_data])
    /\ UNCHANGED <<authVars, storageVars>>

RegisterClient(p) ==
    /\ At(p, "register")
    /\ RegisterInstance
    /\ Becomes(p, [cli[p] EXCEPT !.pc = "save_client", !.cred = NewClient])
    /\ UNCHANGED storageVars

SaveClient(p) ==
    /\ At(p, "save_client")
    /\ StoreClientData(cli[p].cred)
    /\ Goto(p, cli[p].ret)
    /\ UNCHANGED authVars
-------------------------------------------------------------------------------
\* _get_client_authorizer: ValueError without tokens.
LoadTokens(p) ==
    /\ At(p, "load_tokens")
    /\ LET rs == IF cli[p].cmd = "use" THEN cli[p].cur ELSE AuthRS
       IN  IF tokens[rs] = NoGrant THEN Exit(p, "no_tokens")
           ELSE Becomes(p, [cli[p] EXCEPT !.pc = "call", !.cur = rs, !.mem = Only(rs)])
    /\ UNCHANGED <<authVars, storageVars>>

\* What follows the API call: the userinfo lookup of logout and update.
AfterCall(p) ==
    CASE cli[p].cmd = "use" -> Exit(p, "ok")
      [] cli[p].cmd = "update" -> Goto(p, "authorize")
      [] cli[p].cmd = "delete" -> Goto(p, "delete_client")
      [] OTHER -> Goto(p, "list_tokens")

CallService(p) ==
    /\ At(p, "call")
    /\ cli[p].cred # NoClient
    /\ <<cli[p].mem[cli[p].cur], cli[p].cur, "access_token">> \in live
    /\ AfterCall(p)
    /\ UNCHANGED <<authVars, storageVars>>

\* The access token has expired or was refused: RefreshTokenAuthorizer gets a
\* new one and hands the response to storage.store (on_refresh).
RefreshToken(p) ==
    /\ At(p, "call")
    /\ LET c == cli[p] IN
        /\ c.cred # NoClient
        /\ CanRefresh(c.mem[c.cur], c.cur, c.cred)
        /\ RefreshAccess(c.mem[c.cur], c.cur)
    /\ Becomes(p, [cli[p] EXCEPT !.pc = "store_tokens", !.ret = "call"])
    /\ UNCHANGED storageVars

\* An error response.  Only logout goes on after one (AuthAPIError).
CallFails(p) ==
    /\ At(p, "call")
    /\ LET c == cli[p] IN
        /\ c.cred # NoClient
        /\ "api" \in Faults \/ ~CanRefresh(c.mem[c.cur], c.cur, c.cred)
    /\ IF IsLogout(p) THEN AfterCall(p) ELSE Exit(p, "error")
    /\ UNCHANGED <<authVars, storageVars>>
-------------------------------------------------------------------------------
\* do_link_auth_flow and do_local_server_auth_flow: the user authenticates as
\* any identity, and the code is exchanged for tokens.
ExchangeCode(p) ==
    /\ At(p, "authorize")
    /\ cli[p].cred \in clients
    /\ issued < MaxGrants
    /\ \E who \in Identities :
        LET g == [n |-> issued + 1, sub |-> who, client |-> cli[p].cred,
                  contract |-> CURRENT_SCOPE_CONTRACT_VERSION]
        IN  /\ Issue(g, cli[p].want)
            /\ Becomes(p, [cli[p] EXCEPT !.pc = "check_user", !.ret = "done",
                         !.mem = Response(g, cli[p].want)])
    /\ UNCHANGED storageVars

\* The user declines or gives up, or the local server times out.
AbandonFlow(p) ==
    /\ At(p, "authorize")
    /\ cli[p].cred # NoClient
    /\ Exit(p, "error")
    /\ UNCHANGED <<authVars, storageVars>>

\* exchange_code_and_store: decode the id token (with the keys of Globus Auth,
\* which it fetches) and compare the new identity with the stored one.
NewSub(p) == cli[p].mem[AuthRS].sub

\* Fault: only checked that somebody is logged in.
CheckUser_AnySub(p) ==
    /\ At(p, "check_user")
    /\ Goto(p, IF auth_user_data = NoIdentity THEN "store_user" ELSE "store_tokens")
    /\ UNCHANGED <<authVars, storageVars>>

\* Fault: a first login does not record the identity.
CheckUser_NoRecord(p) ==
    /\ At(p, "check_user")
    /\ Goto(p, IF auth_user_data \in {NoIdentity, NewSub(p)} THEN "store_tokens"
               ELSE "revoke_access")
    /\ UNCHANGED <<authVars, storageVars>>

CheckUser(p) ==
    /\ At(p, "check_user")
    /\ Goto(p, CASE auth_user_data = NoIdentity -> "store_user"
                 [] auth_user_data = NewSub(p) -> "store_tokens"
                 [] OTHER -> "revoke_access")
    /\ UNCHANGED <<authVars, storageVars>>

StoreUser(p) ==
    /\ At(p, "store_user")
    /\ StoreUserData(NewSub(p))
    /\ Goto(p, "store_tokens")
    /\ UNCHANGED authVars

\* CLIStorage.store: three transactions.
StoreTokenData(p) ==
    /\ At(p, "store_tokens")
    /\ StoreTokens(cli[p].mem)
    /\ Goto(p, "read_versions")
    /\ UNCHANGED authVars

ReadVersions(p) ==
    /\ At(p, "read_versions")
    /\ Becomes(p, [cli[p] EXCEPT !.pc = "store_versions",
                          !.seen = scope_contract_versions])
    /\ UNCHANGED <<authVars, storageVars>>

StoreContractVersions(p) ==
    /\ At(p, "store_versions")
    /\ StoreVersions(MarkCurrent(cli[p].seen, cli[p].mem))
    /\ IF cli[p].ret = "call"
       THEN Becomes(p, [cli[p] EXCEPT !.pc = "call", !.seen = NoVersions])
       ELSE Exit(p, "ok")
    /\ UNCHANGED authVars
-------------------------------------------------------------------------------
\* Fault: what is stored about the client stays until it has been deleted.
ForgetClient_Later(p) ==
    /\ At(p, "delete_client")
    /\ Goto(p, "drop_versions")
    /\ UNCHANGED <<authVars, storageVars>>

\* delete_templated_client: forget the client, then delete it at Globus Auth.
ForgetClient(p) ==
    /\ At(p, "delete_client")
    /\ StoreClientData(NoClient)
    /\ Goto(p, "drop_versions")
    /\ UNCHANGED authVars

DropVersions(p) ==
    /\ At(p, "drop_versions")
    /\ StoreVersions(NoVersions)
    /\ Goto(p, "api_delete")
    /\ UNCHANGED authVars

DeleteClient(p) ==
    /\ At(p, "api_delete")
    /\ cli[p].cred \in clients
    /\ DeleteInstance(cli[p].cred)
    /\ Becomes(p, [cli[p] EXCEPT !.pc = "list_tokens", !.cred = NoClient])
    /\ UNCHANGED storageVars

\* AuthAPIError of the DELETE.
DeleteClientFails(p) ==
    /\ At(p, "api_delete")
    /\ "api" \in Faults \/ cli[p].cred \notin clients
    /\ IF cli[p].ignore THEN Goto(p, "list_tokens") ELSE Exit(p, "error")
    /\ UNCHANGED <<authVars, storageVars>>

\* adapter.get_by_resource_server()
ListTokens(p) ==
    /\ At(p, "list_tokens")
    /\ Becomes(p, [cli[p] EXCEPT !.pc = "revoke_access", !.mem = tokens])
    /\ UNCHANGED <<authVars, storageVars>>

\* Fault: a NetworkError never stops the logout.
RevokeAccess_Ignore(p) ==
    /\ At(p, "revoke_access")
    /\ \E rs \in Held(cli[p].mem) :
        /\ Becomes(p, [cli[p] EXCEPT !.pc = "revoke_refresh", !.cur = rs])
        /\ \/ Revoke(cli[p].mem[rs], rs, "access_token")
           \/ "network" \in Faults /\ UNCHANGED authVars
    /\ UNCHANGED storageVars

\* The revocation loop of logout, and the one of a login as somebody else.
\* Logout skips a token after a NetworkError only with --ignore-errors.
RevokeAccess(p) ==
    /\ At(p, "revoke_access")
    /\ \E rs \in Held(cli[p].mem) :
        /\ Becomes(p, [cli[p] EXCEPT !.pc = "revoke_refresh", !.cur = rs])
        /\ \/ Revoke(cli[p].mem[rs], rs, "access_token")
           \/ cli[p].ignore /\ "network" \in Faults /\ UNCHANGED authVars
    /\ UNCHANGED storageVars

\* Fault: a refused login revokes the access tokens only.
RevokeRefresh_AccessOnly(p) ==
    /\ At(p, "revoke_refresh")
    /\ LET rs == cli[p].cur IN
        IF IsLogout(p)
        THEN Revoke(cli[p].mem[rs], rs, "refresh_token") /\ Goto(p, "forget")
        ELSE /\ Becomes(p, [cli[p] EXCEPT !.pc = "revoke_access", !.mem = Without(cli[p].mem, rs)])
             /\ UNCHANGED authVars
    /\ UNCHANGED storageVars

RevokeRefresh(p) ==
    /\ At(p, "revoke_refresh")
    /\ LET rs == cli[p].cur IN
        /\ \/ Revoke(cli[p].mem[rs], rs, "refresh_token")
           \/ cli[p].ignore /\ "network" \in Faults /\ UNCHANGED authVars
        /\ IF IsLogout(p) THEN Goto(p, "forget")
           ELSE Becomes(p, [cli[p] EXCEPT !.pc = "revoke_access", !.mem = Without(cli[p].mem, rs)])
    /\ UNCHANGED storageVars

ForgetTokens(p) ==
    /\ At(p, "forget")
    /\ RemoveTokens(cli[p].cur)
    /\ Becomes(p, [cli[p] EXCEPT !.pc = "revoke_access", 
                                  !.mem = Without(cli[p].mem, cli[p].cur)])
    /\ UNCHANGED authVars

\* Fault: auth_user_data outlives the logout.
EndRevoking_KeepUser(p) ==
    /\ At(p, "revoke_access")
    /\ Held(cli[p].mem) = {}
    /\ Exit(p, IF IsLogout(p) THEN "ok" ELSE "mismatch")
    /\ UNCHANGED <<authVars, storageVars>>

EndRevoking(p) ==
    /\ At(p, "revoke_access")
    /\ Held(cli[p].mem) = {}
    /\ IF IsLogout(p) THEN Goto(p, "remove_user") ELSE Exit(p, "mismatch")
    /\ UNCHANGED <<authVars, storageVars>>

RemoveUser(p) ==
    /\ At(p, "remove_user")
    /\ StoreUserData(NoIdentity)
    /\ Exit(p, "ok")
    /\ UNCHANGED authVars
-------------------------------------------------------------------------------
\* A NetworkError, or an error response that no handler expects, ends the command
\* where it stands.  The revocation loop of logout --ignore-errors survives the
\* first.  The actions of the other calls say what an error response does there.
RemoteFailure(p) ==
    /\ cli[p].pc \in RemoteSteps
    /\ \/ "network" \in Faults /\ ~(cli[p].ignore /\ cli[p].pc \in RevokeSteps)
       \/ "api" \in Faults /\ cli[p].pc \in {"revoke_old", "register", "check_user"} \cup RevokeSteps
    /\ cli[p].pc \in {"validate", "call", "authorize"} => cli[p].cred # NoClient
    /\ Exit(p, "error")
    /\ UNCHANGED <<authVars, storageVars>>

\* Ctrl-C or kill: storage stays as it is, everything in memory is lost.
Crash(p) ==
    /\ "crash" \in Faults
    /\ ~At(p, "idle")
    /\ Exit(p, "error")
    /\ UNCHANGED <<authVars, storageVars>>

Step(p) ==
    \/ OpenStorage(p) \/ RevokeOldTokens(p) \/ DeleteOldClient(p) \/ CreateStorage(p)
    \/ HasLogin(p) \/ MeetsContract(p) \/ ValidateToken(p)
    \/ NeedClient(p) \/ ReadClient(p) \/ RegisterClient(p) \/ SaveClient(p)
    \/ LoadTokens(p) \/ CallService(p) \/ RefreshToken(p) \/ CallFails(p)
    \/ ExchangeCode(p) \/ AbandonFlow(p) \/ CheckUser(p) \/ StoreUser(p)
    \/ StoreTokenData(p) \/ ReadVersions(p) \/ StoreContractVersions(p)
    \/ ForgetClient(p) \/ DropVersions(p) \/ DeleteClient(p) \/ DeleteClientFails(p)
    \/ ListTokens(p) \/ RevokeAccess(p) \/ RevokeRefresh(p) \/ ForgetTokens(p)
    \/ EndRevoking(p) \/ RemoveUser(p)

Next == \E p \in Procs : Start(p) \/ Step(p) \/ RemoteFailure(p) \/ Crash(p)

Spec == Init /\ [][Next]_vars
-------------------------------------------------------------------------------
\* The stored tokens belong to the identity in auth_user_data: what the check in
\* exchange_code_and_store is there for ("to secure incremental auth flows").
\* `whoami` and get_current_identity_id rely on it: while there are tokens there
\* is an identity, and it is the one the tokens act as.
SessionIdentity ==
    \A rs \in Held(tokens) : auth_user_data = tokens[rs].sub

\* A stored contract version that satisfies min_contract_version is never
\* claimed for tokens that were requested under an older scope contract, so
\* the version check of _tokens_meet_static_requirements cannot be fooled: not
\* by a refresh of old tokens, a crash inside CLIStorage.store, or another
\* process between its read and its write of the versions.
StaticCheckSound ==
    \A rs \in Held(tokens) :
        scope_contract_versions[rs] >= MinContract[rs]
            => tokens[rs].contract >= MinContract[rs]

\* No command calls a service with tokens from before the contract that the
\* service requires, although it reads them again after checking them.
CallsMeetContract ==
    \A p \in Procs :
        cli[p].pc = "call" => cli[p].mem[cli[p].cur].contract >= MinContract[cli[p].cur]

\* storage.db is the flag that the old configuration has been cleaned up: once
\* it exists, no token of ~/.globus.cfg can be used any more.
OldTokensRevoked == db => "tokens" \notin oldConfig

\* The client in the storage is one that Globus Auth knows, however many processes
\* register, save, forget and delete clients at once: a process that finds it
\* does not register another, so one that is gone would make every command fail.
\* (Which of two clients registered at once stays is another matter, and tokens
\* issued to the other one cannot be refreshed.)
StoredClientExists == auth_client_data # NoClient => auth_client_data \in clients

\* Without --ignore-errors, tokens leave the storage only once they are
\* revoked: a logout that fails half-way keeps those it could not revoke.
RemovedOnlyRevoked ==
    [][\A p \in Procs, rs \in ResourceServers :
          /\ tokens[rs] # NoGrant /\ tokens'[rs] = NoGrant
          /\ IsLogout(p) /\ ~cli[p].ignore
          => \A kind \in Kind : <<tokens[rs], rs, kind>> \notin live]_vars

\* A logout that reports success leaves no trace of the session.
LogoutComplete ==
    [][\A p \in Procs :
          IsLogout(p) /\ cli'[p].outcome = "ok"
          => tokens' = NoTokens /\ auth_user_data' = NoIdentity]_vars

\* A login as somebody else that is refused leaves none of the tokens it was
\* given usable, at least when no other process is given any meanwhile.
RefusedLoginRevoked ==
    [][\A p \in Procs :
          cli[p].outcome # "mismatch" /\ cli'[p].outcome = "mismatch"
          => \A t \in live' : t[1].n # issued]_vars

\* A logout that stopped at a NetworkError can be tried again: as long as there
\* are tokens to revoke, a logout does not stop for want of the Auth token that
\* the one before it revoked and removed first.  (Violated: the userinfo lookup
\* comes before the loop, and its ValueError is not an AuthAPIError.)
LogoutRetry ==
    [][\A p \in Procs :
          IsLogout(p) /\ cli'[p].outcome = "no_tokens" => tokens = NoTokens]_vars

\* A `logout --delete-client` that was told to try again and then succeeds has
\* deleted every templated client of this installation.  (Violated: the first
\* attempt forgets the client before the DELETE that fails, the second one
\* registers a new client and deletes that.)
DeleteRetry ==
    [][\A p \in Procs :
          cli[p].cmd = "delete" /\ ~cli[p].ignore /\ cli'[p].outcome = "ok"
          => clients' = {}]_vars

\* One command at a time, the stored session keeps the promises of AuthSession.
Owner == [rs \in ResourceServers |->
             IF tokens[rs] = NoGrant THEN NoIdentity ELSE tokens[rs].sub]
Abstract == INSTANCE AuthSession WITH who <- auth_user_data, owner <- Owner
RefinesSession == Abstract!Spec
===============================================================================
