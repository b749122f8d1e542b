------------------------- MODULE LoginSession_proofs -------------------------
(***************************************************************************)
(* Proofs about LoginSession for every set of processes, identities and    *)
(* resource servers and every bound.                                       *)
(***************************************************************************)
EXTENDS LoginSession, TLAPS

\* No token data is a grant: a row is either missing or a token response.
LEMMA NoGrantIsNone == NoGrant \notin Grant
  BY DEF NoGrant, Grant

LEMMA NoTokensType == NoTokens \in TokenData /\ NoTokens[AuthRS] = NoGrant
  BY AuthRSAssumption DEF NoTokens, TokenData

LEMMA NoVersionsType == NoVersions \in [ResourceServers -> Contracts]
  BY ContractAssumption DEF NoVersions

\* The record of a finished command is well typed.
LEMMA EndedType == \A o \in Outcomes : Ended(o) \in ProcState
  BY AuthRSAssumption, NoTokensType, NoVersionsType DEF Ended, ProcState, Steps
-------------------------------------------------------------------------------
(***************************************************************************)
(* Type correctness, with the control facts it rests on: a login flow      *)
(* always asks for the Globus Auth scopes, so its response has an identity *)
(* to compare with the stored one.                                         *)
(***************************************************************************)
FlowCommands == {"login", "consent", "update"}

\* The steps about which ControlOK says something.
FlowSteps == {"authorize", "check_user", "store_user"} \cup ClientSteps

\* The process is at step s, or will be once it has its client.
Toward(c, s) == c.pc = s \/ (c.pc \in ClientSteps /\ c.ret = s)

ControlOK(c) ==
    /\ c.cmd \in FlowCommands => AuthRS \in c.want
    /\ Toward(c, "authorize") => c.cmd \in FlowCommands
    /\ c.pc \in {"check_user", "store_user"} => c.mem[AuthRS] \in Grant
    /\ c.pc \in ClientSteps => c.ret # "done"

CliOK == cli \in [Procs -> ProcState] /\ \A p \in Procs : ControlOK(cli[p])

TypeInv == AuthTypeOK /\ StorageTypeOK /\ CliOK

\* A step of p keeps the processes in order if p's new state is.
LEMMA OneProcess ==
  ASSUME CliOK, NEW p \in Procs, NEW c \in ProcState, ControlOK(c), Becomes(p, c)
  PROVE  CliOK'
  BY DEF CliOK, Becomes

LEMMA ExitOK ==
  ASSUME CliOK, NEW p \in Procs, NEW o \in Outcomes, Exit(p, o)
  PROVE  CliOK'
  <1>1. ControlOK(Ended(o))
    BY DEF ControlOK, Ended, Toward, FlowCommands, ClientSteps
  <1> QED BY <1>1, EndedType, OneProcess DEF Exit

\* Going to a step outside the login flow.
LEMMA GotoOK ==
  ASSUME CliOK, NEW p \in Procs,
         NEW s \in Steps \ FlowSteps,
         Goto(p, s)
  PROVE  CliOK'
  <1> DEFINE c == [cli[p] EXCEPT !.pc = s]
  <1>1. c \in ProcState
    BY DEF CliOK, ProcState
  <1>2. ControlOK(c)
    BY DEF CliOK, ControlOK, Toward, ProcState, FlowSteps
  <1> QED BY <1>1, <1>2, OneProcess DEF Goto

\* The same when the tokens in memory are replaced on the way.
LEMMA LoadOK ==
  ASSUME CliOK, NEW p \in Procs,
         NEW s \in Steps \ FlowSteps,
         NEW rs \in ResourceServers, NEW m \in TokenData, NEW t \in SUBSET ResourceServers,
         \/ Becomes(p, [cli[p] EXCEPT !.pc = s, !.mem = m])
         \/ Becomes(p, [cli[p] EXCEPT !.pc = s, !.cur = rs, !.mem = m])
         \/ Becomes(p, [cli[p] EXCEPT !.todo = t, !.mem = m, !.pc = s])
  PROVE  CliOK'
  <1> DEFINE d == [cli[p] EXCEPT !.pc = s, !.mem = m]
             e == [cli[p] EXCEPT !.pc = s, !.cur = rs, !.mem = m]
             f == [cli[p] EXCEPT !.todo = t, !.mem = m, !.pc = s]
  <1>1. d \in ProcState /\ e \in ProcState /\ f \in ProcState
    BY DEF CliOK, ProcState
  <1>2. ControlOK(d) /\ ControlOK(e) /\ ControlOK(f)
    BY DEF CliOK, ControlOK, Toward, ProcState, FlowSteps
  <1> QED BY <1>1, <1>2, OneProcess

\* Entering the login flow, with or without forgetting what was in memory.
LEMMA AuthorizeOK ==
  ASSUME CliOK, NEW p \in Procs, cli[p].cmd \in FlowCommands, NEW t \in SUBSET ResourceServers,
         NEW m \in TokenData,
         \/ Goto(p, "authorize")
         \/ Becomes(p, [cli[p] EXCEPT !.pc = "authorize", !.todo = t, !.mem = m])
         \/ Becomes(p, [cli[p] EXCEPT !.todo = t, !.mem = m, !.pc = "authorize"])
  PROVE  CliOK'
  <1> DEFINE d == [cli[p] EXCEPT !.pc = "authorize"]
             e == [cli[p] EXCEPT !.pc = "authorize", !.todo = t, !.mem = m]
  <1>0. "authorize" \in Steps
    BY DEF Steps, RemoteSteps
  <1>1. d \in ProcState /\ e \in ProcState
    BY <1>0 DEF CliOK, ProcState
  <1>2. ControlOK(d) /\ ControlOK(e)
    BY DEF CliOK, ControlOK, Toward, ProcState, ClientSteps
  <1> QED BY <1>1, <1>2, OneProcess DEF Goto

LEMMA MissingOK ==
  ASSUME CliOK, NEW p \in Procs, Missing(p)
  PROVE  CliOK'
  BY AuthorizeOK, ExitOK, NoTokensType DEF Missing, FlowCommands, Outcomes

LEMMA AfterCallOK ==
  ASSUME CliOK, NEW p \in Procs, AfterCall(p)
  PROVE  CliOK'
  <1>1. {"delete_client", "list_tokens"} \subseteq
           Steps \ FlowSteps
    BY DEF Steps, FlowSteps, ClientSteps
  <1> QED BY <1>1, AuthorizeOK, ExitOK, GotoOK, NoTokensType
          DEF AfterCall, FlowCommands, Outcomes

LEMMA OpenOK ==
  ASSUME CliOK, NEW p \in Procs, Goto(p, AfterOpen(p))
  PROVE  CliOK'
  <1>1. {"has_login", "load_tokens"} \subseteq
           Steps \ FlowSteps
    BY DEF Steps, FlowSteps, ClientSteps
  <1> QED BY <1>1, AuthorizeOK, GotoOK, NoTokensType
          DEF AfterOpen, Checked, FlowCommands

LEMMA StartCliOK ==
  ASSUME CliOK, NEW p \in Procs, Start(p)
  PROVE  CliOK'
  <1>1. PICK cmd \in Commands, ignore \in BOOLEAN, force \in BOOLEAN,
             want \in SUBSET ResourceServers, cur \in ResourceServers :
        /\ WellFormed(cmd, ignore, force, want, cur)
        /\ Becomes(p, Started(cmd, ignore, force, want, cur))
    BY DEF Start
  <1> DEFINE c == Started(cmd, ignore, force, want, cur)
  <1>2. LoginsToCheck(cmd, force, want) \in SUBSET ResourceServers
    BY AuthRSAssumption DEF LoginsToCheck
  <1>3. Ended("none") \in ProcState /\ "open" \in Steps
    BY EndedType DEF Steps, Outcomes
  <1>4. c \in ProcState
    BY <1>2, <1>3 DEF Started, ProcState
  <1>5. ControlOK(c)
    BY <1>1, <1>3, AuthRSAssumption
    DEF WellFormed, Started, ControlOK, Toward, ProcState, ClientSteps, FlowCommands
  <1> QED BY <1>1, <1>4, <1>5, OneProcess

\* The subroutine that finds or registers the client.
LEMMA ClientCliOK ==
  ASSUME TypeInv, NEW p \in Procs,
         NeedClient(p) \/ ReadClient(p) \/ RegisterClient(p) \/ SaveClient(p)
  PROVE  CliOK'
  <1>0. CliOK /\ cli[p] \in ProcState /\ ControlOK(cli[p])
    BY DEF TypeInv, CliOK
  <1>1. ASSUME NEW c \in ProcState, Becomes(p, c), c.cmd = cli[p].cmd, c.want = cli[p].want,
               Toward(c, "authorize") => Toward(cli[p], "authorize"),
               c.pc \notin {"check_user", "store_user"},
               c.pc \in ClientSteps => c.ret # "done"
        PROVE  CliOK'
    <2>1. ControlOK(c)
      BY <1>0, <1>1 DEF ControlOK
    <2> QED BY <1>0, <1>1, <2>1, OneProcess
  <1>2. {"client", "register", "save_client", "validate", "call", "authorize"} \subseteq Steps
    BY DEF Steps, ClientSteps, RemoteSteps
  <1>3. CASE NeedClient(p)
    <2> DEFINE c == [cli[p] EXCEPT !.pc = "client", !.ret = cli[p].pc]
    <2>1. c \in ProcState
      BY <1>0, <1>2, <1>3 DEF NeedClient, ProcState
    <2> QED BY <1>0, <1>1, <1>3, <2>1 DEF NeedClient, Toward, ProcState, ClientSteps
  <1>4. CASE ReadClient(p)
    <2> DEFINE c == [cli[p] EXCEPT !.pc = cli[p].ret, !.cred = auth_client_data]
               d == [cli[p] EXCEPT !.pc = "register"]
    <2>1. cli[p].pc = "client" /\ cli[p].ret \in {"validate", "call", "authorize"}
      BY <1>0, <1>4 DEF ReadClient, At, ControlOK, ClientSteps, ProcState
    <2>2. c \in ProcState /\ d \in ProcState
      BY <1>0, <1>2, <2>1 DEF TypeInv, StorageTypeOK, ProcState
    <2>3. CASE Becomes(p, d)
      BY <1>0, <1>1, <2>1, <2>2, <2>3 DEF Toward, ProcState, ClientSteps
    <2>4. CASE Becomes(p, c)
      BY <1>0, <1>1, <2>1, <2>2, <2>4 DEF Toward, ProcState, ClientSteps
    <2> QED BY <1>4, <2>3, <2>4 DEF ReadClient, Goto
  <1>5. CASE RegisterClient(p)
    <2> DEFINE c == [cli[p] EXCEPT !.pc = "save_client", !.cred = NewClient]
    <2>1. cli[p].pc = "register" /\ cli[p].ret # "done" /\ Becomes(p, c)
      BY <1>0, <1>5 DEF RegisterClient, At, ControlOK, ClientSteps
    <2>2. NewClient \in Client
      BY <1>5, BoundsAssumption
      DEF RegisterClient, RegisterInstance, NewClient, TypeInv, AuthTypeOK, Client
    <2>3. c \in ProcState
      BY <1>0, <1>2, <2>2 DEF ProcState
    <2> QED BY <1>0, <1>1, <2>1, <2>3 DEF Toward, ProcState, ClientSteps
  <1>6. CASE SaveClient(p)
    <2> DEFINE c == [cli[p] EXCEPT !.pc = cli[p].ret]
    <2>1. cli[p].pc = "save_client" /\ cli[p].ret \in {"validate", "call", "authorize"}
      BY <1>0, <1>6 DEF SaveClient, At, ControlOK, ClientSteps, ProcState
    <2>2. c \in ProcState
      BY <1>0, <1>2, <2>1 DEF ProcState
    <2>3. Becomes(p, c)
      BY <1>6 DEF SaveClient, Goto
    <2> QED BY <1>0, <1>1, <2>1, <2>2, <2>3 DEF Toward, ProcState, ClientSteps
  <1> QED BY <1>3, <1>4, <1>5, <1>6

LEMMA TokensOnly == ASSUME TypeInv, NEW rs \in ResourceServers PROVE Only(rs) \in TokenData
  BY NoTokensType DEF Only, TypeInv, StorageTypeOK, TokenData

LEMMA WithoutType ==
  ASSUME NEW m \in TokenData, NEW rs \in ResourceServers
  PROVE  Without(m, rs) \in TokenData
  BY DEF Without, TokenData

LEMMA ResponseType ==
  ASSUME NEW g \in Grant, NEW servers \in SUBSET ResourceServers
  PROVE  /\ Response(g, servers) \in TokenData
         /\ AuthRS \in servers => Response(g, servers)[AuthRS] = g
  BY AuthRSAssumption DEF Response, TokenData

\* The grant an exchange returns is well typed.
NewGrant(p, who) ==
    [n |-> issued + 1, sub |-> who, client |-> cli[p].cred,
     contract |-> CURRENT_SCOPE_CONTRACT_VERSION]

LEMMA NewGrantType ==
  ASSUME TypeInv, NEW p \in Procs, NEW who \in Identities,
         cli[p].cred \in clients, issued < MaxGrants
  PROVE  NewGrant(p, who) \in Grant /\ issued + 1 \in 1..MaxGrants
  BY BoundsAssumption, ContractAssumption DEF TypeInv, AuthTypeOK, NewGrant, Grant

LEMMA ExchangeCliOK ==
  ASSUME TypeInv, NEW p \in Procs, ExchangeCode(p)
  PROVE  CliOK'
  <1>0. CliOK /\ cli[p] \in ProcState /\ ControlOK(cli[p])
    BY DEF TypeInv, CliOK
  <1>1. PICK who \in Identities :
          Becomes(p, [cli[p] EXCEPT !.pc = "check_user", !.ret = "done",
                        !.mem = Response(NewGrant(p, who), cli[p].want)])
    BY DEF ExchangeCode, NewGrant
  <1> DEFINE m == Response(NewGrant(p, who), cli[p].want)
             c == [cli[p] EXCEPT !.pc = "check_user", !.ret = "done", !.mem = m]
  <1>2. AuthRS \in cli[p].want /\ cli[p].want \in SUBSET ResourceServers
    BY <1>0 DEF ExchangeCode, At, ControlOK, Toward, ProcState
  <1>3. NewGrant(p, who) \in Grant
    BY NewGrantType DEF ExchangeCode
  <1>4. m \in TokenData /\ m[AuthRS] \in Grant
    BY <1>2, <1>3, ResponseType
  <1>5. c \in ProcState
    BY <1>0, <1>4 DEF ProcState, Steps, RemoteSteps
  <1>6. ControlOK(c)
    BY <1>0, <1>2, <1>4 DEF ControlOK, Toward, ClientSteps, ProcState
  <1> QED BY <1>0, <1>1, <1>5, <1>6, OneProcess

\* Every other step of a process.
LEMMA OtherCliOK ==
  ASSUME TypeInv, NEW p \in Procs, Step(p) \/ RemoteFailure(p) \/ Crash(p),
         ~NeedClient(p), ~ReadClient(p), ~RegisterClient(p), ~SaveClient(p),
         ~ExchangeCode(p)
  PROVE  CliOK'
  <1>0. CliOK /\ cli[p] \in ProcState /\ ControlOK(cli[p])
    BY DEF TypeInv, CliOK
  <1> DEFINE Plain == {"revoke_old", "delete_old", "create_db", "contract", "validate",
                       "has_login", "load_tokens", "call", "store_tokens", "read_versions",
                       "store_versions", "delete_client", "drop_versions", "api_delete",
                       "list_tokens", "revoke_access", "revoke_refresh", "forget",
                       "remove_user"}
  <1>p. Plain \subseteq Steps \ FlowSteps
    BY DEF Steps, FlowSteps, ClientSteps, RemoteSteps, RevokeSteps, StoreSteps
  <1>t. NoTokens \in TokenData
    BY NoTokensType
  <1>m. cli[p].mem \in TokenData /\ cli[p].cur \in ResourceServers
    BY <1>0 DEF ProcState
  <1> HIDE DEF Plain
  <1>1. CASE OpenStorage(p)
    BY <1>0, <1>1, <1>p, OpenOK, GotoOK DEF OpenStorage, Plain
  <1>2. CASE RevokeOldTokens(p)
    BY <1>0, <1>2, <1>p, GotoOK DEF RevokeOldTokens, Plain
  <1>3. CASE DeleteOldClient(p)
    BY <1>0, <1>3, <1>p, GotoOK DEF DeleteOldClient, Plain
  <1>4. CASE CreateStorage(p)
    BY <1>0, <1>4, OpenOK DEF CreateStorage
  <1>5. CASE HasLogin(p)
    <2>1. PICK rs \in cli[p].todo :
            \/ Missing(p)
            \/ Becomes(p, [cli[p] EXCEPT !.pc = "contract", !.cur = rs, !.mem = Only(rs)])
      BY <1>5 DEF HasLogin
    <2>2. rs \in ResourceServers
      BY <1>0 DEF ProcState
    <2>3. Only(rs) \in TokenData
      BY <2>2, TokensOnly
    <2>4. "contract" \in Steps \ FlowSteps
      BY <1>p DEF Plain
    <2> QED BY <1>0, <2>1, <2>2, <2>3, <2>4, MissingOK, LoadOK
  <1>6. CASE MeetsContract(p)
    BY <1>0, <1>6, <1>p, MissingOK, GotoOK DEF MeetsContract, Plain
  <1>7. CASE ValidateToken(p)
    <2> DEFINE rest == cli[p].todo \ {cli[p].cur}
    <2>1. \/ Missing(p)
          \/ Exit(p, "ok")
          \/ /\ cli[p].cmd # "login" \/ rest # {}
             /\ Becomes(p, [cli[p] EXCEPT !.todo = rest, !.mem = NoTokens,
                             !.pc = IF rest = {} THEN Checked(p) ELSE "has_login"])
      BY <1>7 DEF ValidateToken
    <2>2. rest \in SUBSET ResourceServers
      BY <1>0 DEF ProcState
    <2>3. {"has_login", "load_tokens"} \subseteq Steps \ FlowSteps
      BY <1>p DEF Plain
    <2>4. ASSUME NEW s \in Steps \ FlowSteps,
                 Becomes(p, [cli[p] EXCEPT !.todo = rest, !.mem = NoTokens, !.pc = s])
          PROVE  CliOK'
      <3> HIDE DEF rest
      <3> QED BY <1>0, <1>m, <1>t, <2>2, <2>4, LoadOK
    <2>5. ASSUME cli[p].cmd = "consent",
                 Becomes(p, [cli[p] EXCEPT !.todo = rest, !.mem = NoTokens,
                                           !.pc = "authorize"])
          PROVE  CliOK'
      BY <1>0, <1>t, <2>2, <2>5, AuthorizeOK DEF FlowCommands
    <2>6. "ok" \in Outcomes
      BY DEF Outcomes
    <2>7. CASE cli[p].cmd = "consent" /\ rest = {}
      BY <1>0, <2>1, <2>5, <2>6, <2>7, MissingOK, ExitOK DEF Checked
    <2>8. CASE ~(cli[p].cmd = "consent" /\ rest = {})
      <3>1. (IF rest = {} THEN Checked(p) ELSE "has_login") \in {"has_login", "load_tokens"}
        BY <2>8 DEF Checked
      <3> QED BY <1>0, <2>1, <2>3, <2>4, <2>6, <3>1, MissingOK, ExitOK
    <2> QED BY <2>7, <2>8
  <1>8. CASE LoadTokens(p)
    <2> DEFINE rs == IF cli[p].cmd = "use" THEN cli[p].cur ELSE AuthRS
    <2>1. rs \in ResourceServers
      BY <1>m, AuthRSAssumption
    <2>2. \/ Exit(p, "no_tokens")
          \/ Becomes(p, [cli[p] EXCEPT !.pc = "call", !.cur = rs, !.mem = Only(rs)])
      BY <1>8 DEF LoadTokens
    <2>3. "call" \in Steps \ FlowSteps /\ Only(rs) \in TokenData
      BY <1>p, <2>1, TokensOnly DEF Plain
    <2> HIDE DEF rs
    <2>4. "no_tokens" \in Outcomes
      BY DEF Outcomes
    <2> QED BY <1>0, <2>1, <2>2, <2>3, <2>4, LoadOK, ExitOK
  <1>9. CASE CallService(p)
    BY <1>0, <1>9, AfterCallOK DEF CallService
  <1>10. CASE RefreshToken(p)
    <2> DEFINE c == [cli[p] EXCEPT !.pc = "store_tokens", !.ret = "call"]
    <2>1. c \in ProcState
      BY <1>0 DEF ProcState, Steps, StoreSteps
    <2>2. ControlOK(c)
      BY <1>0 DEF ControlOK, Toward, ProcState, ClientSteps
    <2> QED BY <1>0, <1>10, <2>1, <2>2, OneProcess DEF RefreshToken
  <1>11. CASE CallFails(p)
    BY <1>0, <1>11, AfterCallOK, ExitOK DEF CallFails, Outcomes
  <1>12. CASE AbandonFlow(p)
    BY <1>0, <1>12, ExitOK DEF AbandonFlow, Outcomes
  <1>13. CASE CheckUser(p)
    <2>1. \/ Goto(p, "store_tokens")
          \/ Goto(p, "revoke_access")
          \/ Goto(p, "store_user") /\ cli[p].pc = "check_user"
      BY <1>13 DEF CheckUser, At
    <2>2. ASSUME Goto(p, "store_user"), cli[p].pc = "check_user"
          PROVE  CliOK'
      <3> DEFINE c == [cli[p] EXCEPT !.pc = "store_user"]
      <3>1. c \in ProcState
        BY <1>0 DEF ProcState, Steps
      <3>2. ControlOK(c)
        BY <1>0, <2>2 DEF ControlOK, Toward, ProcState, ClientSteps
      <3> QED BY <1>0, <2>2, <3>1, <3>2, OneProcess DEF Goto
    <2> QED BY <1>0, <1>p, <2>1, <2>2, GotoOK DEF Plain
  <1>14. CASE StoreUser(p)
    BY <1>0, <1>14, <1>p, GotoOK DEF StoreUser, Plain
  <1>15. CASE StoreTokenData(p)
    BY <1>0, <1>15, <1>p, GotoOK DEF StoreTokenData, Plain
  <1>16. CASE ReadVersions(p)
    <2> DEFINE c == [cli[p] EXCEPT !.pc = "store_versions", !.seen = scope_contract_versions]
    <2>1. c \in ProcState
      BY <1>0 DEF TypeInv, StorageTypeOK, ProcState, Steps, StoreSteps
    <2>2. ControlOK(c)
      BY <1>0 DEF ControlOK, Toward, ProcState, ClientSteps
    <2> QED BY <1>0, <1>16, <2>1, <2>2, OneProcess DEF ReadVersions
  <1>17. CASE StoreContractVersions(p)
    <2> DEFINE c == [cli[p] EXCEPT !.pc = "call", !.seen = NoVersions]
    <2>1. c \in ProcState
      BY <1>0, NoVersionsType DEF ProcState, Steps, RemoteSteps
    <2>2. ControlOK(c)
      BY <1>0 DEF ControlOK, Toward, ProcState, ClientSteps
    <2>3. "ok" \in Outcomes
      BY DEF Outcomes
    <2> QED BY <1>0, <1>17, <2>1, <2>2, <2>3, OneProcess, ExitOK DEF StoreContractVersions
  <1>18. CASE ForgetClient(p)
    BY <1>0, <1>18, <1>p, GotoOK DEF ForgetClient, Plain
  <1>19. CASE DropVersions(p)
    BY <1>0, <1>19, <1>p, GotoOK DEF DropVersions, Plain
  <1>20. CASE DeleteClient(p)
    <2> DEFINE c == [cli[p] EXCEPT !.pc = "list_tokens", !.cred = NoClient]
    <2>1. c \in ProcState
      BY <1>0 DEF ProcState, Steps
    <2>2. ControlOK(c)
      BY <1>0 DEF ControlOK, Toward, ProcState, ClientSteps
    <2> QED BY <1>0, <1>20, <2>1, <2>2, OneProcess DEF DeleteClient
  <1>21. CASE DeleteClientFails(p)
    BY <1>0, <1>21, <1>p, GotoOK, ExitOK DEF DeleteClientFails, Plain, Outcomes
  <1>22. CASE ListTokens(p)
    <2>1. tokens \in TokenData /\ "revoke_access" \in Steps \ FlowSteps
      BY <1>p DEF TypeInv, StorageTypeOK, Plain
    <2> QED BY <1>0, <1>m, <1>22, <2>1, LoadOK DEF ListTokens
  <1>23. CASE RevokeAccess(p)
    <2>1. PICK rs \in ResourceServers :
             Becomes(p, [cli[p] EXCEPT !.pc = "revoke_refresh", !.cur = rs])
      BY <1>23 DEF RevokeAccess, Held
    <2> DEFINE c == [cli[p] EXCEPT !.pc = "revoke_refresh", !.cur = rs]
    <2>2. c \in ProcState
      BY <1>0 DEF ProcState, Steps, RemoteSteps, RevokeSteps
    <2>3. ControlOK(c)
      BY <1>0 DEF ControlOK, Toward, ProcState, ClientSteps
    <2> QED BY <1>0, <2>1, <2>2, <2>3, OneProcess
  <1>24. CASE RevokeRefresh(p)
    <2>1. \/ Goto(p, "forget")
          \/ Becomes(p, [cli[p] EXCEPT !.pc = "revoke_access",
                                       !.mem = Without(cli[p].mem, cli[p].cur)])
      BY <1>24 DEF RevokeRefresh
    <2>2. {"forget", "revoke_access"} \subseteq Steps \ FlowSteps
      BY <1>p DEF Plain
    <2>3. Without(cli[p].mem, cli[p].cur) \in TokenData
      BY <1>m, WithoutType
    <2> QED BY <1>0, <1>m, <2>1, <2>2, <2>3, GotoOK, LoadOK
  <1>25. CASE ForgetTokens(p)
    <2>1. "revoke_access" \in Steps \ FlowSteps
      BY <1>p DEF Plain
    <2>2. Without(cli[p].mem, cli[p].cur) \in TokenData
      BY <1>m, WithoutType
    <2> QED BY <1>0, <1>m, <1>25, <2>1, <2>2, LoadOK DEF ForgetTokens
  <1>26. CASE EndRevoking(p)
    BY <1>0, <1>26, <1>p, GotoOK, ExitOK DEF EndRevoking, Plain, Outcomes
  <1>27. CASE RemoveUser(p)
    BY <1>0, <1>27, ExitOK DEF RemoveUser, Outcomes
  <1>28. CASE RemoteFailure(p) \/ Crash(p)
    BY <1>0, <1>28, ExitOK DEF RemoteFailure, Crash, Outcomes
  <1> QED
    BY <1>1, <1>2, <1>3, <1>4, <1>5, <1>6, <1>7, <1>8, <1>9, <1>10, <1>11, <1>12, <1>13,
       <1>14, <1>15, <1>16, <1>17, <1>18, <1>19, <1>20, <1>21, <1>22, <1>23, <1>24,
       <1>25, <1>26, <1>27, <1>28 DEF Step

LEMMA AuthTypeStep ==
  ASSUME TypeInv, NEW p \in Procs, Start(p) \/ Step(p) \/ RemoteFailure(p) \/ Crash(p)
  PROVE  AuthTypeOK'
  <1>0. AuthTypeOK /\ cli[p] \in ProcState
    BY DEF TypeInv, CliOK
  <1>1. CASE UNCHANGED authVars
    BY <1>0, <1>1 DEF AuthTypeOK, authVars
  <1>2. ASSUME NEW g, NEW rs, NEW kind \in Kind, Revoke(g, rs, kind)
        PROVE  AuthTypeOK'
    BY <1>0, <1>2 DEF AuthTypeOK, Revoke
  <1>3. CASE RegisterClient(p)
    BY <1>0, <1>3, BoundsAssumption
    DEF RegisterClient, RegisterInstance, NewClient, AuthTypeOK, Client
  <1>4. CASE RefreshToken(p)
    BY <1>0, <1>4 DEF RefreshToken, CanRefresh, RefreshAccess, AuthTypeOK, Kind
  <1>5. CASE ExchangeCode(p)
    <2>1. PICK who \in Identities : Issue(NewGrant(p, who), cli[p].want)
      BY <1>5 DEF ExchangeCode, NewGrant
    <2>2. NewGrant(p, who) \in Grant /\ issued + 1 \in 1..MaxGrants
      BY <1>5, NewGrantType DEF ExchangeCode
    <2>3. cli[p].want \subseteq ResourceServers
      BY <1>0 DEF ProcState
    <2>4. {NewGrant(p, who)} \X cli[p].want \X Kind \subseteq Grant \X ResourceServers \X Kind
      BY <2>2, <2>3
    <2>5. issued' \in 0..MaxGrants
      BY <2>1, <2>2, BoundsAssumption DEF Issue
    <2> QED BY <1>0, <2>1, <2>4, <2>5 DEF Issue, AuthTypeOK
  <1>6. CASE DeleteClient(p)
    BY <1>0, <1>6 DEF DeleteClient, DeleteInstance, AuthTypeOK
  <1>7. CASE RevokeAccess(p) \/ RevokeRefresh(p)
    BY <1>1, <1>2, <1>7 DEF RevokeAccess, RevokeRefresh, Kind
  <1> QED
    BY <1>1, <1>3, <1>4, <1>5, <1>6, <1>7
    DEF Step, Start, RemoteFailure, Crash, OpenStorage, RevokeOldTokens, DeleteOldClient,
        CreateStorage, HasLogin, MeetsContract, ValidateToken, NeedClient, ReadClient,
        SaveClient, LoadTokens, CallService, CallFails, AbandonFlow, CheckUser, StoreUser,
        StoreTokenData, ReadVersions, StoreContractVersions, ForgetClient, DropVersions,
        DeleteClientFails, ListTokens, ForgetTokens, EndRevoking, RemoveUser

LEMMA StorageTypeStep ==
  ASSUME TypeInv, NEW p \in Procs, Start(p) \/ Step(p) \/ RemoteFailure(p) \/ Crash(p)
  PROVE  StorageTypeOK'
  <1>0. StorageTypeOK /\ cli[p] \in ProcState /\ ControlOK(cli[p])
    BY DEF TypeInv, CliOK
  <1>m. cli[p].mem \in TokenData /\ cli[p].cur \in ResourceServers
        /\ cli[p].cred \in Client \cup {NoClient}
        /\ cli[p].seen \in [ResourceServers -> Contracts]
    BY <1>0 DEF ProcState
  <1>1. CASE UNCHANGED storageVars
    BY <1>0, <1>1 DEF StorageTypeOK, storageVars
  <1>2. CASE RevokeOldTokens(p) \/ DeleteOldClient(p)
    BY <1>0, <1>1, <1>2 DEF RevokeOldTokens, DeleteOldClient, InvalidateOld, StorageTypeOK
  <1>3. CASE CreateStorage(p)
    BY <1>0, <1>3 DEF CreateStorage, CreateDb, StorageTypeOK
  <1>4. CASE SaveClient(p) \/ ForgetClient(p)
    BY <1>0, <1>m, <1>4 DEF SaveClient, ForgetClient, StoreClientData, StorageTypeOK
  <1>5. CASE StoreUser(p)
    <2>1. cli[p].mem[AuthRS] \in Grant
      BY <1>0, <1>5 DEF StoreUser, At, ControlOK
    <2>2. NewSub(p) \in Identities
      BY <2>1 DEF NewSub, Grant
    <2> QED BY <1>0, <1>5, <2>2 DEF StoreUser, StoreUserData, StorageTypeOK
  <1>6. CASE RemoveUser(p)
    BY <1>0, <1>6 DEF RemoveUser, StoreUserData, StorageTypeOK
  <1>7. CASE StoreTokenData(p)
    <2>1. tokens' \in TokenData
      BY <1>0, <1>m, <1>7 DEF StoreTokenData, StoreTokens, StorageTypeOK, TokenData
    <2> QED BY <1>0, <1>7, <2>1 DEF StoreTokenData, StoreTokens, StorageTypeOK
  <1>8. CASE StoreContractVersions(p)
    <2>1. MarkCurrent(cli[p].seen, cli[p].mem) \in [ResourceServers -> Contracts]
      BY <1>m, ContractAssumption DEF MarkCurrent
    <2> QED BY <1>0, <1>8, <2>1 DEF StoreContractVersions, StoreVersions, StorageTypeOK
  <1>9. CASE DropVersions(p)
    BY <1>0, <1>9, NoVersionsType DEF DropVersions, StoreVersions, StorageTypeOK
  <1>10. CASE ForgetTokens(p)
    <2>1. tokens' \in TokenData
      BY <1>0, <1>m, <1>10, WithoutType DEF ForgetTokens, RemoveTokens, StorageTypeOK
    <2> QED BY <1>0, <1>10, <2>1 DEF ForgetTokens, RemoveTokens, StorageTypeOK
  <1> QED
    BY <1>1, <1>2, <1>3, <1>4, <1>5, <1>6, <1>7, <1>8, <1>9, <1>10
    DEF Step, Start, RemoteFailure, Crash, OpenStorage, HasLogin, MeetsContract,
        ValidateToken, NeedClient, ReadClient, RegisterClient, LoadTokens, CallService,
        RefreshToken, CallFails, ExchangeCode, AbandonFlow, CheckUser, ReadVersions,
        DeleteClient, DeleteClientFails, ListTokens, RevokeAccess, RevokeRefresh, EndRevoking

LEMMA TypeInit == Init => TypeInv
  <1> SUFFICES ASSUME Init PROVE TypeInv
    OBVIOUS
  <1>1. CliOK
    BY EndedType
    DEF Init, Outcomes, CliOK, ControlOK, Ended, Toward, FlowCommands, ClientSteps
  <1>2. CASE InitFresh
    <2>1. AuthTypeOK
      BY <1>2, BoundsAssumption DEF InitFresh, AuthTypeOK
    <2>2. StorageTypeOK
      BY <1>2, NoTokensType, NoVersionsType DEF InitFresh, StorageTypeOK
    <2> QED BY <1>1, <2>1, <2>2 DEF TypeInv
  <1>3. ASSUME NEW s \in Sessions, InitSession(s) PROVE TypeInv
    <2>1. PICK who \in Identities :
             /\ auth_user_data = who
             /\ tokens = [rs \in ResourceServers |-> InitialGrant(who, s)]
             /\ live = {InitialGrant(who, s)} \X ResourceServers \X Kind
      BY <1>3 DEF InitSession
    <2>2. InitialGrant(who, s) \in Grant
      BY BoundsAssumption, ContractAssumption DEF InitialGrant, Grant, Client
    <2>3. StorageTypeOK
      BY <1>3, <2>1, <2>2, BoundsAssumption, ContractAssumption
      DEF InitSession, StorageTypeOK, TokenData, Client
    <2>4. AuthTypeOK
      BY <1>3, <2>1, <2>2, BoundsAssumption DEF InitSession, AuthTypeOK, Client
    <2> QED BY <1>1, <2>3, <2>4 DEF TypeInv
  <1> QED BY <1>2, <1>3 DEF Init

LEMMA TypeNext == TypeInv /\ [Next]_vars => TypeInv'
  <1> SUFFICES ASSUME TypeInv, [Next]_vars PROVE TypeInv'
    OBVIOUS
  <1>1. ASSUME NEW p \in Procs, Start(p) \/ Step(p) \/ RemoteFailure(p) \/ Crash(p)
        PROVE  TypeInv'
    <2>1. CliOK'
      BY <1>1, StartCliOK, ClientCliOK, ExchangeCliOK, OtherCliOK DEF TypeInv
    <2> QED BY <1>1, <2>1, AuthTypeStep, StorageTypeStep DEF TypeInv
  <1>2. CASE UNCHANGED vars
    BY <1>2 DEF TypeInv, vars, authVars, storageVars, AuthTypeOK, StorageTypeOK, CliOK
  <1> QED BY <1>1, <1>2 DEF Next

LEMMA TypeInvariant == Spec => []TypeInv
  BY TypeInit, TypeNext, PTL DEF Spec

\* Whatever the processes, faults and interleavings, every variable keeps its
\* type, and a login flow always has an identity to check.
THEOREM TypeCorrect == Spec => []TypeOK
  <1>1. TypeInv => TypeOK
    BY DEF TypeInv, CliOK, TypeOK
  <1> QED BY TypeInvariant, <1>1, PTL
-------------------------------------------------------------------------------
\* What a process does next.
Acts(p) == Start(p) \/ Step(p) \/ RemoteFailure(p) \/ Crash(p)

LEMMA BecomesIs ==
  ASSUME CliOK, NEW p \in Procs, NEW c, Becomes(p, c)
  PROVE  cli'[p] = c
  BY DEF Becomes, CliOK

\* A step changes the record of its own process only.
LEMMA OnlyOwn ==
  ASSUME CliOK, NEW p \in Procs, Acts(p), NEW q \in Procs, q # p
  PROVE  cli'[q] = cli[q]
  <1>1. \A c : Becomes(p, c) => cli'[q] = cli[q]
    BY DEF Becomes, CliOK
  <1> QED
    BY <1>1
    DEF Acts, Step, Start, RemoteFailure, Crash, OpenStorage, RevokeOldTokens,
        DeleteOldClient, CreateStorage, HasLogin, MeetsContract, ValidateToken, NeedClient,
        ReadClient, RegisterClient, SaveClient, LoadTokens, CallService, RefreshToken,
        CallFails, ExchangeCode, AbandonFlow, CheckUser, StoreUser, StoreTokenData,
        ReadVersions, StoreContractVersions, ForgetClient, DropVersions, DeleteClient,
        DeleteClientFails, ListTokens, RevokeAccess, RevokeRefresh, ForgetTokens,
        EndRevoking, RemoveUser, Goto, Exit, Missing, AfterCall
===============================================================================
