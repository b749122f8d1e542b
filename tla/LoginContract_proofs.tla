------------------------- MODULE LoginContract_proofs -------------------------
(***************************************************************************)
(* The scope contract versions that CLIStorage.store records can be        *)
(* trusted: for any number of processes, a version that satisfies          *)
(* min_contract_version is never stored beside tokens from an older        *)
(* contract.  StaticCheckSound is not inductive: store writes the tokens,  *)
(* reads the versions and writes them in three transactions, and a command *)
(* reads the tokens it uses once more after it has checked them.           *)
(***************************************************************************)
EXTENDS LoginSession_proofs

Meets(g, rs) == g = NoGrant \/ g.contract >= MinContract[rs]

\* Steps at which a process holds tokens that it will store or use.
Carrying(c) ==
    \/ c.pc \in {"call", "check_user", "store_user"} \cup StoreSteps
    \/ c.pc \in ClientSteps /\ c.ret = "call"

\* A `use` command has checked the login of cur and has not used it yet.
HasChecked(c) == c.cmd = "use" /\ (Toward(c, "validate") \/ c.pc = "load_tokens")

\* What a process with record c relies on.
CarriesMeeting(c) == Carrying(c) => \A rs \in ResourceServers : Meets(c.mem[rs], rs)
SeenSound(c) ==
    c.pc = "store_versions" =>
        \A rs \in ResourceServers : c.seen[rs] >= MinContract[rs] => Meets(tokens[rs], rs)
StoredMeeting(c) ==
    c.pc \in {"read_versions", "store_versions"} =>
        \A rs \in Held(c.mem) : Meets(tokens[rs], rs)
CheckedMeeting(c) == HasChecked(c) => Meets(tokens[c.cur], c.cur)
ChecksSomething(c) ==
    c.cmd = "use" /\ c.pc \in {"open", "revoke_old", "delete_old", "create_db"} => c.todo # {}

\* A call is made with a token: what a refresh stores on the way changes nothing.
HoldsToken(c) ==
    /\ c.pc \in {"check_user", "store_user"} => c.ret = "done"
    /\ c.pc = "call" \/ (c.pc \in StoreSteps \cup ClientSteps /\ c.ret = "call")
          => c.mem[c.cur] # NoGrant

ProcessContract(c) ==
    /\ CarriesMeeting(c) /\ SeenSound(c) /\ StoredMeeting(c)
    /\ CheckedMeeting(c) /\ ChecksSomething(c)
    /\ HoldsToken(c)

VersionsSound ==
    \A rs \in ResourceServers :
        scope_contract_versions[rs] >= MinContract[rs] => Meets(tokens[rs], rs)

ContractInv == TypeInv /\ VersionsSound /\ \A p \in Procs : ProcessContract(cli[p])
-------------------------------------------------------------------------------
LEMMA MinFacts ==
  /\ CURRENT_SCOPE_CONTRACT_VERSION \in Nat
  /\ \A rs \in ResourceServers :
        MinContract[rs] \in 0..CURRENT_SCOPE_CONTRACT_VERSION
  /\ Contracts = 0..CURRENT_SCOPE_CONTRACT_VERSION
  BY ContractAssumption

\* Every stored or held grant meets a requirement of 0; the ones of this
\* release meet every requirement.
LEMMA MeetsZero ==
  ASSUME NEW rs \in ResourceServers, NEW g \in Grant \cup {NoGrant},
         MinContract[rs] = 0 \/ (g # NoGrant => g.contract = CURRENT_SCOPE_CONTRACT_VERSION)
  PROVE  Meets(g, rs)
  BY MinFacts DEF Meets, Grant

\* The steps that change what is stored.
LEMMA StorageEffect ==
  ASSUME NEW p \in Procs, Acts(p)
  PROVE  \/ UNCHANGED <<tokens, scope_contract_versions>>
         \/ StoreTokenData(p) \/ ForgetTokens(p)
         \/ StoreContractVersions(p) \/ DropVersions(p)
  BY DEF Acts, Step, Start, RemoteFailure, Crash, OpenStorage, RevokeOldTokens,
         DeleteOldClient, CreateStorage, HasLogin, MeetsContract, ValidateToken, NeedClient,
         ReadClient, RegisterClient, SaveClient, LoadTokens, CallService, RefreshToken,
         CallFails, ExchangeCode, AbandonFlow, CheckUser, StoreUser, ReadVersions,
         ForgetClient, DeleteClient, DeleteClientFails, ListTokens, RevokeAccess,
         RevokeRefresh, EndRevoking, RemoveUser, storageVars, InvalidateOld, CreateDb,
         StoreClientData, StoreUserData

\* Tokens that meet the requirement are only ever replaced by tokens that do.
LEMMA MeetsStable ==
  ASSUME ContractInv, NEW p \in Procs, Acts(p), NEW rs \in ResourceServers,
         Meets(tokens[rs], rs)
  PROVE  Meets(tokens'[rs], rs)
  <1>0. cli[p] \in ProcState /\ tokens \in TokenData
    BY DEF ContractInv, TypeInv, CliOK, StorageTypeOK
  <1>1. CASE StoreTokenData(p)
    <2>1. Meets(cli[p].mem[rs], rs)
      BY <1>1 DEF StoreTokenData, At, ContractInv, ProcessContract, CarriesMeeting, Carrying,
                  StoreSteps
    <2>2. tokens'[rs] \in {cli[p].mem[rs], tokens[rs]}
      BY <1>1 DEF StoreTokenData, StoreTokens
    <2> QED BY <2>1, <2>2
  <1>2. CASE ForgetTokens(p)
    <2>1. tokens'[rs] \in {NoGrant, tokens[rs]}
      BY <1>0, <1>2 DEF ForgetTokens, RemoveTokens, Without, TokenData, ProcState
    <2> QED BY <2>1 DEF Meets
  <1>3. CASE tokens' = tokens
    BY <1>3
  <1> QED BY <1>1, <1>2, <1>3, StorageEffect
          DEF StoreContractVersions, StoreVersions, DropVersions

LEMMA VersionsStep ==
  ASSUME ContractInv, NEW p \in Procs, Acts(p)
  PROVE  VersionsSound'
  <1>0. /\ cli[p] \in ProcState /\ tokens \in TokenData /\ ProcessContract(cli[p])
        /\ VersionsSound
    BY DEF ContractInv, TypeInv, CliOK, StorageTypeOK
  <1> SUFFICES ASSUME NEW rs \in ResourceServers,
                      scope_contract_versions'[rs] >= MinContract[rs]
               PROVE  Meets(tokens'[rs], rs)
    BY DEF VersionsSound
  <1>1. CASE StoreContractVersions(p)
    <2>1. tokens' = tokens
          /\ scope_contract_versions' = MarkCurrent(cli[p].seen, cli[p].mem)
          /\ cli[p].pc = "store_versions"
      BY <1>1 DEF StoreContractVersions, StoreVersions, At
    <2>2. CASE cli[p].mem[rs] # NoGrant
      BY <1>0, <2>1, <2>2 DEF ProcessContract, StoredMeeting, Held
    <2>3. CASE cli[p].mem[rs] = NoGrant
      <3>1. cli[p].seen[rs] >= MinContract[rs]
        BY <2>1, <2>3 DEF MarkCurrent
      <3> QED BY <1>0, <2>1, <3>1 DEF ProcessContract, SeenSound
    <2> QED BY <2>2, <2>3
  <1>2. CASE DropVersions(p)
    <2>1. tokens' = tokens /\ MinContract[rs] = 0
      BY <1>2, MinFacts DEF DropVersions, StoreVersions, NoVersions
    <2>2. tokens[rs] \in Grant \cup {NoGrant}
      BY <1>0 DEF TokenData
    <2> QED BY <2>1, <2>2, MeetsZero
  <1>3. CASE UNCHANGED scope_contract_versions
    <2>1. Meets(tokens[rs], rs)
      BY <1>0, <1>3 DEF VersionsSound
    <2> QED BY <2>1, MeetsStable
  <1> QED BY <1>1, <1>2, <1>3, StorageEffect
          DEF StoreTokenData, StoreTokens, ForgetTokens, RemoveTokens

LEMMA OtherProcess ==
  ASSUME ContractInv, NEW p \in Procs, Acts(p), NEW q \in Procs, q # p
  PROVE  ProcessContract(cli[q])'
  <1>1. cli'[q] = cli[q] /\ cli[q] \in ProcState /\ ProcessContract(cli[q])
    BY OnlyOwn DEF ContractInv, TypeInv, CliOK
  <1>2. \A rs \in ResourceServers : Meets(tokens[rs], rs) => Meets(tokens'[rs], rs)
    BY MeetsStable
  <1> QED BY <1>1, <1>2 DEF ProcessContract, CarriesMeeting, SeenSound, StoredMeeting,
                            CheckedMeeting, ChecksSomething, HoldsToken, Held, ProcState
-------------------------------------------------------------------------------
\* The steps about which ProcessContract says nothing.
QuietSteps == {"idle", "has_login", "contract", "authorize", "delete_client",
               "drop_versions", "api_delete", "list_tokens", "forget", "remove_user"}
              \cup RevokeSteps

LEMMA QuietOK ==
  ASSUME NEW p \in Procs, cli'[p].pc \in QuietSteps
  PROVE  ProcessContract(cli[p])'
  BY DEF QuietSteps, RevokeSteps, ProcessContract, CarriesMeeting, Carrying, SeenSound,
         StoredMeeting, CheckedMeeting, HasChecked, Toward, ChecksSomething, HoldsToken, StoreSteps,
         ClientSteps

LEMMA ExitQuiet ==
  ASSUME CliOK, NEW p \in Procs, NEW o, Exit(p, o)
  PROVE  ProcessContract(cli[p])'
  BY QuietOK DEF Exit, Becomes, Ended, CliOK, QuietSteps

LEMMA GotoQuiet ==
  ASSUME CliOK, NEW p \in Procs, NEW s \in QuietSteps, Goto(p, s)
  PROVE  ProcessContract(cli[p])'
  <1>1. cli'[p].pc = s
    BY DEF Goto, Becomes, CliOK, ProcState
  <1> QED BY <1>1, QuietOK

\* Opening the storage.
LEMMA OpenContract ==
  ASSUME ContractInv, NEW p \in Procs, NEW s,
         Goto(p, s), cli[p].pc \in {"open", "revoke_old", "delete_old", "create_db"},
         s \in {"revoke_old", "delete_old", "create_db", AfterOpen(p)}
  PROVE  ProcessContract(cli[p])'
  <1>0. CliOK /\ ChecksSomething(cli[p]) /\ cli[p] \in ProcState
    BY DEF ContractInv, TypeInv, CliOK, ProcessContract
  <1>1. cli'[p] = [cli[p] EXCEPT !.pc = s]
    BY <1>0 DEF Goto, Becomes, CliOK
  <1>2. CASE s \in {"revoke_old", "delete_old", "create_db"}
    BY <1>0, <1>1, <1>2
    DEF ProcessContract, CarriesMeeting, Carrying, SeenSound, StoredMeeting, CheckedMeeting,
        HasChecked, Toward, ChecksSomething, HoldsToken, StoreSteps, ClientSteps, ProcState
  <1>3. CASE s = AfterOpen(p)
    <2>1. CASE s \in {"has_login", "authorize"}
      BY <1>0, <2>1, GotoQuiet DEF QuietSteps
    <2>2. CASE s = "load_tokens" /\ cli[p].cmd # "use"
      BY <1>0, <1>1, <2>2
      DEF ProcessContract, CarriesMeeting, Carrying, SeenSound, StoredMeeting,
          CheckedMeeting, HasChecked, Toward, ChecksSomething, HoldsToken, StoreSteps, ClientSteps,
          ProcState
    <2>3. \/ s \in {"has_login", "authorize"}
          \/ s = "load_tokens" /\ cli[p].cmd # "use"
      BY <1>0, <1>3 DEF AfterOpen, Checked, ChecksSomething, HoldsToken
    <2> QED BY <2>1, <2>2, <2>3
  <1> QED BY <1>2, <1>3

LEMMA MissingQuiet ==
  ASSUME CliOK, NEW p \in Procs, Missing(p)
  PROVE  ProcessContract(cli[p])'
  <1>1. CASE cli[p].cmd = "login"
    <2>1. cli'[p].pc = "authorize"
      BY <1>1 DEF Missing, Becomes, CliOK, ProcState
    <2> QED BY <2>1, QuietOK DEF QuietSteps
  <1>2. CASE cli[p].cmd # "login"
    BY <1>2, ExitQuiet DEF Missing
  <1> QED BY <1>1, <1>2

\* Checking a login.
LEMMA CheckContract ==
  ASSUME ContractInv, NEW p \in Procs,
         HasLogin(p) \/ MeetsContract(p) \/ ValidateToken(p) \/ LoadTokens(p)
  PROVE  ProcessContract(cli[p])'
  <1>0. /\ CliOK /\ ProcessContract(cli[p]) /\ cli[p] \in ProcState /\ VersionsSound
        /\ cli[p].cur \in ResourceServers /\ tokens \in TokenData
    BY DEF ContractInv, TypeInv, CliOK, ProcState, StorageTypeOK
  <1>1. CASE HasLogin(p)
    <2>1. PICK rs \in cli[p].todo :
            \/ Missing(p)
            \/ Becomes(p, [cli[p] EXCEPT !.pc = "contract", !.cur = rs, !.mem = Only(rs)])
      BY <1>1 DEF HasLogin
    <2>2. ASSUME Becomes(p, [cli[p] EXCEPT !.pc = "contract", !.cur = rs, !.mem = Only(rs)])
          PROVE  ProcessContract(cli[p])'
      <3>1. cli'[p].pc = "contract"
        BY <1>0, <2>2 DEF Becomes, CliOK, ProcState
      <3> QED BY <3>1, QuietOK DEF QuietSteps
    <2> QED BY <1>0, <2>1, <2>2, MissingQuiet
  <1>2. CASE MeetsContract(p)
    <2>1. \/ Missing(p)
          \/ /\ scope_contract_versions[cli[p].cur] >= MinContract[cli[p].cur]
             /\ cli' = [cli EXCEPT ![p] = [cli[p] EXCEPT !.pc = "validate"]]
             /\ tokens' = tokens
      BY <1>2 DEF MeetsContract, Goto, Becomes, storageVars
    <2>2. ASSUME scope_contract_versions[cli[p].cur] >= MinContract[cli[p].cur],
                 cli' = [cli EXCEPT ![p] = [cli[p] EXCEPT !.pc = "validate"]],
                 tokens' = tokens
          PROVE  ProcessContract(cli[p])'
      <3>1. Meets(tokens[cli[p].cur], cli[p].cur)
        BY <1>0, <2>2 DEF VersionsSound
      <3>2. cli'[p] = [cli[p] EXCEPT !.pc = "validate"]
        BY <1>0, <2>2 DEF CliOK
      <3> QED BY <1>0, <2>2, <3>1, <3>2
          DEF ProcessContract, CarriesMeeting, Carrying, SeenSound, StoredMeeting,
              CheckedMeeting, ChecksSomething, HoldsToken, StoreSteps, ClientSteps, ProcState
    <2> QED BY <1>0, <2>1, <2>2, MissingQuiet
  <1>3. CASE ValidateToken(p)
    <2> DEFINE rest == cli[p].todo \ {cli[p].cur}
               s == IF rest = {} THEN Checked(p) ELSE "has_login"
    <2>1. \/ Missing(p)
          \/ Exit(p, "ok")
          \/ Becomes(p, [cli[p] EXCEPT !.todo = rest, !.mem = NoTokens, !.pc = s])
      BY <1>3 DEF ValidateToken
    <2>2. ASSUME Becomes(p, [cli[p] EXCEPT !.todo = rest, !.mem = NoTokens, !.pc = s])
          PROVE  ProcessContract(cli[p])'
      <3> HIDE DEF rest
      <3>1. s \in QuietSteps \/ s = "load_tokens"
        BY DEF Checked, QuietSteps
      <3> HIDE DEF s
      <3>2. /\ cli'[p].pc = s /\ cli'[p].cmd = cli[p].cmd /\ cli'[p].cur = cli[p].cur
            /\ tokens' = tokens /\ cli[p].pc = "validate"
        BY <1>0, <1>3, <2>2 DEF Becomes, CliOK, ProcState, ValidateToken, At, storageVars
      <3>3. CASE s = "load_tokens"
        <4>1. CheckedMeeting(cli[p])'
          BY <1>0, <3>2, <3>3
          DEF ProcessContract, CheckedMeeting, HasChecked, Toward, ClientSteps
        <4> QED BY <3>2, <3>3, <4>1
            DEF ProcessContract, CarriesMeeting, Carrying, SeenSound, StoredMeeting,
                ChecksSomething, HoldsToken, StoreSteps, ClientSteps
      <3> QED BY <3>1, <3>2, <3>3, QuietOK
    <2> QED BY <1>0, <2>1, <2>2, MissingQuiet, ExitQuiet
  <1>4. CASE LoadTokens(p)
    <2> DEFINE rs == IF cli[p].cmd = "use" THEN cli[p].cur ELSE AuthRS
    <2>1. \/ Exit(p, "no_tokens")
          \/ /\ tokens[rs] # NoGrant
             /\ Becomes(p, [cli[p] EXCEPT !.pc = "call", !.cur = rs, !.mem = Only(rs)])
      BY <1>4 DEF LoadTokens
    <2>2. ASSUME tokens[rs] # NoGrant,
                 Becomes(p, [cli[p] EXCEPT !.pc = "call", !.cur = rs, !.mem = Only(rs)])
          PROVE  ProcessContract(cli[p])'
      <3>1. Meets(tokens[rs], rs)
        <4>1. CASE cli[p].cmd = "use"
          BY <1>0, <1>4, <4>1
          DEF LoadTokens, At, ProcessContract, CheckedMeeting, HasChecked
        <4>2. CASE cli[p].cmd # "use"
          BY <1>0, <4>2, MeetsZero, AuthRSAssumption DEF TokenData
        <4> QED BY <4>1, <4>2
      <3>2. \A r \in ResourceServers : Only(rs)[r] = NoGrant \/ (r = rs /\ Only(rs)[r] = tokens[rs])
        BY <1>0 DEF Only, NoTokens
      <3>5. Only(rs)[rs] # NoGrant
        BY <1>0, <2>2, AuthRSAssumption DEF Only, NoTokens
      <3> HIDE DEF rs
      <3>3. cli'[p].pc = "call" /\ cli'[p].mem = Only(rs) /\ cli'[p].cur = rs
        BY <1>0, <2>2 DEF Becomes, CliOK, ProcState
      <3>4. \A r \in ResourceServers : Meets(cli'[p].mem[r], r)
        BY <3>1, <3>2, <3>3 DEF Meets
      <3> QED BY <3>3, <3>4, <3>5
          DEF ProcessContract, CarriesMeeting, SeenSound, StoredMeeting, CheckedMeeting,
              HasChecked, Toward, ChecksSomething, HoldsToken, ClientSteps
    <2> QED BY <1>0, <2>1, <2>2, ExitQuiet
  <1> QED BY <1>1, <1>2, <1>3, <1>4

\* Getting a client, and the call with its refresh.
LEMMA CallContract ==
  ASSUME ContractInv, NEW p \in Procs,
         \/ NeedClient(p) \/ ReadClient(p) \/ RegisterClient(p) \/ SaveClient(p)
         \/ CallService(p) \/ RefreshToken(p) \/ CallFails(p)
  PROVE  ProcessContract(cli[p])'
  <1>0. CliOK /\ ProcessContract(cli[p]) /\ cli[p] \in ProcState /\ ControlOK(cli[p])
    BY DEF ContractInv, TypeInv, CliOK
  <1>1. CASE NeedClient(p) \/ ReadClient(p) \/ RegisterClient(p) \/ SaveClient(p)
    <2> DEFINE Keeps == /\ cli'[p].mem = cli[p].mem /\ cli'[p].cur = cli[p].cur
                        /\ cli'[p].cmd = cli[p].cmd /\ tokens' = tokens
    <2>1. Keeps
      <3>1. ASSUME NeedClient(p) PROVE Keeps
        BY <1>0, <3>1 DEF NeedClient, Becomes, CliOK, ProcState, storageVars
      <3>2. ASSUME ReadClient(p) PROVE Keeps
        <4>1. \/ Goto(p, "register")
              \/ Becomes(p, [cli[p] EXCEPT !.pc = cli[p].ret, !.cred = auth_client_data])
          BY <3>2 DEF ReadClient
        <4>2. tokens' = tokens
          BY <3>2 DEF ReadClient, storageVars
        <4>3. cli'[p] \in {[cli[p] EXCEPT !.pc = "register"],
                           [cli[p] EXCEPT !.pc = cli[p].ret, !.cred = auth_client_data]}
          BY <1>0, <4>1, BecomesIs DEF Goto
        <4> QED BY <1>0, <4>2, <4>3 DEF ProcState
      <3>3. ASSUME RegisterClient(p) PROVE Keeps
        BY <1>0, <3>3 DEF RegisterClient, Becomes, CliOK, ProcState, storageVars
      <3>4. ASSUME SaveClient(p) PROVE Keeps
        BY <1>0, <3>4 DEF SaveClient, StoreClientData, Goto, Becomes, CliOK, ProcState
      <3> QED BY <1>1, <3>1, <3>2, <3>3, <3>4
    <2>3. CASE NeedClient(p)
      <3>1. /\ cli[p].pc \in {"validate", "call", "authorize"}
            /\ cli'[p].pc = "client" /\ cli'[p].ret = cli[p].pc
        BY <1>0, <2>3 DEF NeedClient, Becomes, CliOK, ProcState
      <3> QED BY <1>0, <2>1, <3>1
          DEF ProcessContract, CarriesMeeting, Carrying, SeenSound, StoredMeeting,
              CheckedMeeting, HasChecked, Toward, ChecksSomething, HoldsToken, StoreSteps,
              ClientSteps
    <2>4. CASE ReadClient(p) \/ RegisterClient(p) \/ SaveClient(p)
      <3> DEFINE Goes == /\ cli[p].pc \in ClientSteps /\ cli'[p].ret = cli[p].ret
                         /\ cli'[p].pc \in {"register", "save_client", cli[p].ret}
      <3>1. ASSUME ReadClient(p) PROVE Goes
        <4>1. \/ Goto(p, "register")
              \/ Becomes(p, [cli[p] EXCEPT !.pc = cli[p].ret, !.cred = auth_client_data])
          BY <3>1 DEF ReadClient
        <4>2. cli[p].pc \in ClientSteps
          BY <3>1 DEF ReadClient, At, ClientSteps
        <4>3. cli'[p] \in {[cli[p] EXCEPT !.pc = "register"],
                           [cli[p] EXCEPT !.pc = cli[p].ret, !.cred = auth_client_data]}
          BY <1>0, <4>1, BecomesIs DEF Goto
        <4> QED BY <1>0, <4>2, <4>3 DEF ProcState
      <3>2. ASSUME RegisterClient(p) PROVE Goes
        BY <1>0, <3>2 DEF RegisterClient, Goto, Becomes, At, CliOK, ProcState, ClientSteps
      <3>5. ASSUME SaveClient(p) PROVE Goes
        BY <1>0, <3>5 DEF SaveClient, Goto, Becomes, At, CliOK, ProcState, ClientSteps
      <3>4. Goes
        BY <2>4, <3>1, <3>2, <3>5
      <3>3. cli[p].ret \in {"validate", "call", "authorize"}
        BY <1>0, <3>4 DEF ControlOK, ProcState
      <3> QED BY <1>0, <2>1, <3>3, <3>4
          DEF ProcessContract, CarriesMeeting, Carrying, SeenSound, StoredMeeting,
              CheckedMeeting, HasChecked, Toward, ChecksSomething, HoldsToken, StoreSteps,
              ClientSteps
    <2> QED BY <1>1, <2>3, <2>4
  <1>2. CASE RefreshToken(p)
    <2>1. /\ cli'[p].pc = "store_tokens" /\ cli'[p].mem = cli[p].mem
          /\ cli'[p].cur = cli[p].cur /\ cli[p].pc = "call"
      BY <1>0, <1>2 DEF RefreshToken, Becomes, At, CliOK, ProcState
    <2> QED BY <1>0, <2>1
        DEF ProcessContract, CarriesMeeting, Carrying, SeenSound, StoredMeeting,
            CheckedMeeting, HasChecked, Toward, ChecksSomething, HoldsToken, StoreSteps, ClientSteps
  <1>3. ASSUME AfterCall(p) PROVE ProcessContract(cli[p])'
    <2>1. {"authorize", "delete_client", "list_tokens"} \subseteq QuietSteps
      BY DEF QuietSteps
    <2> QED BY <1>0, <1>3, <2>1, GotoQuiet, ExitQuiet DEF AfterCall
  <1> QED BY <1>0, <1>1, <1>2, <1>3, ExitQuiet DEF CallService, CallFails

\* The login flow, and storing its response.
LEMMA FlowContract ==
  ASSUME ContractInv, NEW p \in Procs,
         \/ ExchangeCode(p) \/ CheckUser(p) \/ StoreUser(p)
         \/ StoreTokenData(p) \/ ReadVersions(p) \/ StoreContractVersions(p)
  PROVE  ProcessContract(cli[p])'
  <1>0. /\ CliOK /\ ProcessContract(cli[p]) /\ cli[p] \in ProcState /\ VersionsSound
        /\ tokens \in TokenData /\ cli[p].mem \in TokenData
    BY DEF ContractInv, TypeInv, CliOK, ProcState, StorageTypeOK
  <1>1. CASE ExchangeCode(p)
    <2>1. PICK who \in Identities :
            Becomes(p, [cli[p] EXCEPT !.pc = "check_user", !.ret = "done",
                          !.mem = Response(NewGrant(p, who), cli[p].want)])
      BY <1>1 DEF ExchangeCode, NewGrant
    <2>2. \A rs \in ResourceServers :
            Meets(Response(NewGrant(p, who), cli[p].want)[rs], rs)
      BY MinFacts DEF Response, Meets, NewGrant
    <2>3. /\ cli'[p].pc = "check_user" /\ cli'[p].ret = "done"
          /\ cli'[p].mem = Response(NewGrant(p, who), cli[p].want)
      BY <1>0, <2>1 DEF Becomes, CliOK, ProcState
    <2> QED BY <2>2, <2>3
        DEF ProcessContract, CarriesMeeting, SeenSound, StoredMeeting, CheckedMeeting,
            HasChecked, Toward, ChecksSomething, HoldsToken, ClientSteps
  <1>2. CASE CheckUser(p) \/ StoreUser(p)
    <2>1. /\ cli[p].pc \in {"check_user", "store_user"}
          /\ cli'[p].pc \in {"store_user", "store_tokens"} \cup RevokeSteps
          /\ cli'[p].mem = cli[p].mem /\ cli'[p].ret = cli[p].ret
      BY <1>0, <1>2 DEF CheckUser, StoreUser, Goto, Becomes, At, CliOK, ProcState, RevokeSteps
    <2>2. CASE cli'[p].pc \in RevokeSteps
      BY <2>2, QuietOK DEF QuietSteps
    <2>3. CASE cli'[p].pc \in {"store_user", "store_tokens"}
      BY <1>0, <2>1, <2>3
      DEF ProcessContract, CarriesMeeting, Carrying, SeenSound, StoredMeeting,
          CheckedMeeting, HasChecked, Toward, ChecksSomething, HoldsToken, StoreSteps, ClientSteps
    <2> QED BY <2>1, <2>2, <2>3
  <1>3. CASE StoreTokenData(p)
    <2>1. /\ cli[p].pc = "store_tokens" /\ cli'[p].pc = "read_versions"
          /\ cli'[p].mem = cli[p].mem /\ cli'[p].ret = cli[p].ret
          /\ cli'[p].cur = cli[p].cur
          /\ \A rs \in Held(cli[p].mem) : tokens'[rs] = cli[p].mem[rs]
      BY <1>0, <1>3 DEF StoreTokenData, StoreTokens, Goto, Becomes, At, CliOK, ProcState, Held
    <2> QED BY <1>0, <2>1
        DEF ProcessContract, CarriesMeeting, Carrying, SeenSound, StoredMeeting,
            CheckedMeeting, HasChecked, Toward, ChecksSomething, HoldsToken, StoreSteps, ClientSteps, Held
  <1>4. CASE ReadVersions(p)
    <2>1. /\ cli[p].pc = "read_versions" /\ cli'[p].pc = "store_versions"
          /\ cli'[p].mem = cli[p].mem /\ cli'[p].seen = scope_contract_versions
          /\ cli'[p].ret = cli[p].ret /\ cli'[p].cur = cli[p].cur /\ tokens' = tokens
      BY <1>0, <1>4 DEF ReadVersions, Becomes, At, CliOK, ProcState, storageVars
    <2> QED BY <1>0, <2>1
        DEF ProcessContract, CarriesMeeting, Carrying, SeenSound, StoredMeeting,
            CheckedMeeting, HasChecked, Toward, ChecksSomething, HoldsToken, StoreSteps, ClientSteps,
            Held, VersionsSound
  <1>5. CASE StoreContractVersions(p)
    <2>1. CASE cli[p].ret = "call"
      <3>1. /\ cli'[p].pc = "call" /\ cli[p].pc = "store_versions"
            /\ cli'[p].mem = cli[p].mem /\ cli'[p].cur = cli[p].cur
        <4>1. /\ Becomes(p, [cli[p] EXCEPT !.pc = "call", !.seen = NoVersions])
              /\ cli[p].pc = "store_versions"
          BY <1>5, <2>1 DEF StoreContractVersions, At
        <4>2. cli'[p] = [cli[p] EXCEPT !.pc = "call", !.seen = NoVersions]
          BY <1>0, <4>1, BecomesIs
        <4> QED BY <1>0, <4>1, <4>2 DEF ProcState
      <3> QED BY <1>0, <2>1, <3>1
          DEF ProcessContract, CarriesMeeting, Carrying, SeenSound, StoredMeeting,
              CheckedMeeting, HasChecked, Toward, ChecksSomething, HoldsToken, StoreSteps, ClientSteps
    <2> QED BY <1>0, <1>5, <2>1, ExitQuiet DEF StoreContractVersions
  <1> QED BY <1>1, <1>2, <1>3, <1>4, <1>5

\* The end of a session, and every way a command ends early.
LEMMA EndContract ==
  ASSUME ContractInv, NEW p \in Procs,
         \/ ForgetClient(p) \/ DropVersions(p) \/ DeleteClient(p) \/ DeleteClientFails(p)
         \/ ListTokens(p) \/ RevokeAccess(p) \/ RevokeRefresh(p) \/ ForgetTokens(p)
         \/ EndRevoking(p) \/ RemoveUser(p)
         \/ AbandonFlow(p) \/ RemoteFailure(p) \/ Crash(p)
  PROVE  ProcessContract(cli[p])'
  <1>0. CliOK /\ cli[p] \in ProcState
    BY DEF ContractInv, TypeInv, CliOK
  <1>q. {"drop_versions", "api_delete", "list_tokens", "revoke_access", "revoke_refresh",
         "forget", "remove_user", "idle"} \subseteq QuietSteps
    BY DEF QuietSteps, RevokeSteps
  <1>1. CASE \/ ForgetClient(p) \/ DropVersions(p) \/ DeleteClientFails(p)
             \/ EndRevoking(p) \/ RemoveUser(p)
             \/ AbandonFlow(p) \/ RemoteFailure(p) \/ Crash(p)
    BY <1>0, <1>q, <1>1, GotoQuiet, ExitQuiet
    DEF ForgetClient, DropVersions, DeleteClientFails, EndRevoking, RemoveUser, AbandonFlow,
        RemoteFailure, Crash
  <1>2. CASE \/ DeleteClient(p) \/ ListTokens(p) \/ RevokeAccess(p) \/ RevokeRefresh(p)
             \/ ForgetTokens(p)
    <2>2. CASE DeleteClient(p) \/ ListTokens(p) \/ ForgetTokens(p)
      <3>1. cli'[p].pc \in {"list_tokens", "revoke_access"}
        BY <1>0, <2>2 DEF DeleteClient, ListTokens, ForgetTokens, Becomes, CliOK, ProcState
      <3> QED BY <1>q, <3>1, QuietOK
    <2>3. CASE RevokeAccess(p)
      <3>1. PICK rs \in ResourceServers :
              Becomes(p, [cli[p] EXCEPT !.pc = "revoke_refresh", !.cur = rs])
        BY <2>3 DEF RevokeAccess, Held
      <3>2. cli'[p].pc = "revoke_refresh"
        BY <1>0, <3>1 DEF Becomes, CliOK, ProcState
      <3> QED BY <1>q, <3>2, QuietOK
    <2>4. CASE RevokeRefresh(p)
      <3>0. \/ Goto(p, "forget")
            \/ Becomes(p, [cli[p] EXCEPT !.pc = "revoke_access",
                             !.mem = Without(cli[p].mem, cli[p].cur)])
        BY <2>4 DEF RevokeRefresh
      <3>1. cli'[p].pc \in {"forget", "revoke_access"}
        BY <1>0, <3>0 DEF Becomes, Goto, CliOK, ProcState
      <3> QED BY <1>q, <3>1, QuietOK
    <2> QED BY <1>2, <2>2, <2>3, <2>4
  <1> QED BY <1>1, <1>2

LEMMA StartContract ==
  ASSUME ContractInv, NEW p \in Procs, Start(p)
  PROVE  ProcessContract(cli[p])'
  <1>1. PICK cmd \in Commands, ignore \in BOOLEAN, force \in BOOLEAN,
             want \in SUBSET ResourceServers, cur \in ResourceServers :
          /\ WellFormed(cmd, ignore, force, want, cur)
          /\ Becomes(p, Started(cmd, ignore, force, want, cur))
    BY DEF Start
  <1>2. /\ cli'[p].pc = "open" /\ cli'[p].cmd = cmd
        /\ cli'[p].todo = LoginsToCheck(cmd, force, want)
    BY <1>1 DEF Becomes, Started, Ended, ContractInv, TypeInv, CliOK
  <1>3. cmd = "use" => LoginsToCheck(cmd, force, want) # {}
    BY <1>1 DEF WellFormed, LoginsToCheck
  <1> QED BY <1>2, <1>3
      DEF ProcessContract, CarriesMeeting, Carrying, SeenSound, StoredMeeting, CheckedMeeting,
          HasChecked, Toward, ChecksSomething, HoldsToken, StoreSteps, ClientSteps

LEMMA OwnProcess ==
  ASSUME ContractInv, NEW p \in Procs, Acts(p)
  PROVE  ProcessContract(cli[p])'
  <1>1. CASE OpenStorage(p) \/ RevokeOldTokens(p) \/ DeleteOldClient(p) \/ CreateStorage(p)
    <2>1. PICK s \in {"revoke_old", "delete_old", "create_db", AfterOpen(p)} : Goto(p, s)
      BY <1>1 DEF OpenStorage, RevokeOldTokens, DeleteOldClient, CreateStorage
    <2>2. cli[p].pc \in {"open", "revoke_old", "delete_old", "create_db"}
      BY <1>1 DEF OpenStorage, RevokeOldTokens, DeleteOldClient, CreateStorage, At
    <2> QED BY <2>1, <2>2, OpenContract
  <1> QED BY <1>1, CheckContract, CallContract, FlowContract, EndContract, StartContract
          DEF Acts, Step
-------------------------------------------------------------------------------
LEMMA ContractInit == Init => ContractInv
  <1> SUFFICES ASSUME Init PROVE ContractInv
    OBVIOUS
  <1>1. TypeInv
    BY TypeInit
  <1>2. \A p \in Procs : ProcessContract(cli[p])
    BY DEF Init, Ended, ProcessContract, CarriesMeeting, Carrying, SeenSound, StoredMeeting,
           CheckedMeeting, HasChecked, Toward, ChecksSomething, HoldsToken, StoreSteps, ClientSteps
  <1>3. CASE InitFresh
    <2>1. VersionsSound
      BY <1>3 DEF InitFresh, NoTokens, VersionsSound, Meets
    <2> QED BY <1>1, <1>2, <2>1 DEF ContractInv
  <1>4. ASSUME NEW s \in Sessions, InitSession(s) PROVE VersionsSound
    BY <1>4, MinFacts DEF InitSession, InitialGrant, VersionsSound, Meets
  <1> QED BY <1>1, <1>2, <1>3, <1>4 DEF Init, ContractInv

LEMMA ContractNext == ContractInv /\ [Next]_vars => ContractInv'
  <1> SUFFICES ASSUME ContractInv, [Next]_vars PROVE ContractInv'
    OBVIOUS
  <1>1. TypeInv'
    BY TypeNext DEF ContractInv
  <1>2. ASSUME NEW p \in Procs, Acts(p) PROVE ContractInv'
    <2>1. VersionsSound'
      BY <1>2, VersionsStep
    <2>2. ASSUME NEW q \in Procs PROVE ProcessContract(cli[q])'
      BY <1>2, OwnProcess, OtherProcess
    <2> QED BY <1>1, <2>1, <2>2 DEF ContractInv
  <1>3. CASE UNCHANGED vars
    BY <1>1, <1>3
    DEF ContractInv, vars, storageVars, VersionsSound, ProcessContract, CarriesMeeting,
        SeenSound, StoredMeeting, CheckedMeeting, ChecksSomething, HoldsToken
  <1> QED BY <1>2, <1>3 DEF Next, Acts

LEMMA ContractInvariant == Spec => []ContractInv
  BY ContractInit, ContractNext, PTL DEF Spec

\* However many processes log in, refresh, log out or crash at the same time, a
\* stored contract version that satisfies the requirement of a service is never
\* beside tokens that were requested under an older contract.
THEOREM StaticCheckTheorem == Spec => []StaticCheckSound
  <1>1. ContractInv => StaticCheckSound
    BY DEF ContractInv, VersionsSound, Meets, StaticCheckSound, Held
  <1> QED BY <1>1, ContractInvariant, PTL

\* No command ever calls a service with tokens from before the contract that
\* the service requires.
THEOREM CallsMeetTheorem == Spec => []CallsMeetContract
  <1>1. ContractInv => CallsMeetContract
    <2> SUFFICES ASSUME ContractInv, NEW p \in Procs, cli[p].pc = "call"
                 PROVE  cli[p].mem[cli[p].cur].contract >= MinContract[cli[p].cur]
      BY DEF CallsMeetContract
    <2>1. cli[p].cur \in ResourceServers /\ ProcessContract(cli[p])
      BY DEF ContractInv, TypeInv, CliOK, ProcState
    <2> QED BY <2>1 DEF ProcessContract, CarriesMeeting, Carrying, HoldsToken, Meets
  <1> QED BY <1>1, ContractInvariant, PTL
===============================================================================
