------------------------- MODULE LoginIdentity_proofs -------------------------
(***************************************************************************)
(* Proofs about what a session keeps to its end: whose it is, that its     *)
(* client exists, and what a logout and a refused login leave usable.      *)
(*                                                                         *)
(* Between the check of a new identity and the transactions that store it, *)
(* and between the tokens a logout lists and the identity it removes at    *)
(* last, nothing locks the storage: two first logins at once break         *)
(* SessionIdentity.  It is proved for one command at a time (Alone), and   *)
(* for any number of processes that share a session which none of them     *)
(* ends (Shared).                                                          *)
(***************************************************************************)
EXTENDS LoginSession_proofs

\* One command at a time.
Alone == \A p, q \in Procs : p = q

\* Somebody is logged in, and nobody logs out.
LogoutCommands == {"logout", "delete"}
Shared == "none" \notin Sessions /\ Commands \cap LogoutCommands = {}
-------------------------------------------------------------------------------
(***************************************************************************)
(* Which command is where.                                                 *)
(***************************************************************************)
DeleteSteps == {"delete_client", "drop_versions", "api_delete"}
EndSteps == {"list_tokens", "forget", "remove_user"} \cup DeleteSteps
CheckSteps == {"has_login", "contract"}
IdentitySteps == {"check_user", "store_user"}

\* A call is being made, or tokens refreshed on its way are stored.
Calling(c) == Toward(c, "call") \/ (c.pc \in StoreSteps /\ c.ret = "call")

\* A token response is on its way to the storage.
Storing(c) == c.pc \in IdentitySteps \/ (c.pc \in StoreSteps /\ c.ret # "call")

PhaseOK(c) ==
    /\ c.pc = "idle" <=> c.cmd = "none"
    /\ c.pc # "idle" => c.outcome = "none"
    /\ c.ignore => c.cmd \in LogoutCommands
    /\ c.todo # {} => c.cmd \in {"login", "update", "use"}
    /\ c.pc \in CheckSteps \/ Toward(c, "validate") => c.cmd \in {"login", "update", "use"}
    /\ c.pc = "load_tokens" \/ Calling(c) => c.cmd \in {"update", "use"} \cup LogoutCommands
    /\ Storing(c) => c.cmd \in FlowCommands
    /\ c.pc \in IdentitySteps => c.ret = "done"
    /\ c.pc \in EndSteps => c.cmd \in LogoutCommands
    /\ c.pc \in DeleteSteps => c.cmd = "delete"

PhaseInv == TypeInv /\ \A p \in Procs : PhaseOK(cli[p])
-------------------------------------------------------------------------------
(***************************************************************************)
(* Whose tokens a process holds.                                           *)
(***************************************************************************)
Belongs(m, who) == \A rs \in Held(m) : m[rs].sub = who

\* A logout works through the tokens it listed.
Ending(c) == c.cmd \in LogoutCommands /\ c.pc \in {"forget"} \cup RevokeSteps

IdentityOK(c) ==
    /\ c.pc \in IdentitySteps => Belongs(c.mem, c.mem[AuthRS].sub)
    /\ c.pc = "store_user" => auth_user_data = NoIdentity
    /\ Calling(c) \/ c.pc \in StoreSteps => Belongs(c.mem, auth_user_data)
    /\ Ending(c) => Held(tokens) \subseteq Held(c.mem)
    /\ c.pc = "remove_user" => Held(tokens) = {}

IdentityInv ==
    /\ PhaseInv /\ SessionIdentity
    /\ \A p \in Procs : IdentityOK(cli[p])
    /\ Shared => auth_user_data # NoIdentity
-------------------------------------------------------------------------------
\* A client is stored by the process that registered it, and only once, and it is
\* deleted by a process that saw it gone from the storage.
Doomed(c) == c.pc \in {"drop_versions", "api_delete"}

ClientOK(c) ==
    /\ c.cred <= registered
    /\ c.pc = "save_client" => c.cred \in clients /\ c.cred # auth_client_data
    /\ Doomed(c) => auth_client_data = NoClient \/ auth_client_data # c.cred

\* Nobody else has a client that is registered and not stored yet.
Unshared(p, q) == p # q /\ cli[p].pc = "save_client" => cli[q].cred # cli[p].cred

ClientInv ==
    /\ StoredClientExists /\ auth_client_data <= registered
    /\ \A p \in Procs : ClientOK(cli[p])
    /\ \A p, q \in Procs : Unshared(p, q)
-------------------------------------------------------------------------------
\* What a logout has revoked so far.
Dead(c, kind) == <<c.mem[c.cur], c.cur, kind>> \notin live

RevokedOK(c) ==
    /\ Ending(c) => \A rs \in Held(c.mem) : c.mem[rs] = tokens[rs]
    /\ Ending(c) /\ c.pc # "revoke_access" /\ ~c.ignore => Dead(c, "access_token")
    /\ Ending(c) /\ c.pc = "forget" /\ ~c.ignore => Dead(c, "refresh_token")

RevokedInv == IdentityInv /\ \A p \in Procs : RevokedOK(cli[p])
-------------------------------------------------------------------------------
\* The grant of the last token response, and what a refused login has still to
\* revoke of it.
Refusing(c) == c.cmd \notin LogoutCommands /\ c.pc \in {"check_user"} \cup RevokeSteps

RefusedOK(c) ==
    Refusing(c) =>
        \A t \in live : t[1].n = issued =>
            /\ t[1] = c.mem[t[2]]
            /\ c.pc = "revoke_refresh" /\ t[2] = c.cur => t[3] = "refresh_token"

RefusedInv ==
    /\ PhaseInv
    /\ \A t \in live : t[1].n <= issued
    /\ \A p \in Procs : RefusedOK(cli[p])
-------------------------------------------------------------------------------
\* The old configuration is cleaned up before storage.db is there.
OldConfigInv ==
    /\ OldTokensRevoked
    /\ \A p \in Procs : cli[p].pc \in {"delete_old", "create_db"} => "tokens" \notin oldConfig
-------------------------------------------------------------------------------
(***************************************************************************)
(* What each step does to the record c of its process, field by field.     *)
(***************************************************************************)
\* The command goes on: d has what does not change while it runs.
Goes(c, d) ==
    /\ d.cmd = c.cmd /\ d.ignore = c.ignore /\ d.want = c.want /\ d.outcome = c.outcome

\* All but the step stays.
Moves(c, d) ==
    /\ Goes(c, d)
    /\ d.todo = c.todo /\ d.cur = c.cur /\ d.mem = c.mem /\ d.cred = c.cred /\ d.ret = c.ret

LEMMA GotoMoves ==
  ASSUME CliOK, NEW p \in Procs, NEW s, Goto(p, s)
  PROVE  cli'[p].pc = s /\ Moves(cli[p], cli'[p])
  <1>1. cli[p] \in ProcState
    BY DEF CliOK
  <1>2. cli'[p] = [cli[p] EXCEPT !.pc = s]
    BY BecomesIs DEF Goto
  <1> QED BY <1>1, <1>2 DEF Moves, Goes, ProcState

LEMMA ExitEnds ==
  ASSUME CliOK, NEW p \in Procs, NEW o, Exit(p, o)
  PROVE  cli'[p] = Ended(o)
  BY BecomesIs DEF Exit

\* No usable login: `login` goes on to log in, any other command ends.
Misses(c, d) ==
    \/ d = Ended("missing_login")
    \/ /\ c.cmd = "login" /\ Goes(c, d)
       /\ d.pc = "authorize" /\ d.todo = {} /\ d.mem = NoTokens
       /\ d.cred = c.cred /\ d.ret = c.ret

LEMMA MissingMoves ==
  ASSUME CliOK, NEW p \in Procs, Missing(p)
  PROVE  Misses(cli[p], cli'[p])
  <1>1. cli[p] \in ProcState
    BY DEF CliOK
  <1>2. CASE cli[p].cmd = "login"
    <2>1. cli'[p] = [cli[p] EXCEPT !.pc = "authorize", !.todo = {}, !.mem = NoTokens]
      BY <1>2, BecomesIs DEF Missing
    <2> QED BY <1>1, <1>2, <2>1 DEF Misses, Goes, ProcState
  <1> QED BY <1>2, ExitEnds DEF Missing, Misses

LEMMA StartMoves ==
  ASSUME CliOK, NEW p \in Procs, Start(p)
  PROVE  LET c == cli[p]
             d == cli'[p]
         IN  /\ c.pc = "idle" /\ d.pc = "open" /\ d.outcome = "none"
             /\ d.cmd \in Commands
             /\ d.ignore => d.cmd \in LogoutCommands
             /\ d.todo # {} => d.cmd \in {"login", "update", "use"}
             /\ d.mem = NoTokens /\ d.cred = NoClient
  <1>1. PICK cmd \in Commands, ignore \in BOOLEAN, force \in BOOLEAN,
             want \in SUBSET ResourceServers, cur \in ResourceServers :
          /\ WellFormed(cmd, ignore, force, want, cur)
          /\ Becomes(p, Started(cmd, ignore, force, want, cur))
    BY DEF Start
  <1>2. cli'[p] = Started(cmd, ignore, force, want, cur) /\ cli[p].pc = "idle"
    BY <1>1, BecomesIs DEF Start, At
  <1> QED BY <1>1, <1>2
          DEF Started, Ended, WellFormed, LoginsToCheck, LogoutCommands

OpenSteps == {"open", "revoke_old", "delete_old", "create_db"}

LEMMA OpenMoves ==
  ASSUME CliOK, NEW p \in Procs,
         OpenStorage(p) \/ RevokeOldTokens(p) \/ DeleteOldClient(p) \/ CreateStorage(p)
  PROVE  LET c == cli[p]
             d == cli'[p]
         IN  /\ c.pc \in OpenSteps /\ Moves(c, d)
             /\ \/ d.pc \in OpenSteps
                \/ d.pc = "has_login" /\ c.todo # {}
                \/ d.pc = "authorize" /\ c.cmd \in {"login", "consent"}
                \/ d.pc = "load_tokens" /\ c.cmd \notin {"login", "consent"}
  <1>1. PICK s \in {"revoke_old", "delete_old", "create_db", AfterOpen(p)} : Goto(p, s)
    BY DEF OpenStorage, RevokeOldTokens, DeleteOldClient, CreateStorage
  <1>2. cli[p].pc \in OpenSteps
    BY DEF OpenStorage, RevokeOldTokens, DeleteOldClient, CreateStorage, At, OpenSteps
  <1>3. \/ AfterOpen(p) = "has_login" /\ cli[p].todo # {}
        \/ AfterOpen(p) = "authorize" /\ cli[p].cmd \in {"login", "consent"}
        \/ AfterOpen(p) = "load_tokens" /\ cli[p].cmd \notin {"login", "consent"}
    BY DEF AfterOpen, Checked
  <1>4. cli'[p].pc = s /\ Moves(cli[p], cli'[p])
    BY <1>1, GotoMoves
  <1> QED BY <1>2, <1>3, <1>4 DEF OpenSteps

LEMMA CheckMoves ==
  ASSUME CliOK, NEW p \in Procs
  PROVE  LET c == cli[p]
             d == cli'[p]
         IN  /\ HasLogin(p) =>
                  /\ c.pc = "has_login"
                  /\ \/ Misses(c, d)
                     \/ /\ d.pc = "contract" /\ Goes(c, d)
                        /\ d.todo = c.todo /\ d.cred = c.cred
             /\ MeetsContract(p) =>
                  /\ c.pc = "contract"
                  /\ Misses(c, d) \/ (d.pc = "validate" /\ Moves(c, d))
             /\ ValidateToken(p) =>
                  /\ c.pc = "validate" /\ c.cred # NoClient
                  /\ \/ Misses(c, d) \/ d = Ended("ok")
                     \/ /\ Goes(c, d) /\ d.todo \subseteq c.todo
                        /\ d.mem = NoTokens /\ d.cred = c.cred
                        /\ \/ d.pc = "has_login"
                           \/ d.pc = "authorize" /\ c.cmd = "consent"
                           \/ d.pc = "load_tokens" /\ c.cmd \notin {"login", "consent"}
  <1>1. cli[p] \in ProcState
    BY DEF CliOK
  <1>2. ASSUME HasLogin(p)
        PROVE  LET c == cli[p]
                   d == cli'[p]
               IN  /\ c.pc = "has_login"
                   /\ \/ Misses(c, d)
                      \/ /\ d.pc = "contract" /\ Goes(c, d)
                         /\ d.todo = c.todo /\ d.cred = c.cred
    <2>1. PICK rs \in cli[p].todo :
            \/ Missing(p)
            \/ Becomes(p, [cli[p] EXCEPT !.pc = "contract", !.cur = rs, !.mem = Only(rs)])
      BY <1>2 DEF HasLogin
    <2>2. \/ Missing(p)
          \/ cli'[p] = [cli[p] EXCEPT !.pc = "contract", !.cur = rs, !.mem = Only(rs)]
      BY <2>1, BecomesIs
    <2> QED BY <1>1, <1>2, <2>2, MissingMoves DEF HasLogin, At, Goes, ProcState
  <1>3. ASSUME MeetsContract(p)
        PROVE  LET c == cli[p]
                   d == cli'[p]
               IN  /\ c.pc = "contract"
                   /\ Misses(c, d) \/ (d.pc = "validate" /\ Moves(c, d))
    BY <1>3, MissingMoves, GotoMoves DEF MeetsContract, At
  <1>4. ASSUME ValidateToken(p)
        PROVE  LET c == cli[p]
                   d == cli'[p]
               IN  /\ c.pc = "validate" /\ c.cred # NoClient
                   /\ \/ Misses(c, d) \/ d = Ended("ok")
                      \/ /\ Goes(c, d) /\ d.todo \subseteq c.todo
                         /\ d.mem = NoTokens /\ d.cred = c.cred
                         /\ \/ d.pc = "has_login"
                            \/ d.pc = "authorize" /\ c.cmd = "consent"
                            \/ d.pc = "load_tokens" /\ c.cmd \notin {"login", "consent"}
    <2> DEFINE rest == cli[p].todo \ {cli[p].cur}
               s == IF rest = {} THEN Checked(p) ELSE "has_login"
    <2>1. \/ Missing(p)
          \/ Exit(p, "ok")
          \/ /\ ~(rest = {} /\ cli[p].cmd = "login")
             /\ Becomes(p, [cli[p] EXCEPT !.todo = rest, !.mem = NoTokens, !.pc = s])
      BY <1>4 DEF ValidateToken
    <2>2. ASSUME ~(rest = {} /\ cli[p].cmd = "login"),
                 Becomes(p, [cli[p] EXCEPT !.todo = rest, !.mem = NoTokens, !.pc = s])
          PROVE  LET c == cli[p]
                     d == cli'[p]
                 IN  /\ Goes(c, d) /\ d.todo \subseteq c.todo
                     /\ d.mem = NoTokens /\ d.cred = c.cred
                     /\ \/ d.pc = "has_login"
                        \/ d.pc = "authorize" /\ c.cmd = "consent"
                        \/ d.pc = "load_tokens" /\ c.cmd \notin {"login", "consent"}
      <3>1. \/ s = "has_login"
            \/ s = "authorize" /\ cli[p].cmd = "consent"
            \/ s = "load_tokens" /\ cli[p].cmd \notin {"login", "consent"}
        BY <2>2 DEF Checked
      <3>2. rest \subseteq cli[p].todo
        OBVIOUS
      <3> HIDE DEF rest, s
      <3>3. cli'[p] = [cli[p] EXCEPT !.todo = rest, !.mem = NoTokens, !.pc = s]
        BY <2>2, BecomesIs
      <3> QED BY <1>1, <3>1, <3>2, <3>3 DEF Goes, ProcState
    <2>3. cli[p].pc = "validate" /\ cli[p].cred # NoClient
      BY <1>4 DEF ValidateToken, At
    <2> HIDE DEF rest, s
    <2> QED BY <2>1, <2>2, <2>3, MissingMoves, ExitEnds
  <1> QED BY <1>2, <1>3, <1>4

LEMMA ClientMoves ==
  ASSUME CliOK, NEW p \in Procs
  PROVE  LET c == cli[p]
             d == cli'[p]
         IN  /\ NeedClient(p) =>
                  /\ c.pc \in {"validate", "call", "authorize"} /\ c.cred = NoClient
                  /\ d.pc = "client" /\ d.ret = c.pc /\ Goes(c, d)
                  /\ d.todo = c.todo /\ d.cur = c.cur /\ d.mem = c.mem /\ d.cred = c.cred
             /\ ReadClient(p) =>
                  /\ c.pc = "client" /\ Goes(c, d)
                  /\ d.todo = c.todo /\ d.cur = c.cur /\ d.mem = c.mem /\ d.ret = c.ret
                  /\ \/ d.pc = "register" /\ auth_client_data = NoClient /\ d.cred = c.cred
                     \/ d.pc = c.ret /\ auth_client_data # NoClient /\ d.cred = auth_client_data
             /\ RegisterClient(p) =>
                  /\ c.pc = "register" /\ d.pc = "save_client" /\ Goes(c, d)
                  /\ d.todo = c.todo /\ d.cur = c.cur /\ d.mem = c.mem /\ d.ret = c.ret
                  /\ d.cred = NewClient
             /\ SaveClient(p) => c.pc = "save_client" /\ d.pc = c.ret /\ Moves(c, d)
  <1>1. cli[p] \in ProcState
    BY DEF CliOK
  <1> DEFINE c == cli[p]
             d == cli'[p]
  <1>2. ASSUME NeedClient(p)
        PROVE  /\ c.pc \in {"validate", "call", "authorize"} /\ c.cred = NoClient
               /\ d.pc = "client" /\ d.ret = c.pc /\ Goes(c, d)
               /\ d.todo = c.todo /\ d.cur = c.cur /\ d.mem = c.mem /\ d.cred = c.cred
    <2>1. d = [c EXCEPT !.pc = "client", !.ret = c.pc]
      BY <1>2, BecomesIs DEF NeedClient
    <2> QED BY <1>1, <1>2, <2>1 DEF NeedClient, Goes, ProcState
  <1>3. ASSUME ReadClient(p)
        PROVE  /\ c.pc = "client" /\ Goes(c, d)
               /\ d.todo = c.todo /\ d.cur = c.cur /\ d.mem = c.mem /\ d.ret = c.ret
               /\ \/ d.pc = "register" /\ auth_client_data = NoClient /\ d.cred = c.cred
                  \/ d.pc = c.ret /\ auth_client_data # NoClient /\ d.cred = auth_client_data
    <2>1. \/ auth_client_data = NoClient /\ d.pc = "register" /\ Moves(c, d)
          \/ /\ auth_client_data # NoClient
             /\ d = [c EXCEPT !.pc = c.ret, !.cred = auth_client_data]
      BY <1>3, BecomesIs, GotoMoves DEF ReadClient
    <2> QED BY <1>1, <1>3, <2>1 DEF ReadClient, At, Moves, Goes, ProcState
  <1>4. ASSUME RegisterClient(p)
        PROVE  /\ c.pc = "register" /\ d.pc = "save_client" /\ Goes(c, d)
               /\ d.todo = c.todo /\ d.cur = c.cur /\ d.mem = c.mem /\ d.ret = c.ret
               /\ d.cred = NewClient
    <2>1. d = [c EXCEPT !.pc = "save_client", !.cred = NewClient]
      BY <1>4, BecomesIs DEF RegisterClient
    <2> QED BY <1>1, <1>4, <2>1 DEF RegisterClient, At, Goes, ProcState
  <1>5. ASSUME SaveClient(p) PROVE c.pc = "save_client" /\ d.pc = c.ret /\ Moves(c, d)
    BY <1>5, GotoMoves DEF SaveClient, At
  <1> QED BY <1>2, <1>3, <1>4, <1>5

\* After the call: d goes on to the login, the end of the session, or is done.
Follows(c, d) ==
    \/ c.cmd = "use" /\ d = Ended("ok")
    \/ c.cmd = "update" /\ d.pc = "authorize" /\ Moves(c, d)
    \/ c.cmd = "delete" /\ d.pc = "delete_client" /\ Moves(c, d)
    \/ c.cmd \notin {"use", "update", "delete"} /\ d.pc = "list_tokens" /\ Moves(c, d)

LEMMA CallMoves ==
  ASSUME CliOK, NEW p \in Procs
  PROVE  LET c == cli[p]
             d == cli'[p]
         IN  /\ LoadTokens(p) =>
                  /\ c.pc = "load_tokens"
                  /\ \/ d = Ended("no_tokens")
                     \/ /\ d.pc = "call" /\ Goes(c, d)
                        /\ d.mem = Only(d.cur) /\ d.cur \in Held(tokens)
                        /\ d.todo = c.todo /\ d.cred = c.cred
             /\ CallService(p) => c.pc = "call" /\ Follows(c, d)
             /\ RefreshToken(p) =>
                  /\ c.pc = "call" /\ c.cred # NoClient
                  /\ d.pc = "store_tokens" /\ d.ret = "call" /\ Goes(c, d)
                  /\ d.todo = c.todo /\ d.cur = c.cur /\ d.mem = c.mem /\ d.cred = c.cred
             /\ CallFails(p) =>
                  /\ c.pc = "call"
                  /\ \/ d = Ended("error")
                     \/ c.cmd \in LogoutCommands /\ Follows(c, d)
  <1>1. cli[p] \in ProcState
    BY DEF CliOK
  <1> DEFINE c == cli[p]
             d == cli'[p]
  <1>2. ASSUME LoadTokens(p)
        PROVE  /\ c.pc = "load_tokens"
               /\ \/ d = Ended("no_tokens")
                  \/ /\ d.pc = "call" /\ Goes(c, d)
                     /\ d.mem = Only(d.cur) /\ d.cur \in Held(tokens)
                     /\ d.todo = c.todo /\ d.cred = c.cred
    <2> DEFINE rs == IF cli[p].cmd = "use" THEN cli[p].cur ELSE AuthRS
    <2>1. rs \in ResourceServers
      BY <1>1, AuthRSAssumption DEF ProcState
    <2>2. \/ Exit(p, "no_tokens")
          \/ /\ tokens[rs] # NoGrant
             /\ Becomes(p, [cli[p] EXCEPT !.pc = "call", !.cur = rs, !.mem = Only(rs)])
      BY <1>2 DEF LoadTokens
    <2>3. cli[p].pc = "load_tokens"
      BY <1>2 DEF LoadTokens, At
    <2> HIDE DEF rs
    <2>4. \/ d = Ended("no_tokens")
          \/ /\ tokens[rs] # NoGrant
             /\ d = [c EXCEPT !.pc = "call", !.cur = rs, !.mem = Only(rs)]
      BY <2>2, BecomesIs, ExitEnds
    <2> QED BY <1>1, <2>1, <2>3, <2>4 DEF Goes, ProcState, Held
  <1>3. ASSUME AfterCall(p) PROVE Follows(c, d)
    BY <1>3, GotoMoves, ExitEnds DEF AfterCall, Follows
  <1>4. ASSUME RefreshToken(p)
        PROVE  /\ c.pc = "call" /\ c.cred # NoClient
               /\ d.pc = "store_tokens" /\ d.ret = "call" /\ Goes(c, d)
               /\ d.todo = c.todo /\ d.cur = c.cur /\ d.mem = c.mem /\ d.cred = c.cred
    <2>1. d = [c EXCEPT !.pc = "store_tokens", !.ret = "call"]
      BY <1>4, BecomesIs DEF RefreshToken
    <2> QED BY <1>1, <1>4, <2>1 DEF RefreshToken, At, Goes, ProcState
  <1>5. ASSUME CallService(p) PROVE c.pc = "call" /\ Follows(c, d)
    BY <1>3, <1>5 DEF CallService, At
  <1>6. ASSUME CallFails(p)
        PROVE  /\ c.pc = "call"
               /\ \/ d = Ended("error")
                  \/ c.cmd \in LogoutCommands /\ Follows(c, d)
    BY <1>3, <1>6, ExitEnds DEF CallFails, At, IsLogout, LogoutCommands
  <1> QED BY <1>2, <1>4, <1>5, <1>6

LEMMA FlowMoves ==
  ASSUME CliOK, NEW p \in Procs
  PROVE  LET c == cli[p]
             d == cli'[p]
         IN  /\ ExchangeCode(p) =>
                  /\ c.pc = "authorize" /\ c.cred \in clients
                  /\ d.pc = "check_user" /\ d.ret = "done" /\ Goes(c, d)
                  /\ d.todo = c.todo /\ d.cred = c.cred
                  /\ \E who \in Identities :
                        /\ d.mem = Response(NewGrant(p, who), c.want)
                        /\ Issue(NewGrant(p, who), c.want)
             /\ CheckUser(p) =>
                  /\ c.pc = "check_user" /\ Moves(c, d)
                  /\ \/ d.pc = "store_user" /\ auth_user_data = NoIdentity
                     \/ d.pc = "store_tokens" /\ auth_user_data = NewSub(p)
                     \/ d.pc = "revoke_access"
             /\ StoreUser(p) => c.pc = "store_user" /\ d.pc = "store_tokens" /\ Moves(c, d)
             /\ StoreTokenData(p) =>
                  c.pc = "store_tokens" /\ d.pc = "read_versions" /\ Moves(c, d)
             /\ ReadVersions(p) =>
                  c.pc = "read_versions" /\ d.pc = "store_versions" /\ Moves(c, d)
             /\ StoreContractVersions(p) =>
                  /\ c.pc = "store_versions"
                  /\ \/ c.ret = "call" /\ d.pc = "call" /\ Moves(c, d)
                     \/ c.ret # "call" /\ d = Ended("ok")
  <1>1. cli[p] \in ProcState
    BY DEF CliOK
  <1> DEFINE c == cli[p]
             d == cli'[p]
  <1>2. ASSUME ExchangeCode(p)
        PROVE  /\ c.pc = "authorize" /\ c.cred \in clients
               /\ d.pc = "check_user" /\ d.ret = "done" /\ Goes(c, d)
               /\ d.todo = c.todo /\ d.cred = c.cred
               /\ \E who \in Identities :
                     /\ d.mem = Response(NewGrant(p, who), c.want)
                     /\ Issue(NewGrant(p, who), c.want)
    <2>1. PICK who \in Identities :
            /\ Issue(NewGrant(p, who), c.want)
            /\ Becomes(p, [c EXCEPT !.pc = "check_user", !.ret = "done",
                             !.mem = Response(NewGrant(p, who), c.want)])
      BY <1>2 DEF ExchangeCode, NewGrant
    <2> DEFINE m == Response(NewGrant(p, who), c.want)
    <2> HIDE DEF m
    <2>2. d = [c EXCEPT !.pc = "check_user", !.ret = "done", !.mem = m]
      BY <2>1, BecomesIs DEF m
    <2>3. c.pc = "authorize" /\ c.cred \in clients
      BY <1>2 DEF ExchangeCode, At
    <2>4. /\ d.pc = "check_user" /\ d.ret = "done" /\ Goes(c, d)
          /\ d.todo = c.todo /\ d.cred = c.cred /\ d.mem = m
      BY <1>1, <2>2 DEF Goes, ProcState
    <2> QED BY <2>1, <2>3, <2>4 DEF m
  <1>3. ASSUME CheckUser(p)
        PROVE  /\ c.pc = "check_user" /\ Moves(c, d)
               /\ \/ d.pc = "store_user" /\ auth_user_data = NoIdentity
                  \/ d.pc = "store_tokens" /\ auth_user_data = NewSub(p)
                  \/ d.pc = "revoke_access"
    BY <1>3, GotoMoves DEF CheckUser, At
  <1>4. ASSUME ReadVersions(p)
        PROVE  c.pc = "read_versions" /\ d.pc = "store_versions" /\ Moves(c, d)
    <2>1. d = [c EXCEPT !.pc = "store_versions", !.seen = scope_contract_versions]
      BY <1>4, BecomesIs DEF ReadVersions
    <2> QED BY <1>1, <1>4, <2>1 DEF ReadVersions, At, Moves, Goes, ProcState
  <1>5. ASSUME StoreContractVersions(p)
        PROVE  /\ c.pc = "store_versions"
               /\ \/ c.ret = "call" /\ d.pc = "call" /\ Moves(c, d)
                  \/ c.ret # "call" /\ d = Ended("ok")
    <2>1. \/ c.ret = "call" /\ d = [c EXCEPT !.pc = "call", !.seen = NoVersions]
          \/ c.ret # "call" /\ d = Ended("ok")
      BY <1>5, BecomesIs, ExitEnds DEF StoreContractVersions
    <2> QED BY <1>1, <1>5, <2>1 DEF StoreContractVersions, At, Moves, Goes, ProcState
  <1>6. ASSUME StoreUser(p) PROVE c.pc = "store_user" /\ d.pc = "store_tokens" /\ Moves(c, d)
    BY <1>6, GotoMoves DEF StoreUser, At
  <1>7. ASSUME StoreTokenData(p)
        PROVE  c.pc = "store_tokens" /\ d.pc = "read_versions" /\ Moves(c, d)
    BY <1>7, GotoMoves DEF StoreTokenData, At
  <1> QED BY <1>2, <1>3, <1>4, <1>5, <1>6, <1>7

LEMMA EndMoves ==
  ASSUME CliOK, NEW p \in Procs
  PROVE  LET c == cli[p]
             d == cli'[p]
         IN  /\ ForgetClient(p) =>
                  c.pc = "delete_client" /\ d.pc = "drop_versions" /\ Moves(c, d)
             /\ DropVersions(p) =>
                  c.pc = "drop_versions" /\ d.pc = "api_delete" /\ Moves(c, d)
             /\ DeleteClient(p) =>
                  /\ c.pc = "api_delete" /\ d.pc = "list_tokens" /\ Goes(c, d)
                  /\ d.todo = c.todo /\ d.cred = NoClient
             /\ DeleteClientFails(p) =>
                  /\ c.pc = "api_delete"
                  /\ \/ d.pc = "list_tokens" /\ Moves(c, d)
                     \/ d = Ended("error")
             /\ ListTokens(p) =>
                  /\ c.pc = "list_tokens" /\ d.pc = "revoke_access" /\ Goes(c, d)
                  /\ d.todo = c.todo /\ d.mem = tokens /\ d.cred = c.cred
             /\ RevokeAccess(p) =>
                  /\ c.pc = "revoke_access" /\ d.pc = "revoke_refresh" /\ Goes(c, d)
                  /\ d.todo = c.todo /\ d.mem = c.mem /\ d.cred = c.cred
                  /\ d.cur \in Held(c.mem)
                  /\ \/ Revoke(c.mem[d.cur], d.cur, "access_token")
                     \/ c.ignore /\ UNCHANGED authVars
             /\ RevokeRefresh(p) =>
                  /\ c.pc = "revoke_refresh" /\ Goes(c, d)
                  /\ d.todo = c.todo /\ d.cred = c.cred
                  /\ \/ Revoke(c.mem[c.cur], c.cur, "refresh_token")
                     \/ c.ignore /\ UNCHANGED authVars
                  /\ \/ c.cmd \in LogoutCommands /\ d.pc = "forget" /\ Moves(c, d)
                     \/ /\ c.cmd \notin LogoutCommands /\ d.pc = "revoke_access"
                        /\ d.mem = Without(c.mem, c.cur)
             /\ ForgetTokens(p) =>
                  /\ c.pc = "forget" /\ d.pc = "revoke_access" /\ Goes(c, d)
                  /\ d.todo = c.todo /\ d.mem = Without(c.mem, c.cur) /\ d.cred = c.cred
             /\ EndRevoking(p) =>
                  /\ c.pc = "revoke_access" /\ Held(c.mem) = {}
                  /\ \/ c.cmd \in LogoutCommands /\ d.pc = "remove_user" /\ Moves(c, d)
                     \/ c.cmd \notin LogoutCommands /\ d = Ended("mismatch")
             /\ RemoveUser(p) => c.pc = "remove_user" /\ d = Ended("ok")
             /\ AbandonFlow(p) \/ RemoteFailure(p) \/ Crash(p) => d = Ended("error")
  <1>1. cli[p] \in ProcState
    BY DEF CliOK
  <1> DEFINE c == cli[p]
             d == cli'[p]
  <1>2. ASSUME DeleteClient(p)
        PROVE  /\ c.pc = "api_delete" /\ d.pc = "list_tokens" /\ Goes(c, d)
               /\ d.todo = c.todo /\ d.cred = NoClient
    <2>1. d = [c EXCEPT !.pc = "list_tokens", !.cred = NoClient]
      BY <1>2, BecomesIs DEF DeleteClient
    <2> QED BY <1>1, <1>2, <2>1 DEF DeleteClient, At, Goes, ProcState
  <1>3. ASSUME ListTokens(p)
        PROVE  /\ c.pc = "list_tokens" /\ d.pc = "revoke_access" /\ Goes(c, d)
               /\ d.todo = c.todo /\ d.mem = tokens /\ d.cred = c.cred
    <2>1. d = [c EXCEPT !.pc = "revoke_access", !.mem = tokens]
      BY <1>3, BecomesIs DEF ListTokens
    <2> QED BY <1>1, <1>3, <2>1 DEF ListTokens, At, Goes, ProcState
  <1>4. ASSUME RevokeAccess(p)
        PROVE  /\ c.pc = "revoke_access" /\ d.pc = "revoke_refresh" /\ Goes(c, d)
               /\ d.todo = c.todo /\ d.mem = c.mem /\ d.cred = c.cred
               /\ d.cur \in Held(c.mem)
               /\ \/ Revoke(c.mem[d.cur], d.cur, "access_token")
                  \/ c.ignore /\ UNCHANGED authVars
    <2>1. PICK rs \in Held(c.mem) :
            /\ Becomes(p, [c EXCEPT !.pc = "revoke_refresh", !.cur = rs])
            /\ \/ Revoke(c.mem[rs], rs, "access_token")
               \/ c.ignore /\ UNCHANGED authVars
      BY <1>4 DEF RevokeAccess
    <2>2. d = [c EXCEPT !.pc = "revoke_refresh", !.cur = rs]
      BY <2>1, BecomesIs
    <2>3. c.pc = "revoke_access"
      BY <1>4 DEF RevokeAccess, At
    <2>4. /\ d.pc = "revoke_refresh" /\ Goes(c, d) /\ d.cur = rs
          /\ d.todo = c.todo /\ d.mem = c.mem /\ d.cred = c.cred
      BY <1>1, <2>2 DEF Goes, ProcState, Held
    <2> QED BY <2>1, <2>3, <2>4
  <1>5. ASSUME RevokeRefresh(p)
        PROVE  /\ c.pc = "revoke_refresh" /\ Goes(c, d)
               /\ d.todo = c.todo /\ d.cred = c.cred
               /\ \/ Revoke(c.mem[c.cur], c.cur, "refresh_token")
                  \/ c.ignore /\ UNCHANGED authVars
               /\ \/ c.cmd \in LogoutCommands /\ d.pc = "forget" /\ Moves(c, d)
                  \/ /\ c.cmd \notin LogoutCommands /\ d.pc = "revoke_access"
                     /\ d.mem = Without(c.mem, c.cur)
    <2>1. /\ c.pc = "revoke_refresh"
          /\ \/ Revoke(c.mem[c.cur], c.cur, "refresh_token")
             \/ c.ignore /\ UNCHANGED authVars
      BY <1>5 DEF RevokeRefresh, At
    <2> DEFINE m == Without(c.mem, c.cur)
    <2>2. \/ c.cmd \in LogoutCommands /\ Goto(p, "forget")
          \/ /\ c.cmd \notin LogoutCommands
             /\ Becomes(p, [c EXCEPT !.pc = "revoke_access", !.mem = m])
      BY <1>5 DEF RevokeRefresh, IsLogout, LogoutCommands
    <2> HIDE DEF m
    <2>3. \/ c.cmd \in LogoutCommands /\ d.pc = "forget" /\ Moves(c, d)
          \/ /\ c.cmd \notin LogoutCommands
             /\ d = [c EXCEPT !.pc = "revoke_access", !.mem = m]
      BY <2>2, GotoMoves, BecomesIs
    <2>4. /\ Goes(c, d) /\ d.todo = c.todo /\ d.cred = c.cred
          /\ \/ c.cmd \in LogoutCommands /\ d.pc = "forget" /\ Moves(c, d)
             \/ c.cmd \notin LogoutCommands /\ d.pc = "revoke_access" /\ d.mem = m
      BY <1>1, <2>3 DEF Goes, Moves, ProcState
    <2> QED BY <2>1, <2>4 DEF m
  <1>6. ASSUME ForgetTokens(p)
        PROVE  /\ c.pc = "forget" /\ d.pc = "revoke_access" /\ Goes(c, d)
               /\ d.todo = c.todo /\ d.mem = Without(c.mem, c.cur) /\ d.cred = c.cred
    <2> DEFINE m == Without(c.mem, c.cur)
    <2>1. d = [c EXCEPT !.pc = "revoke_access", !.mem = m]
      BY <1>6, BecomesIs DEF ForgetTokens
    <2> HIDE DEF m
    <2>2. /\ c.pc = "forget" /\ d.pc = "revoke_access" /\ Goes(c, d)
          /\ d.todo = c.todo /\ d.mem = m /\ d.cred = c.cred
      BY <1>1, <1>6, <2>1 DEF ForgetTokens, At, Goes, ProcState
    <2> QED BY <2>2 DEF m
  <1>7. ASSUME EndRevoking(p)
        PROVE  /\ c.pc = "revoke_access" /\ Held(c.mem) = {}
               /\ \/ c.cmd \in LogoutCommands /\ d.pc = "remove_user" /\ Moves(c, d)
                  \/ c.cmd \notin LogoutCommands /\ d = Ended("mismatch")
    BY <1>7, GotoMoves, ExitEnds DEF EndRevoking, At, IsLogout, LogoutCommands
  <1>8. ASSUME DeleteClientFails(p)
        PROVE  /\ c.pc = "api_delete"
               /\ \/ d.pc = "list_tokens" /\ Moves(c, d)
                  \/ d = Ended("error")
    BY <1>8, GotoMoves, ExitEnds DEF DeleteClientFails, At
  <1>9. ASSUME ForgetClient(p)
        PROVE  c.pc = "delete_client" /\ d.pc = "drop_versions" /\ Moves(c, d)
    BY <1>9, GotoMoves DEF ForgetClient, At
  <1>10. ASSUME DropVersions(p)
         PROVE  c.pc = "drop_versions" /\ d.pc = "api_delete" /\ Moves(c, d)
    BY <1>10, GotoMoves DEF DropVersions, At
  <1>11. ASSUME RemoveUser(p) PROVE c.pc = "remove_user" /\ d = Ended("ok")
    BY <1>11, ExitEnds DEF RemoveUser, At
  <1>12. ASSUME AbandonFlow(p) \/ RemoteFailure(p) \/ Crash(p) PROVE d = Ended("error")
    BY <1>12, ExitEnds DEF AbandonFlow, RemoteFailure, Crash
  <1> QED BY <1>2, <1>3, <1>4, <1>5, <1>6, <1>7, <1>8, <1>9, <1>10, <1>11, <1>12
-------------------------------------------------------------------------------
(***************************************************************************)
(* PhaseInv.                                                               *)
(***************************************************************************)
LEMMA EndedPhase == ASSUME NEW o PROVE PhaseOK(Ended(o))
  BY DEF PhaseOK, Ended, Toward, Calling, Storing, StoreSteps, ClientSteps, CheckSteps,
         IdentitySteps, EndSteps, DeleteSteps

LEMMA PhaseStep ==
  ASSUME PhaseInv, NEW p \in Procs, Acts(p)
  PROVE  PhaseOK(cli'[p])
  <1> DEFINE c == cli[p]
             d == cli'[p]
  <1>0. CliOK /\ c \in ProcState /\ ControlOK(c) /\ PhaseOK(c)
    BY DEF PhaseInv, TypeInv, CliOK
  <1>c. /\ c.cmd \in {"none", "login", "consent", "update", "use", "logout", "delete"}
        /\ c.ret \in {"validate", "call", "authorize", "done"}
    BY <1>0, CommandsAssumption DEF ProcState
  <1> USE DEF PhaseOK, Toward, Calling, Storing, StoreSteps, ClientSteps, CheckSteps,
              IdentitySteps, EndSteps, DeleteSteps, FlowCommands, LogoutCommands
  <1>1. CASE Start(p)
    BY <1>0, <1>1, StartMoves, CommandsAssumption
  <1>2. CASE OpenStorage(p) \/ RevokeOldTokens(p) \/ DeleteOldClient(p) \/ CreateStorage(p)
    BY <1>0, <1>c, <1>2, OpenMoves DEF Moves, Goes, OpenSteps
  <1>3. CASE HasLogin(p) \/ MeetsContract(p) \/ ValidateToken(p)
    BY <1>0, <1>c, <1>3, CheckMoves, EndedPhase DEF Misses, Moves, Goes
  <1>4. CASE NeedClient(p) \/ ReadClient(p) \/ RegisterClient(p) \/ SaveClient(p)
    BY <1>0, <1>c, <1>4, ClientMoves DEF Moves, Goes, ControlOK
  <1>5. CASE LoadTokens(p) \/ CallService(p) \/ RefreshToken(p) \/ CallFails(p)
    BY <1>0, <1>c, <1>5, CallMoves, EndedPhase DEF Follows, Moves, Goes
  <1>6. CASE \/ ExchangeCode(p) \/ CheckUser(p) \/ StoreUser(p)
             \/ StoreTokenData(p) \/ ReadVersions(p) \/ StoreContractVersions(p)
    BY <1>0, <1>c, <1>6, FlowMoves, EndedPhase DEF Moves, Goes, ControlOK
  <1>7. CASE \/ ForgetClient(p) \/ DropVersions(p) \/ DeleteClient(p)
             \/ DeleteClientFails(p) \/ ListTokens(p)
    BY <1>0, <1>c, <1>7, EndMoves, EndedPhase DEF Moves, Goes
  <1>8. CASE \/ RevokeAccess(p) \/ RevokeRefresh(p) \/ ForgetTokens(p)
             \/ EndRevoking(p) \/ RemoveUser(p)
             \/ AbandonFlow(p) \/ RemoteFailure(p) \/ Crash(p)
    BY <1>0, <1>c, <1>8, EndMoves, EndedPhase DEF Moves, Goes
  <1> QED BY <1>1, <1>2, <1>3, <1>4, <1>5, <1>6, <1>7, <1>8 DEF Acts, Step

LEMMA PhaseInit == Init => PhaseInv
  BY TypeInit, EndedPhase DEF Init, PhaseInv

LEMMA PhaseNext == PhaseInv /\ [Next]_vars => PhaseInv'
  <1> SUFFICES ASSUME PhaseInv, [Next]_vars PROVE PhaseInv'
    OBVIOUS
  <1>1. TypeInv'
    BY TypeNext DEF PhaseInv
  <1>2. ASSUME NEW p \in Procs, Acts(p), NEW q \in Procs PROVE PhaseOK(cli'[q])
    BY <1>2, PhaseStep, OnlyOwn DEF PhaseInv, TypeInv
  <1>3. CASE UNCHANGED vars
    BY <1>1, <1>3 DEF PhaseInv, vars
  <1> QED BY <1>1, <1>2, <1>3 DEF Next, Acts, PhaseInv
-------------------------------------------------------------------------------
(***************************************************************************)
(* IdentityInv.                                                            *)
(***************************************************************************)
\* The steps that change whose session it is, or what it holds.
LEMMA SessionEffect ==
  ASSUME NEW p \in Procs, Acts(p)
  PROVE  \/ UNCHANGED <<tokens, auth_user_data>>
         \/ StoreUser(p) \/ RemoveUser(p) \/ StoreTokenData(p) \/ ForgetTokens(p)
  BY DEF Acts, Step, Start, RemoteFailure, Crash, OpenStorage, RevokeOldTokens,
         DeleteOldClient, CreateStorage, HasLogin, MeetsContract, ValidateToken, NeedClient,
         ReadClient, RegisterClient, SaveClient, LoadTokens, CallService, RefreshToken,
         CallFails, ExchangeCode, AbandonFlow, CheckUser, ReadVersions,
         StoreContractVersions, StoreVersions, DropVersions,
         ForgetClient, DeleteClient, DeleteClientFails, ListTokens, RevokeAccess,
         RevokeRefresh, EndRevoking, storageVars, InvalidateOld, CreateDb,
         StoreClientData

\* The tokens a step stores are the ones it holds; the tokens it forgets it
\* forgets in memory too.
LEMMA HeldFacts ==
  /\ \A m \in TokenData, rs \in ResourceServers :
        Held(Without(m, rs)) = Held(m) \ {rs} /\ \A r \in Held(m) \ {rs} : Without(m, rs)[r] = m[r]
  /\ \A rs \in ResourceServers : tokens \in TokenData =>
        Held(Only(rs)) \subseteq {rs} /\ Only(rs)[rs] = tokens[rs]
  /\ Held(NoTokens) = {}
  /\ \A m \in TokenData : Held(m) = {} => m = NoTokens
  BY DEF Held, Without, Only, NoTokens, TokenData

\* A grant has an identity, so nobody's session holds nothing.
LEMMA NobodyHoldsNothing ==
  ASSUME TypeInv, SessionIdentity, auth_user_data = NoIdentity
  PROVE  Held(tokens) = {}
  BY NoIdentityAssumption
  DEF TypeInv, StorageTypeOK, TokenData, Grant, Held, SessionIdentity

LEMMA SessionStep ==
  ASSUME IdentityInv, NEW p \in Procs, Acts(p)
  PROVE  SessionIdentity'
  <1>0. /\ TypeInv /\ SessionIdentity /\ PhaseOK(cli[p]) /\ IdentityOK(cli[p])
        /\ tokens \in TokenData /\ cli[p] \in ProcState
    BY DEF IdentityInv, PhaseInv, TypeInv, StorageTypeOK, CliOK
  <1>1. CASE UNCHANGED <<tokens, auth_user_data>>
    BY <1>0, <1>1 DEF SessionIdentity, Held
  <1>2. CASE StoreUser(p)
    <2>1. auth_user_data = NoIdentity /\ tokens' = tokens
      BY <1>0, <1>2 DEF StoreUser, StoreUserData, At, IdentityOK
    <2> QED BY <1>0, <2>1, NobodyHoldsNothing DEF SessionIdentity, Held
  <1>3. CASE RemoveUser(p)
    BY <1>0, <1>3 DEF RemoveUser, StoreUserData, At, IdentityOK, SessionIdentity, Held
  <1>4. CASE StoreTokenData(p)
    <2>1. Belongs(cli[p].mem, auth_user_data)
      BY <1>0, <1>4 DEF StoreTokenData, At, IdentityOK, StoreSteps
    <2> QED BY <1>0, <1>4, <2>1
            DEF StoreTokenData, StoreTokens, Belongs, SessionIdentity, Held
  <1>5. CASE ForgetTokens(p)
    <2>1. tokens' = Without(tokens, cli[p].cur) /\ auth_user_data' = auth_user_data
      BY <1>5 DEF ForgetTokens, RemoveTokens
    <2>2. cli[p].cur \in ResourceServers
      BY <1>0 DEF ProcState
    <2> QED BY <1>0, <2>1, <2>2 DEF SessionIdentity, Held, Without, TokenData
  <1> QED BY <1>1, <1>2, <1>3, <1>4, <1>5, SessionEffect

LEMMA EndedIdentity ==
  /\ \A o : IdentityOK(Ended(o))
  /\ \A o : \A p \in Procs : cli'[p] = Ended(o) => IdentityOK(cli[p])'
  BY DEF IdentityOK, Ended, IdentitySteps, Calling, Toward, ClientSteps, StoreSteps, Ending,
         LogoutCommands

\* The steps about which IdentityOK says nothing.
Uninvolved(c) ==
    /\ c.pc \notin IdentitySteps \cup StoreSteps \cup {"remove_user"}
    /\ ~Calling(c) /\ ~Ending(c)

LEMMA UninvolvedIdentity == \A p \in Procs : Uninvolved(cli'[p]) => IdentityOK(cli[p])'
  BY DEF Uninvolved, IdentityOK, IdentitySteps

LEMMA IdentityStep ==
  ASSUME IdentityInv, NEW p \in Procs, Acts(p)
  PROVE  IdentityOK(cli[p])'
  <1> DEFINE c == cli[p]
             d == cli'[p]
  <1>0. /\ CliOK /\ TypeInv /\ c \in ProcState /\ ControlOK(c) /\ PhaseOK(c) /\ IdentityOK(c)
        /\ SessionIdentity /\ tokens \in TokenData
        /\ c.mem \in TokenData /\ c.cur \in ResourceServers
    BY DEF IdentityInv, PhaseInv, TypeInv, StorageTypeOK, CliOK, ProcState
  <1>i. ASSUME Uninvolved(d) PROVE IdentityOK(c)'
    BY <1>i, UninvolvedIdentity
  <1>1. CASE Start(p)
    <2>1. Uninvolved(d)
      BY <1>0, <1>1, StartMoves
      DEF Uninvolved, IdentitySteps, Calling, Toward, ClientSteps, StoreSteps, Ending,
          RevokeSteps
    <2> QED BY <1>i, <2>1
  <1>2. CASE OpenStorage(p) \/ RevokeOldTokens(p) \/ DeleteOldClient(p) \/ CreateStorage(p)
    <2>1. Uninvolved(d)
      BY <1>0, <1>2, OpenMoves
      DEF OpenSteps, Uninvolved, IdentitySteps, Calling, Toward, ClientSteps, StoreSteps,
          Ending, RevokeSteps
    <2> QED BY <1>i, <2>1
  <1>3. CASE HasLogin(p) \/ MeetsContract(p) \/ ValidateToken(p)
    <2>1. Uninvolved(d) \/ \E o : d = Ended(o)
      BY <1>0, <1>3, CheckMoves
      DEF Misses, Uninvolved, IdentitySteps, Calling, Toward, ClientSteps, StoreSteps,
          Ending, RevokeSteps
    <2> QED BY <1>i, <2>1, EndedIdentity
  <1>4. CASE NeedClient(p) \/ ReadClient(p) \/ RegisterClient(p) \/ SaveClient(p)
    <2>1. auth_user_data' = auth_user_data
      BY <1>4 DEF NeedClient, ReadClient, RegisterClient, SaveClient, StoreClientData,
                  storageVars
    <2>2. /\ d.mem = c.mem
          /\ Calling(d) => Calling(c)
          /\ d.pc \in ClientSteps \cup {"validate", "call", "authorize"}
      BY <1>0, <1>4, ClientMoves
      DEF Moves, Calling, Toward, ControlOK, ClientSteps, StoreSteps, ProcState
    <2> QED BY <1>0, <2>1, <2>2
            DEF IdentityOK, IdentitySteps, StoreSteps, ClientSteps, Ending, RevokeSteps
  <1>5. CASE LoadTokens(p) \/ CallService(p) \/ RefreshToken(p) \/ CallFails(p)
    <2>1. auth_user_data' = auth_user_data
      BY <1>5 DEF LoadTokens, CallService, RefreshToken, CallFails, storageVars
    <2>2. CASE LoadTokens(p) /\ d.pc = "call"
      <3>1. Belongs(d.mem, auth_user_data)
        BY <1>0, <2>2, CallMoves, HeldFacts DEF SessionIdentity, Belongs, Ended, Held
      <3> QED BY <2>1, <2>2, <3>1
              DEF IdentityOK, IdentitySteps, StoreSteps, Ending, RevokeSteps
    <2>3. CASE RefreshToken(p)
      BY <1>0, <2>1, <2>3, CallMoves
      DEF IdentityOK, IdentitySteps, Calling, Toward, Ending, RevokeSteps
    <2>4. CASE ~RefreshToken(p) /\ d.pc # "call"
      <3>1. Uninvolved(d) \/ \E o : d = Ended(o)
        BY <1>0, <1>5, <2>4, CallMoves
        DEF Follows, Moves, Uninvolved, IdentitySteps, Calling, Toward, ClientSteps,
            StoreSteps, Ending, RevokeSteps
      <3> QED BY <1>i, <3>1, EndedIdentity
    <2>5. ~RefreshToken(p) /\ d.pc = "call" => LoadTokens(p)
      BY <1>0, <1>5, CallMoves DEF Follows, Ended
    <2> QED BY <2>2, <2>3, <2>4, <2>5
  <1>6. CASE ExchangeCode(p)
    <2>1. AuthRS \in c.want /\ c.want \subseteq ResourceServers
      BY <1>0, <1>6, FlowMoves DEF ControlOK, Toward, ProcState
    <2>2. PICK who \in Identities : d.mem = Response(NewGrant(p, who), c.want)
      BY <1>0, <1>6, FlowMoves
    <2>3. NewGrant(p, who).sub = who
      BY DEF NewGrant
    <2>4. \A rs \in Held(d.mem) : d.mem[rs].sub = who
      BY <2>2, <2>3 DEF Response, Held
    <2>5. d.mem[AuthRS].sub = who
      BY <2>1, <2>2, <2>3, AuthRSAssumption DEF Response
    <2>6. d.pc = "check_user"
      BY <1>0, <1>6, FlowMoves
    <2> QED BY <2>4, <2>5, <2>6
            DEF IdentityOK, Belongs, Calling, Toward, ClientSteps, StoreSteps, Ending,
                RevokeSteps
  <1>7. CASE CheckUser(p)
    <2>1. auth_user_data' = auth_user_data /\ c.cmd \in FlowCommands
      BY <1>0, <1>7 DEF CheckUser, storageVars, PhaseOK, Storing, IdentitySteps, At
    <2> QED BY <1>0, <1>7, <2>1, FlowMoves
            DEF IdentityOK, Moves, Goes, NewSub, IdentitySteps, Calling, Toward, ClientSteps,
                StoreSteps, Ending, RevokeSteps, FlowCommands, LogoutCommands
  <1>8. CASE StoreUser(p)
    <2>1. auth_user_data' = c.mem[AuthRS].sub
      BY <1>8 DEF StoreUser, StoreUserData, NewSub
    <2> QED BY <1>0, <1>8, <2>1, FlowMoves
            DEF IdentityOK, Moves, Goes, IdentitySteps, Ending, RevokeSteps
  <1>9. CASE StoreTokenData(p) \/ ReadVersions(p) \/ StoreContractVersions(p)
    <2>1. auth_user_data' = auth_user_data
      BY <1>9 DEF StoreTokenData, StoreTokens, ReadVersions, storageVars,
                  StoreContractVersions, StoreVersions
    <2> QED BY <1>0, <1>9, <2>1, FlowMoves, EndedIdentity
            DEF IdentityOK, Moves, Goes, IdentitySteps, Calling, Toward, ClientSteps,
                StoreSteps, Ending, RevokeSteps
  <1>10. CASE \/ ForgetClient(p) \/ DropVersions(p) \/ DeleteClient(p)
              \/ DeleteClientFails(p) \/ AbandonFlow(p) \/ RemoteFailure(p) \/ Crash(p)
              \/ RemoveUser(p)
    <2>1. Uninvolved(d) \/ \E o : d = Ended(o)
      BY <1>0, <1>10, EndMoves
      DEF Moves, Uninvolved, IdentitySteps, Calling, Toward, ClientSteps,
          StoreSteps, Ending, RevokeSteps
    <2> QED BY <1>i, <2>1, EndedIdentity
  <1>11. CASE ListTokens(p)
    <2>1. tokens' = tokens
      BY <1>11 DEF ListTokens, storageVars
    <2> QED BY <1>0, <1>11, <2>1, EndMoves
            DEF IdentityOK, IdentitySteps, Calling, Toward, ClientSteps, StoreSteps, Held
  <1>12. CASE RevokeAccess(p) \/ RevokeRefresh(p) \/ EndRevoking(p)
    <2>1. tokens' = tokens
      BY <1>12 DEF RevokeAccess, RevokeRefresh, EndRevoking, storageVars
    <2>2. \/ Uninvolved(d) \/ \E o : d = Ended(o)
          \/ Ending(c) /\ d.mem = c.mem
      BY <1>0, <1>12, EndMoves
      DEF Moves, Goes, Uninvolved, IdentitySteps, Calling, Toward, ClientSteps,
          StoreSteps, Ending, RevokeSteps, Ended
    <2>3. CASE Ending(c) /\ d.mem = c.mem
      BY <1>0, <1>12, <2>1, <2>3, EndMoves, EndedIdentity
      DEF IdentityOK, IdentitySteps, Calling, Toward, ClientSteps, StoreSteps, Held
    <2> QED BY <1>i, <2>2, <2>3, EndedIdentity
  <1>13. CASE ForgetTokens(p)
    <2>1. tokens' = Without(tokens, c.cur)
      BY <1>13 DEF ForgetTokens, RemoveTokens
    <2>2. c.cmd \in LogoutCommands /\ d.pc = "revoke_access" /\ d.mem = Without(c.mem, c.cur)
      BY <1>0, <1>13, EndMoves DEF PhaseOK, EndSteps
    <2>3. Held(tokens) \subseteq Held(c.mem)
      BY <1>0, <1>13, <2>2, EndMoves DEF IdentityOK, Ending
    <2>4. Held(tokens)' \subseteq Held(d.mem)
      BY <1>0, <2>1, <2>2, <2>3 DEF Held, Without, TokenData
    <2> QED BY <2>2, <2>4
            DEF IdentityOK, IdentitySteps, Calling, Toward, ClientSteps, StoreSteps, Held
  <1> QED BY <1>1, <1>2, <1>3, <1>4, <1>5, <1>6, <1>7, <1>8, <1>9, <1>10, <1>11, <1>12, <1>13
          DEF Acts, Step

\* Where nobody is alone, the identity of the session never changes.
LEMMA SharedKeeps ==
  ASSUME IdentityInv, Shared, NEW p \in Procs, Acts(p)
  PROVE  auth_user_data' = auth_user_data
  <1>0. /\ cli[p] \in ProcState /\ PhaseOK(cli[p]) /\ IdentityOK(cli[p])
        /\ auth_user_data # NoIdentity
    BY DEF IdentityInv, PhaseInv, TypeInv, CliOK
  <1>1. cli[p].cmd \notin LogoutCommands
    BY <1>0, CommandsAssumption DEF Shared, ProcState, LogoutCommands
  <1>2. ~StoreUser(p)
    BY <1>0 DEF StoreUser, At, IdentityOK
  <1>3. ~RemoveUser(p)
    BY <1>0, <1>1 DEF RemoveUser, At, PhaseOK, EndSteps
  <1> QED BY <1>2, <1>3, SessionEffect
          DEF StoreTokenData, StoreTokens, ForgetTokens, RemoveTokens

LEMMA IdentityInit == Init => IdentityInv
  <1> SUFFICES ASSUME Init PROVE IdentityInv
    OBVIOUS
  <1>1. PhaseInv
    BY PhaseInit
  <1>2. \A p \in Procs : IdentityOK(cli[p])
    BY EndedIdentity DEF Init
  <1>3. CASE InitFresh /\ "none" \in Sessions
    BY <1>1, <1>2, <1>3, HeldFacts DEF InitFresh, IdentityInv, SessionIdentity, Shared
  <1>4. ASSUME NEW s \in Sessions, InitSession(s) PROVE IdentityInv
    <2>1. PICK who \in Identities :
            /\ auth_user_data = who
            /\ tokens = [rs \in ResourceServers |-> InitialGrant(who, s)]
      BY <1>4 DEF InitSession
    <2>2. SessionIdentity
      BY <2>1 DEF SessionIdentity, InitialGrant, Held
    <2> QED BY <1>1, <1>2, <2>1, <2>2, NoIdentityAssumption DEF IdentityInv
  <1> QED BY <1>3, <1>4 DEF Init

LEMMA IdentityNext ==
  ASSUME Alone \/ Shared
  PROVE  IdentityInv /\ [Next]_vars => IdentityInv'
  <1> SUFFICES ASSUME IdentityInv, [Next]_vars PROVE IdentityInv'
    OBVIOUS
  <1>1. PhaseInv'
    BY PhaseNext DEF IdentityInv
  <1>2. ASSUME NEW p \in Procs, Acts(p) PROVE IdentityInv'
    <2>1. SessionIdentity' /\ IdentityOK(cli[p])'
      BY <1>2, SessionStep, IdentityStep
    <2>2. Shared => auth_user_data' # NoIdentity
      BY <1>2, SharedKeeps DEF IdentityInv
    <2>3. ASSUME NEW q \in Procs, q # p PROVE IdentityOK(cli[q])'
      <3>1. Shared
        BY <2>3 DEF Alone
      <3>2. /\ cli'[q] = cli[q] /\ auth_user_data' = auth_user_data
            /\ IdentityOK(cli[q]) /\ PhaseOK(cli[q]) /\ cli[q] \in ProcState
        BY <1>2, <2>3, <3>1, OnlyOwn, SharedKeeps DEF IdentityInv, PhaseInv, TypeInv, CliOK
      <3>3. cli[q].cmd \notin LogoutCommands
        BY <3>1, <3>2, CommandsAssumption DEF Shared, ProcState, LogoutCommands
      <3>4. cli[q].pc # "remove_user"
        BY <3>2, <3>3 DEF PhaseOK, EndSteps
      <3> QED BY <3>2, <3>3, <3>4 DEF IdentityOK, Ending
    <2> QED BY <1>1, <2>1, <2>2, <2>3 DEF IdentityInv
  <1>3. CASE UNCHANGED vars
    BY <1>1, <1>3 DEF IdentityInv, vars, storageVars, SessionIdentity, IdentityOK, Held
  <1> QED BY <1>2, <1>3 DEF Next, Acts

\* With one command at a time, or any number of them in a session that none of
\* them ends, the stored tokens always belong to the identity that whoami shows.
THEOREM SessionIdentityTheorem ==
  ASSUME Alone \/ Shared
  PROVE  Spec => []SessionIdentity
  <1>1. IdentityInv => SessionIdentity
    BY DEF IdentityInv
  <1> QED BY <1>1, IdentityInit, IdentityNext, PTL DEF Spec
-------------------------------------------------------------------------------
(***************************************************************************)
(* One command at a time: the session implements AuthSession.              *)
(***************************************************************************)
LEMMA IdentityAlone == ASSUME Alone PROVE Spec => []IdentityInv
  BY IdentityInit, IdentityNext, PTL DEF Spec

LEMMA OwnerType == TypeInv => \A rs \in ResourceServers :
                                 tokens[rs] # NoGrant => tokens[rs].sub \in Identities
  BY DEF TypeInv, StorageTypeOK, TokenData, Grant

LEMMA SessionInitial == Init => Abstract!Init
  <1> SUFFICES ASSUME Init PROVE Abstract!Init
    OBVIOUS
  <1>1. IdentityInv
    BY IdentityInit
  <1>2. auth_user_data \in Identities \cup {NoIdentity}
    BY <1>1 DEF IdentityInv, PhaseInv, TypeInv, StorageTypeOK
  <1>3. Owner \in [ResourceServers -> {NoIdentity, auth_user_data}]
    BY <1>1 DEF IdentityInv, SessionIdentity, Owner, Held
  <1> QED BY <1>2, <1>3 DEF Abstract!Init

\* Every step of a process is a step of the abstract session or leaves it alone.
LEMMA SessionRefined ==
  ASSUME IdentityInv, IdentityInv', NEW p \in Procs, Acts(p)
  PROVE  [Abstract!Next]_<<auth_user_data, Owner>>
  <1>0. /\ CliOK /\ TypeInv /\ PhaseOK(cli[p]) /\ IdentityOK(cli[p]) /\ SessionIdentity
        /\ tokens \in TokenData /\ tokens' \in TokenData
        /\ cli[p] \in ProcState /\ cli[p].cur \in ResourceServers /\ cli[p].mem \in TokenData
        /\ ControlOK(cli[p])
    BY DEF IdentityInv, PhaseInv, TypeInv, StorageTypeOK, CliOK, ProcState
  <1>1. CASE UNCHANGED <<tokens, auth_user_data>>
    BY <1>1 DEF Owner
  <1>2. CASE StoreUser(p)
    <2>1. auth_user_data = NoIdentity /\ tokens' = tokens
      BY <1>0, <1>2 DEF StoreUser, StoreUserData, At, IdentityOK
    <2>2. auth_user_data' = NewSub(p) /\ NewSub(p) \in Identities
      BY <1>0, <1>2 DEF StoreUser, StoreUserData, At, ControlOK, NewSub, Grant
    <2>3. Abstract!Claim(NewSub(p))
      BY <2>1, <2>2 DEF Abstract!Claim, Owner
    <2> QED BY <2>2, <2>3 DEF Abstract!Next
  <1>3. CASE RemoveUser(p)
    <2>1. Held(tokens) = {} /\ auth_user_data' = NoIdentity /\ tokens' = tokens
      BY <1>0, <1>3 DEF RemoveUser, StoreUserData, At, IdentityOK
    <2>2. Owner = [rs \in ResourceServers |-> NoIdentity]
      BY <2>1 DEF Owner, Held
    <2>3. Abstract!Close
      BY <2>1, <2>2 DEF Abstract!Close, Owner
    <2> QED BY <2>3 DEF Abstract!Next
  <1>4. CASE StoreTokenData(p)
    <2> DEFINE m == cli[p].mem
    <2>1. Belongs(m, auth_user_data)
      BY <1>0, <1>4 DEF StoreTokenData, At, IdentityOK, StoreSteps
    <2>2. /\ auth_user_data' = auth_user_data
          /\ \A rs \in ResourceServers :
                tokens'[rs] = IF m[rs] # NoGrant THEN m[rs] ELSE tokens[rs]
      BY <1>4 DEF StoreTokenData, StoreTokens
    <2>3. CASE Held(m) = {}
      <3>1. \A rs \in ResourceServers : tokens'[rs] = tokens[rs]
        BY <2>2, <2>3 DEF Held
      <3>2. Owner' = Owner
        BY <3>1 DEF Owner
      <3> QED BY <2>2, <3>2
    <2>4. CASE Held(m) # {}
      <3>1. auth_user_data # NoIdentity
        BY <1>0, <2>1, <2>4, NoIdentityAssumption DEF Belongs, Held, TokenData, Grant
      <3>2. Owner' = [rs \in ResourceServers |-> IF rs \in Held(m) THEN auth_user_data
                                                                   ELSE Owner[rs]]
        BY <2>1, <2>2 DEF Owner, Held, Belongs
      <3>3. Abstract!Acquire(Held(m))
        BY <2>2, <3>1, <3>2 DEF Abstract!Acquire
      <3>4. Held(m) \in SUBSET ResourceServers
        BY DEF Held
      <3> QED BY <3>3, <3>4 DEF Abstract!Next
    <2> QED BY <2>3, <2>4
  <1>5. CASE ForgetTokens(p)
    <2> DEFINE r == cli[p].cur
    <2>1. tokens' = Without(tokens, r) /\ auth_user_data' = auth_user_data
      BY <1>5 DEF ForgetTokens, RemoveTokens
    <2>2. \A rs \in ResourceServers : tokens'[rs] = IF rs = r THEN NoGrant ELSE tokens[rs]
      BY <1>0, <2>1 DEF Without, TokenData
    <2> HIDE DEF r
    <2>3. Owner' = [Owner EXCEPT ![r] = NoIdentity]
      BY <2>2 DEF Owner
    <2>4. Abstract!Release(r) /\ r \in ResourceServers
      BY <1>0, <2>1, <2>3 DEF Abstract!Release, r
    <2> QED BY <2>4 DEF Abstract!Next
  <1> QED BY <1>1, <1>2, <1>3, <1>4, <1>5, SessionEffect

\* With one command at a time the storage implements AuthSession: the session is
\* one identity's, grows only for that identity, and is empty before it is
\* anybody else's, through every fault and crash.
THEOREM SessionImplements ==
  ASSUME Alone
  PROVE  Spec => RefinesSession
  <1>1. IdentityInv /\ IdentityInv' /\ [Next]_vars => [Abstract!Next]_<<auth_user_data, Owner>>
    <2> SUFFICES ASSUME IdentityInv, IdentityInv', [Next]_vars
                 PROVE  [Abstract!Next]_<<auth_user_data, Owner>>
      OBVIOUS
    <2>1. CASE Next
      BY <2>1, SessionRefined DEF Next, Acts
    <2>2. CASE UNCHANGED vars
      BY <2>2 DEF vars, storageVars, Owner
    <2> QED BY <2>1, <2>2
  <1> QED BY <1>1, SessionInitial, IdentityAlone, PTL DEF Spec, Abstract!Spec, RefinesSession
-------------------------------------------------------------------------------
(***************************************************************************)
(* How a logout ends: RevokedInv.                                          *)
(***************************************************************************)
\* The steps of a logout that works through its tokens.
LEMMA EndingStep ==
  ASSUME IdentityInv, NEW p \in Procs, Acts(p), Ending(cli'[p])
  PROVE  \/ ListTokens(p)
         \/ Ending(cli[p]) /\ (RevokeAccess(p) \/ RevokeRefresh(p) \/ ForgetTokens(p))
  <1> DEFINE c == cli[p]
             d == cli'[p]
  <1>0. CliOK /\ c \in ProcState /\ ControlOK(c) /\ PhaseOK(c)
    BY DEF IdentityInv, PhaseInv, TypeInv, CliOK
  <1>1. ~Ending(Ended("ok")) /\ ~Ending(Ended("error")) /\ ~Ending(Ended("mismatch"))
        /\ ~Ending(Ended("missing_login")) /\ ~Ending(Ended("no_tokens"))
    BY DEF Ending, Ended, LogoutCommands
  <1> USE DEF Ending, RevokeSteps
  <1>2. ~Start(p)
    BY <1>0, StartMoves
  <1>3. ~OpenStorage(p) /\ ~RevokeOldTokens(p) /\ ~DeleteOldClient(p) /\ ~CreateStorage(p)
    BY <1>0, OpenMoves DEF OpenSteps
  <1>4. ~HasLogin(p) /\ ~MeetsContract(p) /\ ~ValidateToken(p)
    BY <1>0, <1>1, CheckMoves DEF Misses
  <1>5. ~NeedClient(p) /\ ~ReadClient(p) /\ ~RegisterClient(p) /\ ~SaveClient(p)
    BY <1>0, ClientMoves DEF ControlOK, ClientSteps, ProcState
  <1>6. ~LoadTokens(p) /\ ~CallService(p) /\ ~RefreshToken(p) /\ ~CallFails(p)
    BY <1>0, <1>1, CallMoves DEF Follows
  <1>7. /\ ~ExchangeCode(p) /\ ~CheckUser(p) /\ ~StoreUser(p)
        /\ ~StoreTokenData(p) /\ ~ReadVersions(p) /\ ~StoreContractVersions(p)
    BY <1>0, <1>1, FlowMoves
    DEF Moves, Goes, PhaseOK, Storing, IdentitySteps, FlowCommands, LogoutCommands
  <1>8. /\ ~ForgetClient(p) /\ ~DropVersions(p) /\ ~DeleteClient(p)
        /\ ~DeleteClientFails(p) /\ ~EndRevoking(p) /\ ~RemoveUser(p)
        /\ ~AbandonFlow(p) /\ ~RemoteFailure(p) /\ ~Crash(p)
    BY <1>0, <1>1, EndMoves
  <1>9. RevokeAccess(p) \/ RevokeRefresh(p) \/ ForgetTokens(p) => Ending(c)
    BY <1>0, EndMoves DEF Moves, Goes
  <1> QED BY <1>2, <1>3, <1>4, <1>5, <1>6, <1>7, <1>8, <1>9 DEF Acts, Step

LEMMA RevokedStep ==
  ASSUME RevokedInv, NEW p \in Procs, Acts(p)
  PROVE  RevokedOK(cli[p])'
  <1> DEFINE c == cli[p]
             d == cli'[p]
  <1>0. /\ CliOK /\ PhaseOK(c) /\ RevokedOK(c) /\ IdentityOK(c) /\ tokens \in TokenData
        /\ c \in ProcState /\ c.mem \in TokenData /\ c.cur \in ResourceServers
    BY DEF RevokedInv, IdentityInv, PhaseInv, TypeInv, StorageTypeOK, CliOK, ProcState
  <1>1. CASE ~Ending(d)
    BY <1>1 DEF RevokedOK
  <1>2. CASE ListTokens(p)
    BY <1>0, <1>2, EndMoves DEF RevokedOK, ListTokens, storageVars
  <1>3. CASE RevokeAccess(p) /\ Ending(c)
    <2>1. tokens' = tokens /\ d.pc = "revoke_refresh" /\ d.mem = c.mem /\ d.ignore = c.ignore
      BY <1>0, <1>3, EndMoves DEF RevokeAccess, storageVars, Goes
    <2>2. ~d.ignore => Dead(c, "access_token")'
      BY <1>0, <1>3, <2>1, EndMoves DEF Revoke, Dead
    <2> QED BY <1>0, <1>3, <2>1, <2>2 DEF RevokedOK, Held
  <1>4. CASE RevokeRefresh(p) /\ Ending(c)
    <2>1. /\ tokens' = tokens /\ d.pc = "forget" /\ d.mem = c.mem /\ d.cur = c.cur
          /\ d.ignore = c.ignore /\ c.pc = "revoke_refresh"
      BY <1>0, <1>4, EndMoves DEF RevokeRefresh, storageVars, Moves, Goes, Ending
    <2>2. ~d.ignore => Dead(c, "access_token") /\ Revoke(c.mem[c.cur], c.cur, "refresh_token")
      BY <1>0, <1>4, <2>1, EndMoves DEF RevokedOK
    <2>3. ~d.ignore => Dead(c, "access_token")' /\ Dead(c, "refresh_token")'
      BY <2>1, <2>2 DEF Revoke, Dead
    <2> QED BY <1>0, <1>4, <2>1, <2>3 DEF RevokedOK, Held
  <1>5. CASE ForgetTokens(p) /\ Ending(c)
    <2>1. /\ tokens' = Without(tokens, c.cur) /\ d.mem = Without(c.mem, c.cur)
          /\ d.pc = "revoke_access"
      BY <1>0, <1>5, EndMoves DEF ForgetTokens, RemoveTokens
    <2>2. \A rs \in Held(c.mem) : c.mem[rs] = tokens[rs]
      BY <1>0, <1>5 DEF RevokedOK
    <2>3. \A rs \in Held(d.mem) : d.mem[rs] = tokens'[rs]
      BY <1>0, <2>1, <2>2 DEF Held, Without, TokenData
    <2> QED BY <2>1, <2>3 DEF RevokedOK
  <1> QED BY <1>1, <1>2, <1>3, <1>4, <1>5, EndingStep DEF RevokedInv

LEMMA RevokedInvariant == ASSUME Alone PROVE Spec => []RevokedInv
  <1>1. Init => RevokedInv
    BY IdentityInit DEF Init, RevokedInv, RevokedOK, Ending, Ended, LogoutCommands
  <1>2. RevokedInv /\ [Next]_vars => RevokedInv'
    <2> SUFFICES ASSUME RevokedInv, [Next]_vars PROVE RevokedInv'
      OBVIOUS
    <2>1. IdentityInv'
      BY IdentityNext DEF RevokedInv
    <2>2. ASSUME NEW p \in Procs, Acts(p) PROVE RevokedInv'
      BY <2>1, <2>2, RevokedStep DEF Alone, RevokedInv
    <2>3. CASE UNCHANGED vars
      BY <2>1, <2>3
      DEF RevokedInv, vars, storageVars, authVars, RevokedOK, Dead, Held
    <2> QED BY <2>2, <2>3 DEF Next, Acts
  <1> QED BY <1>1, <1>2, PTL DEF Spec

\* One command at a time, a logout that reports success has removed every token
\* and the identity.
THEOREM LogoutTheorem ==
  ASSUME Alone
  PROVE  Spec => LogoutComplete
  <1> DEFINE A == \A p \in Procs : IsLogout(p) /\ cli'[p].outcome = "ok"
                                     => tokens' = NoTokens /\ auth_user_data' = NoIdentity
  <1>1. IdentityInv /\ [Next]_vars => A
    <2> SUFFICES ASSUME IdentityInv, [Next]_vars, NEW p \in Procs,
                        IsLogout(p), cli'[p].outcome = "ok"
                 PROVE  tokens' = NoTokens /\ auth_user_data' = NoIdentity
      OBVIOUS
    <2> DEFINE c == cli[p]
               d == cli'[p]
    <2>0. /\ CliOK /\ c \in ProcState /\ ControlOK(c) /\ PhaseOK(c) /\ IdentityOK(c)
          /\ tokens \in TokenData
      BY DEF IdentityInv, PhaseInv, TypeInv, CliOK, StorageTypeOK
    <2>1. c.cmd \in LogoutCommands /\ c.pc # "idle" /\ c.outcome = "none"
      BY <2>0 DEF IsLogout, LogoutCommands, PhaseOK
    <2>2. d # c
      BY <2>1
    <2>3. PICK q \in Procs : Acts(q)
      BY <2>2 DEF Next, Acts, vars
    <2>4. q = p
      BY <2>0, <2>2, <2>3, OnlyOwn
    <2>5. RemoveUser(p)
      <3>1. ~Start(p)
        BY <2>0, <2>1, StartMoves
      <3>2. ~OpenStorage(p) /\ ~RevokeOldTokens(p) /\ ~DeleteOldClient(p) /\ ~CreateStorage(p)
        BY <2>0, <2>1, OpenMoves DEF Moves, Goes
      <3>3. ~HasLogin(p) /\ ~MeetsContract(p) /\ ~ValidateToken(p)
        BY <2>0, <2>1, CheckMoves DEF PhaseOK, CheckSteps, Toward, LogoutCommands
      <3>4. ~NeedClient(p) /\ ~ReadClient(p) /\ ~RegisterClient(p) /\ ~SaveClient(p)
        BY <2>0, <2>1, ClientMoves DEF Moves, Goes
      <3>5. ~LoadTokens(p) /\ ~CallService(p) /\ ~RefreshToken(p) /\ ~CallFails(p)
        BY <2>0, <2>1, CallMoves DEF Follows, Moves, Goes, Ended, LogoutCommands
      <3>6. /\ ~ExchangeCode(p) /\ ~CheckUser(p) /\ ~StoreUser(p)
            /\ ~StoreTokenData(p) /\ ~ReadVersions(p) /\ ~StoreContractVersions(p)
        BY <2>0, <2>1, FlowMoves
        DEF Moves, Goes, PhaseOK, Storing, StoreSteps, FlowCommands, LogoutCommands
      <3>7. /\ ~ForgetClient(p) /\ ~DropVersions(p) /\ ~DeleteClient(p)
            /\ ~DeleteClientFails(p) /\ ~ListTokens(p)
            /\ ~RevokeAccess(p) /\ ~RevokeRefresh(p) /\ ~ForgetTokens(p) /\ ~EndRevoking(p)
            /\ ~AbandonFlow(p) /\ ~RemoteFailure(p) /\ ~Crash(p)
        BY <2>0, <2>1, EndMoves DEF Moves, Goes, Ended
      <3> QED BY <2>3, <2>4, <3>1, <3>2, <3>3, <3>4, <3>5, <3>6, <3>7 DEF Acts, Step
    <2>6. Held(tokens) = {} /\ tokens' = tokens /\ auth_user_data' = NoIdentity
      BY <2>0, <2>5 DEF RemoveUser, StoreUserData, At, IdentityOK
    <2> QED BY <2>0, <2>6, HeldFacts
  <1>2. IdentityInv /\ [Next]_vars => [A]_vars
    BY <1>1
  <1> QED BY <1>2, IdentityAlone, PTL DEF Spec, LogoutComplete

\* One command at a time, a logout without --ignore-errors forgets no token that
\* can still be used: what it could not revoke stays stored for the next try.
THEOREM RevokedTheorem ==
  ASSUME Alone
  PROVE  Spec => RemovedOnlyRevoked
  <1> DEFINE A == \A p \in Procs, rs \in ResourceServers :
                     /\ tokens[rs] # NoGrant /\ tokens'[rs] = NoGrant
                     /\ IsLogout(p) /\ ~cli[p].ignore
                     => \A kind \in Kind : <<tokens[rs], rs, kind>> \notin live
  <1>1. RevokedInv /\ [Next]_vars => A
    <2> SUFFICES ASSUME RevokedInv, [Next]_vars, NEW p \in Procs, NEW rs \in ResourceServers,
                        tokens[rs] # NoGrant, tokens'[rs] = NoGrant,
                        IsLogout(p), ~cli[p].ignore, NEW kind \in Kind
                 PROVE  <<tokens[rs], rs, kind>> \notin live
      OBVIOUS
    <2>0. /\ CliOK /\ cli[p] \in ProcState /\ PhaseOK(cli[p]) /\ IdentityOK(cli[p])
          /\ RevokedOK(cli[p]) /\ tokens \in TokenData
      BY DEF RevokedInv, IdentityInv, PhaseInv, TypeInv, CliOK, StorageTypeOK
    <2>1. PICK q \in Procs : Acts(q)
      BY DEF Next, Acts, vars, storageVars
    <2>2. q = p
      BY DEF Alone
    <2>3. ForgetTokens(p)
      BY <2>1, <2>2, SessionEffect
      DEF StoreUser, RemoveUser, StoreUserData, StoreTokenData, StoreTokens
    <2>4. rs = cli[p].cur
      BY <2>0, <2>3 DEF ForgetTokens, RemoveTokens, Without, TokenData
    <2>5. Ending(cli[p]) /\ cli[p].pc = "forget"
      BY <2>3 DEF ForgetTokens, At, Ending, IsLogout, LogoutCommands
    <2>6. rs \in Held(cli[p].mem)
      BY <2>0, <2>5 DEF IdentityOK, Held
    <2>7. cli[p].mem[rs] = tokens[rs]
      BY <2>0, <2>5, <2>6 DEF RevokedOK
    <2> QED BY <2>0, <2>4, <2>5, <2>7 DEF RevokedOK, Dead, Kind
  <1>2. RevokedInv /\ [Next]_vars => [A]_vars
    BY <1>1
  <1> QED BY <1>2, RevokedInvariant, PTL DEF Spec, RemovedOnlyRevoked
-------------------------------------------------------------------------------
(***************************************************************************)
(* What a refused login leaves usable: RefusedInv.                         *)
(***************************************************************************)
LEMMA TokenParts ==
  ASSUME TypeInv, NEW t \in live
  PROVE  t = <<t[1], t[2], t[3]>> /\ t[1] \in Grant /\ t[2] \in ResourceServers /\ t[3] \in Kind
  BY DEF TypeInv, AuthTypeOK

\* Tokens are issued by an exchange only; a refresh renews those of a live grant.
LEMMA LiveEffect ==
  ASSUME TypeInv, NEW p \in Procs, Acts(p), ~ExchangeCode(p)
  PROVE  /\ issued' = issued
         /\ \A t \in live' : t \in live \/ (RefreshToken(p) /\ \E u \in live : t[1] = u[1])
  <1>1. CASE RefreshToken(p)
    <2> DEFINE c == cli[p]
    <2>1. <<c.mem[c.cur], c.cur, "refresh_token">> \in live
      BY <1>1 DEF RefreshToken, CanRefresh
    <2>2. /\ live' = live \cup {<<c.mem[c.cur], c.cur, "access_token">>}
          /\ issued' = issued
      BY <1>1 DEF RefreshToken, RefreshAccess
    <2> QED BY <1>1, <2>1, <2>2
  <1>2. CASE ~RefreshToken(p)
    BY <1>2
    DEF Acts, Step, Start, RemoteFailure, Crash, OpenStorage, RevokeOldTokens,
        DeleteOldClient, CreateStorage, HasLogin, MeetsContract, ValidateToken, NeedClient,
        ReadClient, RegisterClient, SaveClient, LoadTokens, CallService,
        CallFails, AbandonFlow, CheckUser, StoreUser, StoreTokenData, ReadVersions,
        StoreContractVersions, DropVersions, ForgetClient, DeleteClient, DeleteClientFails,
        ListTokens, RevokeAccess, RevokeRefresh, ForgetTokens, EndRevoking, RemoveUser,
        authVars, Revoke, RegisterInstance, DeleteInstance
  <1> QED BY <1>1, <1>2

LEMMA RefusingStep ==
  ASSUME RefusedInv, NEW p \in Procs, Acts(p), Refusing(cli'[p])
  PROVE  \/ ExchangeCode(p)
         \/ Refusing(cli[p]) /\ (CheckUser(p) \/ RevokeAccess(p) \/ RevokeRefresh(p))
  <1> DEFINE c == cli[p]
             d == cli'[p]
  <1>0. CliOK /\ c \in ProcState /\ ControlOK(c) /\ PhaseOK(c)
    BY DEF RefusedInv, PhaseInv, TypeInv, CliOK
  <1>1. ~Refusing(Ended("ok")) /\ ~Refusing(Ended("error")) /\ ~Refusing(Ended("mismatch"))
        /\ ~Refusing(Ended("missing_login")) /\ ~Refusing(Ended("no_tokens"))
    BY DEF Refusing, Ended, RevokeSteps
  <1> USE DEF Refusing, RevokeSteps
  <1>2. ~Start(p)
    BY <1>0, StartMoves
  <1>3. ~OpenStorage(p) /\ ~RevokeOldTokens(p) /\ ~DeleteOldClient(p) /\ ~CreateStorage(p)
    BY <1>0, OpenMoves DEF OpenSteps
  <1>4. ~HasLogin(p) /\ ~MeetsContract(p) /\ ~ValidateToken(p)
    BY <1>0, <1>1, CheckMoves DEF Misses
  <1>5. ~NeedClient(p) /\ ~ReadClient(p) /\ ~RegisterClient(p) /\ ~SaveClient(p)
    BY <1>0, ClientMoves DEF ControlOK, ClientSteps, ProcState
  <1>6. ~LoadTokens(p) /\ ~CallService(p) /\ ~RefreshToken(p) /\ ~CallFails(p)
    BY <1>0, <1>1, CallMoves DEF Follows
  <1>7. /\ ~StoreUser(p) /\ ~StoreTokenData(p) /\ ~ReadVersions(p)
        /\ ~StoreContractVersions(p)
    BY <1>0, <1>1, FlowMoves
  <1>8. /\ ~ForgetClient(p) /\ ~DropVersions(p) /\ ~DeleteClient(p)
        /\ ~DeleteClientFails(p) /\ ~EndRevoking(p) /\ ~RemoveUser(p)
        /\ ~AbandonFlow(p) /\ ~RemoteFailure(p) /\ ~Crash(p)
    BY <1>0, <1>1, EndMoves
  <1>9. ~ListTokens(p) /\ ~ForgetTokens(p)
    BY <1>0, EndMoves DEF Goes, PhaseOK, EndSteps
  <1>10. CheckUser(p) \/ RevokeAccess(p) \/ RevokeRefresh(p) => Refusing(c)
    BY <1>0, EndMoves, FlowMoves DEF Moves, Goes
  <1> QED BY <1>2, <1>3, <1>4, <1>5, <1>6, <1>7, <1>8, <1>9, <1>10 DEF Acts, Step

LEMMA RefusedStep ==
  ASSUME RefusedInv, NEW p \in Procs, Acts(p)
  PROVE  RefusedOK(cli[p])'
  <1> DEFINE c == cli[p]
             d == cli'[p]
  <1>0. /\ TypeInv /\ CliOK /\ ControlOK(c) /\ PhaseOK(c) /\ RefusedOK(c)
        /\ c \in ProcState /\ c.mem \in TokenData /\ c.cur \in ResourceServers
        /\ \A t \in live : t[1].n <= issued
    BY DEF RefusedInv, PhaseInv, TypeInv, CliOK, ProcState
  <1>1. CASE ~Refusing(d)
    BY <1>1 DEF RefusedOK
  <1>2. CASE ExchangeCode(p)
    <2>1. PICK who \in Identities : /\ d.mem = Response(NewGrant(p, who), c.want)
                                    /\ Issue(NewGrant(p, who), c.want)
      BY <1>0, <1>2, FlowMoves
    <2> DEFINE g == NewGrant(p, who)
    <2>2. issued' = issued + 1 /\ live' = live \cup ({g} \X c.want \X Kind)
      BY <2>1 DEF Issue
    <2>3. issued \in Nat
      BY <1>0, BoundsAssumption DEF TypeInv, AuthTypeOK
    <2>4. ASSUME NEW t \in live', t[1].n = issued' PROVE t[1] = d.mem[t[2]]
      <3>1. t \notin live
        <4> SUFFICES ASSUME t \in live PROVE FALSE
          OBVIOUS
        <4>1. t[1].n <= issued /\ t[1].n \in Int
          BY <1>0, TokenParts DEF Grant
        <4> QED BY <2>2, <2>3, <2>4, <4>1
      <3> HIDE DEF g
      <3>2. t \in {g} \X c.want \X Kind
        BY <2>2, <3>1
      <3>3. t[1] = g /\ t[2] \in c.want
        BY <3>2
      <3>4. c.want \subseteq ResourceServers
        BY <1>0 DEF ProcState
      <3> QED BY <2>1, <3>3, <3>4 DEF Response, g
    <2>5. d.pc = "check_user"
      BY <1>0, <1>2, FlowMoves
    <2> QED BY <2>4, <2>5 DEF RefusedOK
  <1>3. CASE CheckUser(p) /\ Refusing(c)
    <2>1. d.mem = c.mem /\ live' = live /\ issued' = issued /\ d.pc # "revoke_refresh"
      BY <1>0, <1>3, FlowMoves DEF Moves, CheckUser, authVars
    <2> QED BY <1>0, <1>3, <2>1 DEF RefusedOK
  <1>4. CASE RevokeAccess(p) /\ Refusing(c)
    <2>1. ~c.ignore
      BY <1>0, <1>4 DEF PhaseOK, Refusing
    <2>2. /\ Revoke(c.mem[d.cur], d.cur, "access_token")
          /\ d.pc = "revoke_refresh" /\ d.mem = c.mem
      BY <1>0, <1>4, <2>1, EndMoves
    <2>3. issued' = issued /\ live' = live \ {<<c.mem[d.cur], d.cur, "access_token">>}
      BY <2>2 DEF Revoke
    <2>4. ASSUME NEW t \in live', t[1].n = issued'
          PROVE  t[1] = d.mem[t[2]] /\ (t[2] = d.cur => t[3] = "refresh_token")
      <3>1. t \in live /\ t[1] = c.mem[t[2]]
        BY <1>0, <1>4, <2>3, <2>4 DEF RefusedOK
      <3>2. t = <<t[1], t[2], t[3]>> /\ t[3] \in Kind
        BY <1>0, <3>1, TokenParts
      <3>3. t[2] = d.cur => t[3] # "access_token"
        BY <2>3, <3>1, <3>2
      <3> QED BY <2>2, <3>1, <3>2, <3>3 DEF Kind
    <2> QED BY <2>4 DEF RefusedOK
  <1>5. CASE RevokeRefresh(p) /\ Refusing(c)
    <2>1. ~c.ignore
      BY <1>0, <1>5 DEF PhaseOK, Refusing
    <2>2. /\ Revoke(c.mem[c.cur], c.cur, "refresh_token") /\ c.pc = "revoke_refresh"
          /\ d.pc = "revoke_access" /\ d.mem = Without(c.mem, c.cur)
      BY <1>0, <1>5, <2>1, EndMoves DEF Refusing
    <2>3. issued' = issued /\ live' = live \ {<<c.mem[c.cur], c.cur, "refresh_token">>}
      BY <2>2 DEF Revoke
    <2>4. ASSUME NEW t \in live', t[1].n = issued' PROVE t[1] = d.mem[t[2]]
      <3>1. t \in live /\ t[1] = c.mem[t[2]] /\ (t[2] = c.cur => t[3] = "refresh_token")
        BY <1>0, <1>5, <2>2, <2>3, <2>4 DEF RefusedOK
      <3>2. t = <<t[1], t[2], t[3]>> /\ t[2] \in ResourceServers
        BY <1>0, <3>1, TokenParts
      <3>3. t[2] # c.cur
        BY <2>3, <3>1, <3>2
      <3> QED BY <1>0, <2>2, <3>1, <3>2, <3>3 DEF Without, TokenData
    <2> QED BY <2>2, <2>4 DEF RefusedOK
  <1> QED BY <1>1, <1>2, <1>3, <1>4, <1>5, RefusingStep

LEMMA RefusedInvariant == ASSUME Alone PROVE Spec => []RefusedInv
  <1>1. Init => RefusedInv
    <2> SUFFICES ASSUME Init PROVE RefusedInv
      OBVIOUS
    <2>1. \A p \in Procs : RefusedOK(cli[p])
      BY DEF Init, RefusedOK, Refusing, Ended, RevokeSteps
    <2>2. \A t \in live : t[1].n <= issued
      <3>1. CASE InitFresh
        BY <3>1 DEF InitFresh
      <3>2. ASSUME NEW s \in Sessions, InitSession(s) PROVE \A t \in live : t[1].n <= issued
        <4>1. PICK who \in Identities :
                live = {InitialGrant(who, s)} \X ResourceServers \X Kind
          BY <3>2 DEF InitSession
        <4>2. InitialGrant(who, s).n = 1
          BY DEF InitialGrant
        <4>3. issued = 1
          BY <3>2 DEF InitSession
        <4> QED BY <4>1, <4>2, <4>3
      <3> QED BY <3>1, <3>2 DEF Init
    <2> QED BY <2>1, <2>2, PhaseInit DEF RefusedInv
  <1>2. RefusedInv /\ [Next]_vars => RefusedInv'
    <2> SUFFICES ASSUME RefusedInv, [Next]_vars PROVE RefusedInv'
      OBVIOUS
    <2>1. PhaseInv'
      BY PhaseNext DEF RefusedInv
    <2>2. ASSUME NEW p \in Procs, Acts(p) PROVE RefusedInv'
      <3>0. TypeInv /\ CliOK /\ issued \in Nat /\ \A t \in live : t[1].n <= issued
        BY BoundsAssumption DEF RefusedInv, PhaseInv, TypeInv, AuthTypeOK
      <3>1. ASSUME NEW t \in live' PROVE t[1].n <= issued'
        <4>1. CASE ExchangeCode(p)
          <5>1. PICK who \in Identities : Issue(NewGrant(p, who), cli[p].want)
            BY <3>0, <4>1, FlowMoves
          <5>2. NewGrant(p, who).n = issued + 1
            BY DEF NewGrant
          <5>3. issued' = issued + 1 /\ (t \in live \/ t[1] = NewGrant(p, who))
            BY <5>1, <3>1 DEF Issue
          <5>4. t \in live => t[1].n \in Int
            BY <3>0, TokenParts DEF Grant
          <5> QED BY <3>0, <5>2, <5>3, <5>4
        <4> QED BY <2>2, <3>0, <3>1, <4>1, LiveEffect
      <3> QED BY <2>1, <2>2, <3>1, RefusedStep DEF Alone, RefusedInv
    <2>3. CASE UNCHANGED vars
      BY <2>1, <2>3 DEF RefusedInv, vars, authVars, RefusedOK
    <2> QED BY <2>2, <2>3 DEF Next, Acts
  <1> QED BY <1>1, <1>2, PTL DEF Spec

\* A login that is refused for its identity has revoked every token it was
\* given, access and refresh tokens of every resource server.
THEOREM RefusedTheorem ==
  ASSUME Alone
  PROVE  Spec => RefusedLoginRevoked
  <1> DEFINE A == \A p \in Procs : cli[p].outcome # "mismatch" /\ cli'[p].outcome = "mismatch"
                                     => \A t \in live' : t[1].n # issued
  <1>1. RefusedInv /\ [Next]_vars => A
    <2> SUFFICES ASSUME RefusedInv, [Next]_vars, NEW p \in Procs,
                        cli[p].outcome # "mismatch", cli'[p].outcome = "mismatch"
                 PROVE  \A t \in live' : t[1].n # issued
      OBVIOUS
    <2> DEFINE c == cli[p]
               d == cli'[p]
    <2>0. /\ TypeInv /\ CliOK /\ c \in ProcState /\ ControlOK(c) /\ PhaseOK(c) /\ RefusedOK(c)
      BY DEF RefusedInv, PhaseInv, TypeInv, CliOK
    <2>2. d # c
      OBVIOUS
    <2>3. PICK q \in Procs : Acts(q)
      BY <2>2 DEF Next, Acts, vars
    <2>4. q = p
      BY <2>0, <2>2, <2>3, OnlyOwn
    <2>5. EndRevoking(p) /\ c.cmd \notin LogoutCommands
      <3>1. ~Start(p)
        BY <2>0, StartMoves
      <3>2. ~OpenStorage(p) /\ ~RevokeOldTokens(p) /\ ~DeleteOldClient(p) /\ ~CreateStorage(p)
        BY <2>0, OpenMoves DEF Moves, Goes
      <3>3. ~HasLogin(p) /\ ~MeetsContract(p) /\ ~ValidateToken(p)
        BY <2>0, CheckMoves DEF Moves, Misses, Goes, Ended
      <3>4. ~NeedClient(p) /\ ~ReadClient(p) /\ ~RegisterClient(p) /\ ~SaveClient(p)
        BY <2>0, ClientMoves DEF Moves, Goes
      <3>5. ~LoadTokens(p) /\ ~CallService(p) /\ ~RefreshToken(p) /\ ~CallFails(p)
        BY <2>0, CallMoves DEF Follows, Moves, Goes, Ended
      <3>6. /\ ~ExchangeCode(p) /\ ~CheckUser(p) /\ ~StoreUser(p)
            /\ ~StoreTokenData(p) /\ ~ReadVersions(p) /\ ~StoreContractVersions(p)
        BY <2>0, FlowMoves DEF Moves, Goes, Ended
      <3>7. /\ ~ForgetClient(p) /\ ~DropVersions(p) /\ ~DeleteClient(p)
            /\ ~DeleteClientFails(p) /\ ~ListTokens(p)
            /\ ~RevokeAccess(p) /\ ~RevokeRefresh(p) /\ ~ForgetTokens(p)
            /\ ~RemoveUser(p) /\ ~AbandonFlow(p) /\ ~RemoteFailure(p) /\ ~Crash(p)
        BY <2>0, EndMoves DEF Moves, Goes, Ended
      <3>8. EndRevoking(p)
        BY <2>3, <2>4, <3>1, <3>2, <3>3, <3>4, <3>5, <3>6, <3>7 DEF Acts, Step
      <3> QED BY <2>0, <3>8, EndMoves DEF Moves, Goes
    <2>6. Held(c.mem) = {} /\ live' = live /\ c.pc = "revoke_access"
      BY <2>5 DEF EndRevoking, authVars, At
    <2>7. ASSUME NEW t \in live, t[1].n = issued PROVE FALSE
      <3>1. t[1] = c.mem[t[2]]
        BY <2>0, <2>5, <2>6, <2>7 DEF RefusedOK, Refusing, RevokeSteps
      <3>2. t[1] \in Grant /\ t[2] \in ResourceServers
        BY <2>0, TokenParts
      <3> QED BY <2>6, <3>1, <3>2, NoGrantIsNone DEF Held
    <2> QED BY <2>6, <2>7
  <1>2. RefusedInv /\ [Next]_vars => [A]_vars
    BY <1>1
  <1> QED BY <1>2, RefusedInvariant, PTL DEF Spec, RefusedLoginRevoked
-------------------------------------------------------------------------------
(***************************************************************************)
(* The client in the storage and the ones Globus Auth has: ClientInv.      *)
(***************************************************************************)
LEMMA ClientEffect ==
  ASSUME NEW p \in Procs, Acts(p)
  PROVE  /\ auth_client_data' = auth_client_data \/ SaveClient(p) \/ ForgetClient(p)
         /\ UNCHANGED <<clients, registered>> \/ RegisterClient(p) \/ DeleteClient(p)
  BY DEF Acts, Step, Start, RemoteFailure, Crash, OpenStorage, RevokeOldTokens,
         DeleteOldClient, CreateStorage, HasLogin, MeetsContract, ValidateToken, NeedClient,
         ReadClient, RegisterClient, SaveClient, LoadTokens, CallService, RefreshToken,
         CallFails, ExchangeCode, AbandonFlow, CheckUser, StoreUser, ReadVersions,
         StoreTokenData, StoreTokens, StoreContractVersions, StoreVersions, DropVersions,
         ForgetClient, DeleteClient, DeleteClientFails, ListTokens, RevokeAccess,
         RevokeRefresh, ForgetTokens, RemoveTokens, EndRevoking, RemoveUser, StoreUserData,
         storageVars, authVars, InvalidateOld, CreateDb, StoreClientData, Issue, Revoke,
         RefreshAccess

\* Where a process gets a client from, and which step leads to the ones that
\* store it or delete it.
Keeps(c, d) ==
    /\ d.cred \in {c.cred, NoClient}
    /\ d.pc # "save_client"
    /\ Doomed(d) => c.pc = "drop_versions" /\ d.cred = c.cred

LEMMA CredMoves ==
  ASSUME TypeInv, NEW p \in Procs, Acts(p)
  PROVE  \/ RegisterClient(p) \/ ForgetClient(p)
         \/ ReadClient(p) /\ ~Doomed(cli'[p]) /\ cli'[p].pc # "save_client"
            /\ cli'[p].cred \in {cli[p].cred, auth_client_data}
         \/ Keeps(cli[p], cli'[p])
  <1> DEFINE c == cli[p]
             d == cli'[p]
  <1>0. CliOK /\ c \in ProcState /\ ControlOK(c)
        /\ c.ret \in {"validate", "call", "authorize", "done"}
    BY DEF TypeInv, CliOK, ProcState
  <1>e. \A o : d = Ended(o) => Keeps(c, d)
    BY DEF Ended, Keeps, Doomed
  <1> USE DEF Keeps, Doomed
  <1>1. Start(p) => Keeps(c, d)
    BY <1>0, StartMoves
  <1>2. OpenStorage(p) \/ RevokeOldTokens(p) \/ DeleteOldClient(p) \/ CreateStorage(p)
        => Keeps(c, d)
    BY <1>0, OpenMoves DEF Moves, OpenSteps
  <1>3. HasLogin(p) \/ MeetsContract(p) \/ ValidateToken(p) => Keeps(c, d)
    BY <1>0, <1>e, CheckMoves DEF Misses, Moves
  <1>4. NeedClient(p) \/ SaveClient(p) => Keeps(c, d)
    BY <1>0, ClientMoves DEF Moves, ControlOK
  <1>5. ReadClient(p) => ~Doomed(d) /\ d.pc # "save_client"
                         /\ d.cred \in {c.cred, auth_client_data}
    BY <1>0, ClientMoves
  <1>6. LoadTokens(p) \/ CallService(p) \/ RefreshToken(p) \/ CallFails(p) => Keeps(c, d)
    BY <1>0, <1>e, CallMoves DEF Follows, Moves
  <1>7. \/ ExchangeCode(p) \/ CheckUser(p) \/ StoreUser(p)
        \/ StoreTokenData(p) \/ ReadVersions(p) \/ StoreContractVersions(p)
        => Keeps(c, d)
    BY <1>0, <1>e, FlowMoves DEF Moves
  <1>8. \/ DropVersions(p) \/ DeleteClient(p) \/ DeleteClientFails(p) \/ ListTokens(p)
        => Keeps(c, d)
    BY <1>0, <1>e, EndMoves DEF Moves
  <1>9. \/ RevokeAccess(p) \/ RevokeRefresh(p) \/ ForgetTokens(p) \/ EndRevoking(p)
        \/ RemoveUser(p) \/ AbandonFlow(p) \/ RemoteFailure(p) \/ Crash(p)
        => Keeps(c, d)
    BY <1>0, <1>e, EndMoves DEF Moves
  <1> QED BY <1>1, <1>2, <1>3, <1>4, <1>5, <1>6, <1>7, <1>8, <1>9 DEF Acts, Step

LEMMA ClientTypes ==
  ASSUME TypeInv
  PROVE  /\ registered \in Nat /\ auth_client_data \in Nat
         /\ \A p \in Procs : cli[p].cred \in Nat
         /\ NoClient \notin clients /\ NoClient \in Nat
  BY BoundsAssumption
  DEF TypeInv, AuthTypeOK, StorageTypeOK, CliOK, ProcState, Client, NoClient

LEMMA ClientStep ==
  ASSUME TypeInv, ClientInv, NEW p \in Procs, Acts(p)
  PROVE  ClientInv'
  <1> DEFINE c == cli[p]
             d == cli'[p]
  <1>0. /\ CliOK /\ StoredClientExists /\ auth_client_data <= registered
        /\ \A q \in Procs : ClientOK(cli[q]) /\ Unshared(p, q) /\ Unshared(q, p)
        /\ \A q, s \in Procs : Unshared(q, s)
    BY DEF TypeInv, ClientInv
  <1>t. /\ registered \in Nat /\ auth_client_data \in Nat
        /\ \A q \in Procs : cli[q].cred \in Nat
        /\ NoClient \notin clients /\ NoClient \in Nat
    BY ClientTypes
  <1>o. \A q \in Procs \ {p} : cli'[q] = cli[q]
    BY <1>0, OnlyOwn
  <1>1. CASE RegisterClient(p)
    <2>1. /\ d.pc = "save_client" /\ d.cred = registered + 1
          /\ registered' = registered + 1 /\ clients' = clients \cup {registered + 1}
          /\ auth_client_data' = auth_client_data
      BY <1>0, <1>1, ClientMoves
      DEF RegisterClient, RegisterInstance, NewClient, storageVars
    <2>2. \A q \in Procs : cli[q].cred # registered + 1 /\ cli[q].cred <= registered
      BY <1>0, <1>t DEF ClientOK
    <2>3. auth_client_data # registered + 1 /\ auth_client_data <= registered'
      BY <1>0, <1>t, <2>1
    <2>4. ClientOK(cli[p])'
      BY <1>t, <2>1, <2>3 DEF ClientOK, Doomed
    <2>5. ASSUME NEW q \in Procs \ {p} PROVE ClientOK(cli[q])'
      <3>1. cli[q].cred <= registered'
        BY <1>t, <2>1, <2>2
      <3> QED BY <1>0, <1>o, <2>1, <3>1 DEF ClientOK, Doomed
    <2>6. \A q, s \in Procs : Unshared(q, s)'
      BY <1>0, <1>o, <2>1, <2>2 DEF Unshared
    <2> QED BY <1>0, <2>1, <2>3, <2>4, <2>5, <2>6 DEF ClientInv, StoredClientExists
  <1>2. CASE ForgetClient(p)
    <2>1. /\ c.pc = "delete_client" /\ d.pc = "drop_versions" /\ d.cred = c.cred
          /\ auth_client_data' = NoClient /\ UNCHANGED <<clients, registered>>
      BY <1>0, <1>2, EndMoves DEF ForgetClient, StoreClientData, Moves, authVars
    <2>2. NoClient <= registered
      BY <1>t DEF NoClient
    <2>3. \A q \in Procs : ClientOK(cli[q])'
      BY <1>0, <1>o, <1>t, <2>1 DEF ClientOK, Doomed
    <2>4. \A q, s \in Procs : Unshared(q, s)'
      BY <1>0, <1>o, <2>1 DEF Unshared
    <2> QED BY <2>1, <2>2, <2>3, <2>4 DEF ClientInv, StoredClientExists
  <1>3. CASE SaveClient(p)
    <2>1. /\ c.pc = "save_client" /\ d.pc # "save_client" /\ ~Doomed(d) /\ d.cred = c.cred
          /\ auth_client_data' = c.cred /\ UNCHANGED <<clients, registered>>
      <3>1. c.ret \in {"validate", "call", "authorize", "done"}
        BY <1>0 DEF CliOK, ProcState
      <3> QED BY <1>0, <1>3, <3>1, ClientMoves
              DEF SaveClient, StoreClientData, Moves, Doomed, authVars
    <2>2. c.cred \in clients /\ c.cred <= registered
      BY <1>0, <2>1 DEF ClientOK
    <2>3. \A q \in Procs \ {p} : cli[q].cred # c.cred
      BY <1>0, <2>1 DEF Unshared
    <2>4. \A q \in Procs : ClientOK(cli[q])'
      BY <1>0, <1>o, <2>1, <2>2, <2>3 DEF ClientOK, Doomed
    <2>5. \A q, s \in Procs : Unshared(q, s)'
      BY <1>0, <1>o, <2>1, <2>3 DEF Unshared
    <2> QED BY <2>1, <2>2, <2>4, <2>5 DEF ClientInv, StoredClientExists
  <1>4. CASE DeleteClient(p)
    <2>1. /\ c.pc = "api_delete" /\ d.pc = "list_tokens" /\ d.cred = NoClient
          /\ clients' = clients \ {c.cred} /\ c.cred \in clients
          /\ UNCHANGED <<auth_client_data, registered>>
      BY <1>0, <1>4, EndMoves DEF DeleteClient, DeleteInstance, storageVars
    <2>2. auth_client_data = NoClient \/ auth_client_data # c.cred
      BY <1>0, <2>1 DEF ClientOK, Doomed
    <2>3. \A q \in Procs \ {p} : cli[q].pc = "save_client" => cli[q].cred # c.cred
      BY <1>0 DEF Unshared
    <2>4. NoClient <= registered
      BY <1>t DEF NoClient
    <2>5. \A q \in Procs : ClientOK(cli[q])'
      BY <1>0, <1>o, <2>1, <2>3, <2>4 DEF ClientOK, Doomed
    <2>6. \A q, s \in Procs : Unshared(q, s)'
      <3>1. \A q \in Procs : cli[q].pc = "save_client" => cli[q].cred # NoClient
        BY <1>0, <1>t DEF ClientOK
      <3> QED BY <1>0, <1>o, <2>1, <3>1 DEF Unshared
    <2> QED BY <1>0, <2>1, <2>2, <2>5, <2>6 DEF ClientInv, StoredClientExists
  <1>5. CASE /\ UNCHANGED <<auth_client_data, clients, registered>>
             /\ ~RegisterClient(p) /\ ~ForgetClient(p)
    <2>1. /\ d.cred \in {c.cred, NoClient, auth_client_data} /\ d.pc # "save_client"
          /\ Doomed(d) => c.pc = "drop_versions" /\ d.cred = c.cred
      BY <1>5, CredMoves DEF Keeps
    <2>2. d.cred <= registered
      <3>1. c.cred <= registered
        BY <1>0 DEF ClientOK
      <3>2. NoClient <= registered
        BY <1>t DEF NoClient
      <3> QED BY <1>0, <2>1, <3>1, <3>2
    <2>3. ClientOK(cli[p])'
      BY <1>0, <1>5, <2>1, <2>2 DEF ClientOK, Doomed
    <2>4. \A q \in Procs \ {p} : ClientOK(cli[q])'
      BY <1>0, <1>5, <1>o DEF ClientOK, Doomed
    <2>5. \A q, s \in Procs : Unshared(q, s)'
      <3>1. \A q \in Procs : cli[q].pc = "save_client" =>
                cli[q].cred # NoClient /\ cli[q].cred # auth_client_data
        BY <1>0, <1>t DEF ClientOK
      <3> QED BY <1>0, <1>o, <2>1, <3>1 DEF Unshared
    <2> QED BY <1>0, <1>5, <2>3, <2>4, <2>5 DEF ClientInv, StoredClientExists
  <1>6. /\ RegisterClient(p) \/ SaveClient(p) \/ ForgetClient(p) \/ DeleteClient(p)
           \/ UNCHANGED <<auth_client_data, clients, registered>>
    BY ClientEffect
  <1> QED BY <1>1, <1>2, <1>3, <1>4, <1>5, <1>6

\* However many processes register, save, forget and delete clients at once, and
\* whatever fails on the way, the client in the storage is one that exists.
THEOREM StoredClientTheorem == Spec => []StoredClientExists
  <1>1. Init => ClientInv
    <2> SUFFICES ASSUME Init PROVE ClientInv
      OBVIOUS
    <2>1. \A p \in Procs : cli[p] = Ended("none")
      BY DEF Init
    <2>2. \/ registered = 0 /\ clients = {} /\ auth_client_data = NoClient
          \/ registered = 1 /\ clients = {1} /\ auth_client_data = 1
      BY DEF Init, InitFresh, InitSession
    <2>3. \A p \in Procs : cli[p].cred = 0 /\ cli[p].pc = "idle"
      BY <2>1 DEF Ended, NoClient
    <2>4. 0 <= registered /\ auth_client_data <= registered
      BY <2>2 DEF NoClient
    <2> QED BY <2>2, <2>3, <2>4
            DEF ClientInv, StoredClientExists, ClientOK, Doomed, Unshared
  <1>2. TypeInv /\ ClientInv /\ [Next]_vars => ClientInv'
    <2> SUFFICES ASSUME TypeInv, ClientInv, [Next]_vars PROVE ClientInv'
      OBVIOUS
    <2>1. CASE UNCHANGED vars
      BY <2>1
      DEF ClientInv, StoredClientExists, ClientOK, Doomed, Unshared, vars, storageVars, authVars
    <2> QED BY <2>1, ClientStep DEF Next, Acts
  <1>3. ClientInv => StoredClientExists
    BY DEF ClientInv
  <1> QED BY <1>1, <1>2, <1>3, TypeInvariant, PTL DEF Spec
-------------------------------------------------------------------------------
(***************************************************************************)
(* The old configuration: OldConfigInv.                                    *)
(***************************************************************************)
LEMMA OldEffect ==
  ASSUME NEW p \in Procs, Acts(p)
  PROVE  /\ oldConfig' \subseteq oldConfig
         /\ db' = db \/ CreateStorage(p)
  BY DEF Acts, Step, Start, RemoteFailure, Crash, OpenStorage, RevokeOldTokens,
         DeleteOldClient, CreateStorage, HasLogin, MeetsContract, ValidateToken, NeedClient,
         ReadClient, RegisterClient, SaveClient, LoadTokens, CallService, RefreshToken,
         CallFails, ExchangeCode, AbandonFlow, CheckUser, StoreUser, ReadVersions,
         StoreTokenData, StoreTokens, StoreContractVersions, StoreVersions, DropVersions,
         ForgetClient, DeleteClient, DeleteClientFails, ListTokens, RevokeAccess,
         RevokeRefresh, ForgetTokens, RemoveTokens, EndRevoking, RemoveUser, StoreUserData,
         storageVars, InvalidateOld, CreateDb, StoreClientData

\* Only RevokeOldTokens leads to the steps that come after it.
LEMMA OldStep ==
  ASSUME TypeInv, NEW p \in Procs, Acts(p), cli'[p].pc \in {"delete_old", "create_db"}
  PROVE  RevokeOldTokens(p) \/ cli[p].pc = "delete_old"
  <1> DEFINE c == cli[p]
             d == cli'[p]
  <1>0. CliOK /\ c \in ProcState /\ ControlOK(c)
        /\ c.ret \in {"validate", "call", "authorize", "done"}
    BY DEF TypeInv, CliOK, ProcState
  <1>1. ~Start(p)
    BY <1>0, StartMoves
  <1>2. ~OpenStorage(p) /\ ~CreateStorage(p)
    <2>1. AfterOpen(p) \notin {"delete_old", "create_db"}
      BY DEF AfterOpen, Checked
    <2>2. \A s : Goto(p, s) => d.pc = s
      BY <1>0, GotoMoves
    <2> QED BY <2>1, <2>2 DEF OpenStorage, CreateStorage
  <1>3. DeleteOldClient(p) => c.pc = "delete_old"
    BY DEF DeleteOldClient, At
  <1>4. ~HasLogin(p) /\ ~MeetsContract(p) /\ ~ValidateToken(p)
    BY <1>0, CheckMoves DEF Misses, Ended
  <1>5. ~NeedClient(p) /\ ~ReadClient(p) /\ ~RegisterClient(p) /\ ~SaveClient(p)
    BY <1>0, ClientMoves DEF ControlOK, ClientSteps
  <1>6. ~LoadTokens(p) /\ ~CallService(p) /\ ~RefreshToken(p) /\ ~CallFails(p)
    BY <1>0, CallMoves DEF Follows, Ended
  <1>7. /\ ~ExchangeCode(p) /\ ~CheckUser(p) /\ ~StoreUser(p)
        /\ ~StoreTokenData(p) /\ ~ReadVersions(p) /\ ~StoreContractVersions(p)
    BY <1>0, FlowMoves DEF Ended
  <1>8. /\ ~ForgetClient(p) /\ ~DropVersions(p) /\ ~DeleteClient(p) /\ ~DeleteClientFails(p)
        /\ ~ListTokens(p) /\ ~RevokeAccess(p) /\ ~RevokeRefresh(p) /\ ~ForgetTokens(p)
        /\ ~EndRevoking(p) /\ ~RemoveUser(p)
        /\ ~AbandonFlow(p) /\ ~RemoteFailure(p) /\ ~Crash(p)
    BY <1>0, EndMoves DEF Ended
  <1> QED BY <1>1, <1>2, <1>3, <1>4, <1>5, <1>6, <1>7, <1>8 DEF Acts, Step

\* However many processes start at once on a fresh install, storage.db is not
\* there before the tokens of the old configuration are revoked.
THEOREM OldTokensTheorem == Spec => []OldTokensRevoked
  <1>1. Init => OldConfigInv
    BY DEF Init, InitFresh, InitSession, Ended, OldConfigInv, OldTokensRevoked
  <1>2. TypeInv /\ OldConfigInv /\ [Next]_vars => OldConfigInv'
    <2> SUFFICES ASSUME TypeInv, OldConfigInv, [Next]_vars PROVE OldConfigInv'
      OBVIOUS
    <2>1. ASSUME NEW p \in Procs, Acts(p) PROVE OldConfigInv'
      <3>1. oldConfig' \subseteq oldConfig
        BY <2>1, OldEffect
      <3>2. ASSUME NEW q \in Procs, cli'[q].pc \in {"delete_old", "create_db"}
            PROVE  "tokens" \notin oldConfig'
        <4>1. CASE q # p
          <5>1. cli'[q] = cli[q]
            BY <2>1, <4>1, OnlyOwn DEF TypeInv
          <5> QED BY <3>1, <3>2, <5>1 DEF OldConfigInv
        <4>2. CASE q = p /\ RevokeOldTokens(p)
          BY <4>2 DEF RevokeOldTokens, InvalidateOld
        <4>3. CASE q = p /\ cli[p].pc = "delete_old"
          BY <3>1, <4>3 DEF OldConfigInv
        <4> QED BY <2>1, <3>2, <4>1, <4>2, <4>3, OldStep
      <3>3. CASE CreateStorage(p)
        <4>1. "tokens" \notin oldConfig
          BY <3>3 DEF CreateStorage, At, OldConfigInv
        <4> QED BY <3>1, <3>2, <4>1 DEF OldConfigInv, OldTokensRevoked
      <3>4. CASE db' = db
        BY <3>1, <3>2, <3>4 DEF OldConfigInv, OldTokensRevoked
      <3> QED BY <2>1, <3>3, <3>4, OldEffect
    <2>2. CASE UNCHANGED vars
      BY <2>2 DEF OldConfigInv, OldTokensRevoked, vars, storageVars
    <2> QED BY <2>1, <2>2 DEF Next, Acts
  <1>3. OldConfigInv => OldTokensRevoked
    BY DEF OldConfigInv
  <1> QED BY <1>1, <1>2, <1>3, TypeInvariant, PTL DEF Spec
===============================================================================
