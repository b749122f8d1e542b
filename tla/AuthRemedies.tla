----------------------------- MODULE AuthRemedies -----------------------------
(* What a user who lacks a login, a consent or a session is told to do.        *)
(*                                                                             *)
(* A command checks its logins, the service checks the session of the tokens,  *)
(* and either may refuse.  Every refusal names a command that is to remedy it. *)
(* Consents live in Globus Auth, tokens in the storage; LoginSession has the   *)
(* steps of the logins, here a command is one step.                            *)
(*                                                                             *)
(* Every resource server has one root scope, named like the server; its tokens *)
(* stand for the consent to it.  A scope with dependencies is a path:          *)
(* <<"timers", f>> is the timer scope with the scope of flow f beneath it.     *)
EXTENDS Naturals, Sequences, FiniteSets, SequencesExt

CONSTANTS
    Endpoints, Collections, Flows,
    Owner,          \* the endpoint of a collection
    MaxTargets,     \* the most --gcs, --flow and --timer options on a login
    Revocable,      \* resource servers whose tokens may be lost singly
    None

ASSUME OwnerAssumption == Owner \in [Collections -> Endpoints]
ASSUME BoundsAssumption == MaxTargets \in Nat /\ Revocable \subseteq STRING \union Endpoints \union Flows

VARIABLES
    high_assurance, \* flows and collections that ask for more than a token
    reason,         \* why a run or a timer is inactive, None when it is active
    consents,       \* paths of dependent scopes the user has consented to
    tokens,         \* resource servers with valid tokens
    recent,         \* endpoints whose tokens come from a recent authentication
    policy,         \* flow servers whose tokens come from a session with the policy
    cmd,            \* the command the user wants to run, None before the first
    advice,         \* the remedy it was refused with, None when it was not
    followed,       \* the remedy has been carried out, nothing else happened
    refusals,       \* of the command so far, while nothing else happened
    requested       \* targets of a login command that has just reported success

session == <<consents, tokens, recent, policy>>
vars == <<high_assurance, reason, session, cmd, advice, followed, refusals, requested>>
-------------------------------------------------------------------------------
\* CLI_SCOPE_REQUIREMENTS
Services == {"auth", "transfer", "groups", "search", "timers", "flows"}
LoginScopes == {<<s>> : s \in Services}

\* The resource servers of endpoints and flows have UUIDs for names.
ASSUME ServersAssumption == (Endpoints \union Flows) \intersect Services = {}

\* Data access is asked for on mapped collections without high assurance.
RequiresDataAccess(c) == c \notin high_assurance

\* What get_gcs_client requires for a collection.
DataAccessTarget(c) == IF RequiresDataAccess(c) THEN <<Owner[c], c>> ELSE <<Owner[c]>>

\* What --gcs, --flow and --timer can name.
Targets == {<<e>> : e \in Endpoints} \union {<<Owner[c], c>> : c \in Collections}
           \union {<<f>> : f \in Flows} \union {<<"timers", f>> : f \in Flows}

DataAccess(c) == <<"transfer", c>>
TimerDataAccess(c) == <<"timers", "transfer", c>>

\* The consents a run or a timer can be waiting for.
RunScopes == {<<f, c>> : f \in Flows, c \in Collections}
TimerScopes == {TimerDataAccess(c) : c \in Collections}

Paths == LoginScopes \union Targets \union RunScopes \union TimerScopes
         \union {DataAccess(c) : c \in Collections}
Dependent(paths) == {p \in paths : Len(p) > 1}
Roots(paths) == {Head(p) : p \in paths}
FlowServers == {"flows"} \union Flows

\* Scopes to consent to, a policy to satisfy, or both.
Reason(paths) ==
    [scopes : SUBSET paths, policy : BOOLEAN] \ {[scopes |-> {}, policy |-> FALSE]}

Commands ==
    [name : {"ls", "guest"}, collection : Collections]
    \union [name : {"gcs"}, endpoint : Endpoints]
    \union [name : {"timer_transfer"}, collections : SUBSET Collections]
    \union [name : {"flow_show", "flow_start", "timer_flow"}, flow : Flows]
    \union [name : {"run_resume"}, flow : Flows, skip : BOOLEAN]
    \union [name : {"timer_resume"}, skip : BOOLEAN]

\* The advice: a command line, and the command to run when it is done.
Advice(kind, targets, force, then) ==
    [kind |-> kind, targets |-> targets, force |-> force, then |-> then]

Remedies ==
    [kind : {"login"}, targets : {<<>>} \union {<<t>> : t \in Targets},
     force : BOOLEAN, then : Commands]
    \union [kind : {"consent", "update"}, targets : SUBSET Paths,
            force : {FALSE}, then : Commands]

TypeOK ==
    /\ high_assurance \subseteq Flows \union Collections
    /\ reason \in [run : {None} \union Reason(RunScopes), timer : {None} \union Reason(TimerScopes)]
    /\ consents \subseteq Dependent(Paths)
    /\ tokens \subseteq Services \union Endpoints \union Flows
    /\ recent \subseteq tokens \intersect Endpoints
    /\ policy \subseteq tokens \intersect FlowServers
    /\ cmd \in {None} \union Commands
    /\ advice \in {None} \union Remedies
    /\ followed \in BOOLEAN
    /\ refusals \in Nat
    /\ requested \subseteq Targets

Init ==
    /\ high_assurance \in SUBSET (Flows \union Collections)
    /\ reason = [run |-> None, timer |-> None]
    /\ consents = {} /\ tokens = {} /\ recent = {} /\ policy = {}
    /\ cmd = None /\ advice = None /\ followed = FALSE /\ refusals = 0
    /\ requested = {}
-------------------------------------------------------------------------------
(* Requirements and logins *)

\* LoginManager.add_requirement, once per option: a later one replaces an
\* earlier one for the same resource server.
Requirements(targets) ==
    [rs \in Roots(Range(targets)) |->
        {targets[Max({i \in DOMAIN targets : Head(targets[i]) = rs})]}]

\* Fault: consents are not looked at, only tokens.
HasLogin_TokenOnly(rs, req) == rs \in tokens

\* LoginManager.has_login.  A requirement without dependencies asks for the root
\* scope in the tokens, one with dependencies for the consent.
HasLogin(rs, req) ==
    /\ rs \in tokens
    /\ rs \in DOMAIN req => \A p \in req[rs] : Len(p) > 1 => p \in consents

\* LoginManager.is_logged_in, with the requirements of the login command.
IsLoggedIn(req) == \A rs \in Services \union DOMAIN req : HasLogin(rs, req)

\* What a login flow for these scopes leaves behind.  The session parameters of
\* the flow hold for the tokens it issues and no others.
LoggedIn(paths, with_policy) ==
    LET issued == Roots(paths) IN
    /\ consents' = consents \union Dependent(paths)
    /\ tokens' = tokens \union issued
    /\ recent' = recent \union (issued \intersect Endpoints)
    /\ policy' = IF with_policy THEN policy \union (issued \intersect FlowServers)
                                ELSE policy \ issued

\* globus login
LoginCommand(targets, force) ==
    IF ~force /\ IsLoggedIn(Requirements(targets))
    THEN UNCHANGED session
    ELSE LoggedIn(LoginScopes \union UNION Range(Requirements(targets)), FALSE)

\* globus session consent: these scopes, and the ones every login asks for.
ConsentCommand(paths) == LoggedIn(paths \union {<<"auth">>}, FALSE)

\* globus session update: the login's scopes, and these.  It asks for a login to
\* Globus Auth itself: a user who has lost that is told to log in, and starts anew.
UpdateCommand(paths) == "auth" \in tokens /\ LoggedIn(LoginScopes \union paths, TRUE)
-------------------------------------------------------------------------------
(* What a command checks, and what it says *)

\* LoginManager.requires_login
ServicesOf(c) ==
    CASE c.name \in {"ls", "gcs"} -> {"transfer"}
      [] c.name = "guest" -> {"auth", "transfer"}
      [] c.name = "timer_transfer" -> {"auth", "timers", "transfer"}
      [] c.name = "timer_flow" -> {"auth", "flows", "timers"}
      [] c.name \in {"flow_show", "flow_start", "run_resume"} -> {"auth", "flows", "search"}
      [] c.name = "timer_resume" -> {"timers"}

\* A check that fails says one of these.
Check(holds, says) == [holds |-> holds, says |-> says]

\* MissingLoginError
LoginFor(target, force, c) == {Advice("login", <<target>>, force, c)}
Requires(target, c) ==
    Check(HasLogin(Head(target), Requirements(<<target>>)), LoginFor(target, FALSE, c))

\* emit_message_for_gare
GareAdvice(gare, then) ==
    {Advice(IF gare.policy THEN "update" ELSE "consent", gare.scopes, FALSE, then)}

\* A call about flow f with the tokens of rs.  The service may ask for a session
\* that satisfies its policies; FlowScopeInjector adds the scope of the flow.
FlowSession(f, rs, injected, c) ==
    Check(f \in high_assurance => rs \in policy,
          {Advice("update", scopes, FALSE, c) : scopes \in injected})
Injected(f) == {{<<f>>}}

\* FlowIdResolver.resolve is a search that may find nothing.
InjectedIfFound(f) == {{<<f>>}, {}}

\* Fault: the command to run after the session was updated checks again.
InactiveReason_CheckAgain(r, c) ==
    IF c.skip \/ r = None THEN <<>>
    ELSE <<Check(r.scopes \subseteq consents, GareAdvice(r, c)),
           Check(~r.policy, GareAdvice(r, c))>>

\* check_inactive_reason of runs and timers: consents can be looked up, whether
\* the session satisfies a policy cannot.
InactiveReason(r, c) ==
    IF c.skip \/ r = None THEN <<>>
    ELSE <<Check(r.scopes \subseteq consents, GareAdvice(r, c)),
           Check(~r.policy, GareAdvice(r, [c EXCEPT !.skip = TRUE]))>>

\* Fault: a session that timed out is answered with a plain login.
GuestChecks_NoForce(c) ==
    LET target == DataAccessTarget(c.collection) IN
    <<Requires(target, c),
      Check(c.collection \in high_assurance => Head(target) \in recent,
            LoginFor(target, FALSE, c))>>

\* globus gcs collection create guest
GuestChecks(c) ==
    LET target == DataAccessTarget(c.collection) IN
    <<Requires(target, c),
      Check(c.collection \in high_assurance => Head(target) \in recent,
            LoginFor(target, TRUE, c))>>

\* A Transfer call on a collection that has data access; consent_required_hook.
ListChecks(c) ==
    <<Check(RequiresDataAccess(c.collection) => DataAccess(c.collection) \in consents,
            {Advice("consent", {DataAccess(c.collection)}, FALSE, c)})>>

\* globus timer create transfer
TimerTransferChecks(c) ==
    LET needed == {TimerDataAccess(d) : d \in {d \in c.collections : RequiresDataAccess(d)}} IN
    <<Check(needed \subseteq consents, {Advice("consent", needed \ consents, FALSE, c)})>>

\* The checks of a command and of the services it calls, in their order.
ChecksAfterLogin(c) ==
    CASE c.name = "ls" -> ListChecks(c)
      [] c.name = "gcs" -> <<Requires(<<c.endpoint>>, c)>>
      [] c.name = "guest" -> GuestChecks(c)
      [] c.name = "timer_transfer" -> TimerTransferChecks(c)
      [] c.name = "flow_show" -> <<FlowSession(c.flow, "flows", Injected(c.flow), c)>>
      [] c.name = "flow_start" ->
            <<Requires(<<c.flow>>, c), FlowSession(c.flow, c.flow, Injected(c.flow), c)>>
      [] c.name = "timer_flow" ->
            <<FlowSession(c.flow, "flows", {{}}, c), Requires(<<"timers", c.flow>>, c)>>
      [] c.name = "run_resume" ->
            <<FlowSession(c.flow, "flows", InjectedIfFound(c.flow), c),
              Requires(<<c.flow>>, c)>>
            \o InactiveReason(reason.run, c)
            \o <<FlowSession(c.flow, c.flow, Injected(c.flow), c)>>
      [] c.name = "timer_resume" -> InactiveReason(reason.timer, c)

Checks(c) ==
    <<Check(ServicesOf(c) \subseteq tokens, {Advice("login", <<>>, FALSE, c)})>>
    \o ChecksAfterLogin(c)

FailedChecks(c) ==
    LET checks == Checks(c) IN {i \in DOMAIN checks : ~checks[i].holds}
-------------------------------------------------------------------------------
(* The user *)

Run(c, earlier) ==
    /\ followed' = FALSE
    /\ requested' = {}
    /\ UNCHANGED <<high_assurance, session>>
    /\ LET failed == FailedChecks(c) IN
       \/ /\ failed = {}
          /\ cmd' = None
          /\ advice' = None
          /\ refusals' = 0
          /\ reason' = CASE c.name = "run_resume" -> [reason EXCEPT !.run = None]
                         [] c.name = "timer_resume" -> [reason EXCEPT !.timer = None]
                         [] OTHER -> reason
       \/ /\ \E i \in failed :
                /\ \A j \in failed : i <= j
                /\ advice' \in Checks(c)[i].says
          /\ cmd' = c
          /\ refusals' = earlier + 1
          /\ UNCHANGED reason

\* The user runs some command,
Invoke(c) == Run(c, 0)

\* does what the last refusal said,
Follow ==
    /\ advice # None
    /\ ~followed
    /\ followed' = TRUE
    /\ CASE advice.kind = "login" -> LoginCommand(advice.targets, advice.force)
         [] advice.kind = "consent" -> ConsentCommand(advice.targets)
         [] advice.kind = "update" -> UpdateCommand(advice.targets)
    /\ requested' = IF advice.kind = "login" THEN Range(advice.targets) ELSE {}
    /\ UNCHANGED <<high_assurance, reason, cmd, advice, refusals>>

\* and runs the command again.
Retry == followed /\ Run(advice.then, refusals)

\* Something else happens; the user starts anew.
Elsewhere ==
    /\ cmd' = None /\ advice' = None /\ followed' = FALSE /\ refusals' = 0
    /\ UNCHANGED high_assurance

\* The user logs in unasked, with options.
Login(targets, force) ==
    /\ LoginCommand(targets, force)
    /\ requested' = Range(targets)
    /\ Elsewhere
    /\ UNCHANGED reason

\* globus logout, with --delete-client the consents go with the client.
Logout(delete_client) ==
    /\ tokens' = {} /\ recent' = {} /\ policy' = {}
    /\ consents' = IF delete_client THEN {} ELSE consents
    /\ requested' = {}
    /\ Elsewhere
    /\ UNCHANGED reason

\* Sessions age.
SessionExpires ==
    /\ recent' = {} /\ policy' = {}
    /\ requested' = {}
    /\ Elsewhere
    /\ UNCHANGED <<reason, consents, tokens>>

\* A consent is withdrawn in the web application.
Withdraw(p) ==
    /\ p \in consents
    /\ consents' = consents \ {p}
    /\ requested' = {}
    /\ Elsewhere
    /\ UNCHANGED <<reason, tokens, recent, policy>>

\* Fault: the session of the tokens is remembered longer than they are.
LoseTokens_KeepSession(rs) ==
    /\ rs \in tokens
    /\ consents' = {p \in consents : Head(p) # rs}
    /\ tokens' = tokens \ {rs}
    /\ requested' = {}
    /\ Elsewhere
    /\ UNCHANGED <<reason, recent, policy>>

\* The consent to a root scope is withdrawn, or a token expires unused.
LoseTokens(rs) ==
    /\ rs \in tokens
    /\ consents' = {p \in consents : Head(p) # rs}
    /\ tokens' = tokens \ {rs} /\ recent' = recent \ {rs} /\ policy' = policy \ {rs}
    /\ requested' = {}
    /\ Elsewhere
    /\ UNCHANGED reason

\* A run or a timer becomes inactive.
Pause ==
    /\ reason = [run |-> None, timer |-> None]
    /\ \/ \E r \in Reason(RunScopes) : reason' = [reason EXCEPT !.run = r]
       \/ \E r \in Reason(TimerScopes) : reason' = [reason EXCEPT !.timer = r]
    /\ requested' = {}
    /\ Elsewhere
    /\ UNCHANGED session

Next ==
    \/ \E c \in Commands : Invoke(c)
    \/ Follow
    \/ Retry
    \/ \E targets \in BoundedSeq(Targets, MaxTargets), force \in BOOLEAN : Login(targets, force)
    \/ \E delete_client \in BOOLEAN : Logout(delete_client)
    \/ SessionExpires
    \/ \E p \in Paths : Withdraw(p)
    \/ \E rs \in Revocable : LoseTokens(rs)
    \/ Pause

Spec == Init /\ [][Next]_vars
-------------------------------------------------------------------------------
\* Doing what a refusal says changes something: the command that the user was
\* told to run again is not refused with the same words.  The check that failed
\* and the command that is to repair it are different pieces of code, some of
\* them in different commands, and "You are already logged in!" is one way for
\* them to disagree.
RemedyHelps == [][refusals > 0 /\ refusals' > refusals => advice' # advice]_vars

\* A user who does what he is told gets there: no command is refused more often
\* than this, although a remedy can undo an earlier one: a login for a flow drops
\* the session that was updated for the Flows service.  It takes 7 to resume a run
\* that waits for consents of another flow, 6 otherwise.
FewRefusals == refusals <= 7

\* globus login --help: --gcs, --flow and --timer name what "permissions will be
\* requested" for, and can be given many times.  A login that reports success
\* leaves every target usable.
LoginCoversTargets ==
    \A t \in requested : Head(t) \in tokens /\ (Len(t) > 1 => t \in consents)
===============================================================================
