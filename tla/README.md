# Verification of the Globus CLI

TLA+ models of `globus-cli`, checked with TLC, and proofs about them, checked with
TLAPS.  Source paths are relative to `src/src/globus_cli/` unless they begin with
`src/`.

## The system

The CLI is a short-lived process per command.  What survives a command is one SQLite
file, `~/.globus/cli/storage.db`, which all CLI processes of a user share, and what
Globus Auth and the other services remember.  Inside a process everything is
sequential, with one exception: the login flow runs a small HTTP server in a thread.

| Part | Where | State | Hard behaviour | What makes it correct |
|---|---|---|---|---|
| Token and configuration storage | `login_manager/storage.py`, `_old_config.py` | tokens by resource server, identity, client, contract versions | every adapter operation is its own transaction; crash between two; several processes | versions never promise more than the tokens hold; old configuration is cleaned up before it is forgotten |
| Login flow | `login_manager/auth_flows.py`, `commands/login.py`, `commands/session/` | the tokens in hand | check and store are separate; tokens of a refused login must be revoked | one identity per session |
| Logout | `commands/logout.py` | position in the revocation loop | network errors in the middle, retries, `--ignore-errors` | nothing is forgotten unrevoked; success means an empty session |
| Login checks, clients | `login_manager/manager.py` | cached client and consents | tokens are read again after the check; refresh | services are called with tokens of the contract they require |
| Local login server | `login_manager/local_server.py` | queue of answers, two threads | unrelated and idle connections, timeout, shutdown | the first answer decides, the page agrees with the result, the flow ends |
| Recursive listing | `services/transfer/recursive_ls.py` | stack of directories, lazy generator | cycles, empty directories, failure half-way, items renamed in place | the listing is the one `ls -R` means; bounded memory |
| Task waiting | `commands/_common.py`, used by `task wait` and `rm` | seconds waited | a task that changes at any moment, intervals that do not divide the timeout | exit status, neither too early nor endless |
| Scopes and requirements | `login_manager/scopes.py`, `manager.py` | requirements by resource server | dependent scopes, repeated requirements | suggested logins resolve what is missing |
| Command framework | `parsing/`, `exception_handling/` | command state filled by eager callbacks | order of options, hook selection | exit codes and formats as documented |
| Paging and batches | `utils.py`, `services/transfer/data.py`, `parsing/param_types/task_path.py` | one item of look-ahead, parameter objects shared by all lines | an error in the middle | what is submitted is what was written, or nothing |
| Commands | `commands/` | what they have changed and printed | every call may fail, and clients are made late; the answer to a submission may be lost | logins are asked for first, what was changed is reported, nothing is done twice |
| Client logins | `login_manager/client_login.py` | two environment variables | checks pass without tokens, one variable of two | no advice to log in |
| Output | `termio/` | none | formatters that call services or refuse a document | one document on stdout for programs |

`PROJECT.json` lists every part with its status, and under `hazards` the places in
the code where something could go wrong that a test would hardly reach.

## Modules

```
GlobusAuth  <-  CLIStorage  <-  LoginSession  <-  MCLoginSession
                                LoginSession  <-  LoginSession_proofs <- LoginContract_proofs,
                                                                         LoginIdentity_proofs
                                AuthSession (abstract, INSTANCEd by LoginSession)
LocalServer <-  MCLocalServer,  LocalServer_proofs
RecursiveLs <-  MCRecursiveLs,  RecursiveLs_proofs
TaskWait    <-  MCTaskWait,     TaskWait_proofs
AuthRemedies <- MCAuthRemedies, AuthRemedies_proofs
CommandState <-                  CommandRun
Scripts      <-                  CommandRun  <-  CatalogConditions  <-  MCCommandRun,
                                                                   CommandRun_proofs
Scripts      <- FileCommands, GroupCommands, FlowsCommands, SearchCommands, TimerCommands,
                BookmarkCommands, CollectionCommands, EndpointCommands, MiscCommands
                (the catalogue, INSTANCEd by MCCommandRun)
```

### Login sessions

* `GlobusAuth` is the external service.  A *grant* stands for one token response: its
  identity, the client it was issued to and the scope contract it was requested under.
  `live` holds the tokens that can still be used.
* `CLIStorage` has one variable per thing in the storage namespace and one operator per
  transaction (`adapter.store`, `remove_tokens_for_resource_server`,
  `store_well_known_config`).  `MarkCurrent` is the second half of `CLIStorage.store`,
  which writes back the versions it read before.
* `LoginSession` composes both with any number of CLI processes.  `cli[p]` holds a
  process's program counter and memory.  A step is one storage transaction or one remote
  call with the local work up to the next one; `RemoteFailure` (a network error, or an
  error response no handler expects) and `Crash` may come at any of them.
  * opening the storage: `OpenStorage`, `RevokeOldTokens`, `DeleteOldClient`,
    `CreateStorage` (`CLIStorage._construct_adapter`, `invalidate_old_config`);
  * checks: `HasLogin`, `MeetsContract`, `ValidateToken` (`LoginManager.has_login`);
  * the auth client: `NeedClient`, `ReadClient`, `RegisterClient`, `SaveClient`
    (`cli_confidential_client`);
  * using a login: `LoadTokens`, `CallService`, `RefreshToken`, `CallFails`
    (`_get_client_authorizer` and its `on_refresh=storage.store`);
  * logging in: `ExchangeCode`, `AbandonFlow`, `CheckUser`, `StoreUser`,
    `StoreTokenData`, `ReadVersions`, `StoreContractVersions`
    (`exchange_code_and_store`, `CLIStorage.store`);
  * logging out: `CallService` for the userinfo lookup, `ForgetClient`, `DropVersions`,
    `DeleteClient`, `ListTokens`, `RevokeAccess`, `RevokeRefresh`, `ForgetTokens`,
    `EndRevoking`, `RemoveUser` (`logout_command`, `delete_templated_client`).
* `AuthSession` is what a session promises: it belongs to one identity, resource servers
  are added for that identity only, and it has to be empty before it can belong to
  somebody else.  `LoginSession` implements it when one command runs at a time
  (`RefinesSession`, with the identity of the tokens as the refinement mapping).

Abstractions to know about: the scopes in a token are represented by the contract they
were requested under, and `MeetsContract` may find that the scope string falls short at
any time; the revocations of up to four old tokens are one step; client logins
(`GLOBUS_CLI_CLIENT_ID`) keep no session and are in `CommandRun`; an id token that cannot be
decoded counts as an error of `check_user`.

Not covered: which of two clients registered at once stays in the storage (tokens issued to
the other cannot be refreshed), and the revocations of a refused login when the network
fails between them.

Things the models make visible that are intended or harmless and are not treated as
errors: a refresh stores the current contract version for a service that requires
version 0, even for older tokens; `session consent` stores tokens for arbitrary scopes
with the current version; `login --force` replaces tokens without revoking the old ones;
and when the id token cannot be decoded the tokens just issued stay valid, unstored.

### Local login server

`LocalServer` has three actors.  The main thread (`setup`, `wait`, `shutdown`, `decide`,
`ended`) is `do_local_server_auth_flow` with `start_local_server` and `wait_for_code`.
The server thread accepts one connection at a time; writing the page and putting the code
in the queue are separate steps, as they are in `do_GET`, and reading from or writing to a
connection that has gone raises, which `handle_error` turns into an answer.  The browser
may open connections, send the redirect, send anything else, stay silent or leave.
`do_link_auth_flow` has no such thread; `LoginSession` models both flows from the code on.

### Recursive listing

`RecursiveLs` chooses any graph of directories in its initial state.  `ListNext` is one
turn of the `while dir_queue` loop, `TakeFirst` the constructor's `next()`, `YieldFirst`
and `YieldItem` are `__iter__`.  Paths are sequences of names; `DirAt` follows them as the
endpoint does.  `Expected` is the reference definition: what a recursive listing to a
depth limit means.  The pauses of the rate limiter, filters, and the layout of the
output are left out, and the file system does not change during a listing (a directory
that disappears is a call that fails).

### Task waiting

`TaskWait` has the loop of `transfer_task_wait_with_io`, for `task wait` and, from its
confirmation on, for `rm`.  Each turn is a call of the SDK's `task_wait`, which looks at
the task, sleeps for the interval and looks again.  The task changes at any moment and
time may pass at any point, not only while the command sleeps, because calls are slow.  Both
go on when the command has exited, so that what it said can be held against what the task
did later.

### Requirements and remedies

`AuthRemedies` is about the conversation between the CLI and its user.  A command checks
logins and consents, the service it calls checks the session, and each refusal prints a
command that is to remedy it.  The checks and the remedies are in different files, and
nothing but their agreement gets the user to the end.

* State: `consents` in Globus Auth (paths of dependent scopes), `tokens` in the storage,
  `recent` and `policy` for what is known of the session of these tokens, the inactive
  `reason` of a run and of a timer, and the dialogue: `cmd`, `advice`, `followed`,
  `refusals`, `requested`.
* A command is one step, `Invoke` or `Retry`: the first of `Checks(c)` that fails decides
  what it says.  `Checks` lists them in the order of the code: `requires_login`, then what
  the command and its service check (`ListChecks`, `GuestChecks`, `TimerTransferChecks`,
  `FlowSession`, `InactiveReason`).  `Follow` runs the suggested `login`, `session consent`
  or `session update`; the user may instead do anything else.
* In between sessions age, consents are withdrawn, tokens are lost, runs are paused.

Abstractions: one root scope per resource server, whose tokens stand for the consent to
it; the parameters of a session hold for the tokens issued with it and no others; `recent`
is of interest for the endpoints and `policy` for the servers of flows only; contract
versions, identities, races and crashes are in `LoginSession`.  Refusals in JSON format
name no command and are left out, as are client logins, which cannot follow one.  `ls`,
`gcs`, `guest` and so on stand for the commands with the same checks.  Tokens of the
static services are lost together (`Logout`); those of a flow and of Globus Auth also alone
(`Revocable`).  `session update` needs the login to Auth itself and refuses without it; the
user then starts anew, and that branch is not counted by `RemedyHelps` and `FewRefusals`.

### Commands

A command is modelled by what services, the user and the command state can tell of it:
a *script*, the sequence of its logins, clients, calls, checks and outputs.  `Scripts` is
the language; the catalogue modules translate the handlers under `commands/`, one
definition per handler and one module per group of commands.  Where a handler goes two
ways because of an option or of what a service said, it has several scripts.  All commands
are there but the login ones, which the models above are about.

`CommandRun` runs a script of any command, from its options to its exit status:

* `ReadOptions` (in `CommandState`) calls the callbacks of the common options, in the
  contexts of the group and of the command, with click's rule that eager ones come first;
  `RefuseCommandLine` is everything click refuses; `Invoke` begins with the handler.
* One action per kind of step: `CheckLogins`, `GetClient`, `CheckArguments`, `Call`,
  `Change`, `Submission`, `BatchLine` and `BatchEnds`, `LookUpNames`, `Display`,
  `EchoLine`, `ExitStep`, `Return`.  Each of them succeeds or raises what the code or the
  service can raise there: a missing login, a usage error, an API error of each kind a hook
  looks at, a requirement, a network error before or after the call was carried out.
* `Raise` goes through the hooks of `exception_handling`: `ApiStatus`, `MappedStatus` and
  `RequirementsStatus` choose the status in the order in which hooks are registered.
* `Repeat` is the user who repeats a command line with a submission ID after a network
  error; `AcceptTask` is what Transfer promises about the ID.
* `credentials` says whose login it is.  A client (`GLOBUS_CLI_CLIENT_ID` and
  `GLOBUS_CLI_CLIENT_SECRET`) passes every check, leaves out what is for users
  (`LeaveOut`) and requests its tokens when a client object is made; with one of the two
  variables the first `LoginManager` raises.

`CatalogConditions` says of a catalogue, without running it, in which order its steps must
be for the invariants to hold: what may follow a change (`ReportedFrom`), that something is
shown once (`ShowsOnce`; `ShowsAtMostOnce` for the command in `Undocumented`) or the command
cannot succeed (`NeverSucceeds`), which logins stand before a client (`ClientsBacked`), that
a line follows each change (`Announced`).  They are assumptions; TLC evaluates them for all the scripts of the catalogue when the run `commands`
starts, which then checks the invariants of the commands in every state.

Abstractions to know about: documents are not modelled, so a service or a check accepts
or refuses arguments as it likes (`Reject` and the API errors); a listing reads one page or
two, and `UpTo` bounds repeated calls at the point where one more shows nothing new;
formats are text, JSON and unix, and a JMESPath expression is there or not.

What this model shows that is neither a violation of a property nor, perhaps, intended:

* `collection role list` and sixteen others (`AuthUnasked`) use the auth client without
  asking for its login, and end with a `ValueError` and status 1 where a missing login has
  a message and status 4.  `requires_login("auth")` would be one word more; as it is, users
  have that login from `globus login`.
* In JSON format `json_error_handler` comes before the hooks for consents and sessions, so
  that these errors end with status 1, although the reference (`src/reference/_generate.py`)
  gives 4 to "ConsentRequired errors" without an exception.  `DocumentedStatus` says what the
  code does and names each way in which a missing login, consent or session does not give 4.
  The requirements that the CLI raises itself print text to stdout in JSON format, and those
  that `FlowScopeInjector` makes of a 403 ignore `--map-http-status` in text.
* `whoami --linked-identities` without the consent for it ends with status 0 and nothing on
  stdout, in every format: the `KeyError` becomes a message on stderr.  It is the only
  command of its kind (`Undocumented`).
* A document that cannot be printed as lines (`--format unix`) ends with status 2 after the
  change was made; so do a JMESPath type error, with 1, and a name lookup that fails while
  text is formatted.  `ChangedMeansReported` allows for these and for nothing else.
* `group leave` and `group invite accept` end with status 0 when some of several actions
  failed.  `flows run show-logs` reads the run again after its document was printed, and may
  fail then.  `timer create flow` turns a 404 into a usage error.  `cli-profile-list` may print
  two documents and `api -v` puts the headers before its document: both are among
  `FreeText`, whose output is not for programs.  `--help` on a line of a batch ends the
  command with status 0 and nothing submitted.
* `task cancel --all` prints a line per task in text, but in JSON only a document at the end,
  which does not appear when a later cancellation fails.
* `--jmespath` "forces the format to be json", but not if it is unix.
* For clients: the tokens for the output of `collection create guest` are requested when
  the collection exists already, and a timed out session is answered with `globus login`,
  which refuses clients.

## Runs

| Run | Instance | Shows |
|---|---|---|
| `session_serial` | 1 process at a time, 2 identities, 2 resource servers (one with contract 0, one with 2), sessions none/old/current, network, API and crash faults | `TypeOK`, `SessionIdentity`, `RemovedOnlyRevoked`, `LogoutComplete`, `RefusedLoginRevoked`, `RefinesSession` |
| `session_concurrent` | 2 processes, fresh or old storage, `logout --delete-client` | `StaticCheckSound`, `CallsMeetContract`, `OldTokensRevoked`, `StoredClientExists` survive concurrency |
| `session_identity_race` | 2 first logins | violation of `SessionIdentity` |
| `session_logout_retry` | logout, network errors | violation of `LogoutRetry` |
| `session_delete_retry` | `logout --delete-client`, API errors | violation of `DeleteRetry` |
| `local_server` | 3 connections, fairness of the two threads only | `ResultMatchesPage`, `NothingServedAfterShutdown`, `WaitEnds`; `CodeDelivered` and `FlowEnds`, if the browser closes what it opened |
| `recursive_ls` | all 169 graphs of 2 directories with up to 2 entries, depth limits 0 to 3 | `ListsInOrder`, `QueueOnSpine` |
| `task_wait` | intervals 1 to 3, timeouts 0, 1, 2, 4 and none | `EndNotMissed`, `NotTimedOutEarly`, `OvershootBounded`, `WaitEnds`, `NoticesEnd` |
| `task_wait_inactive` | interval 1, timeout 4 or none | violation of `SuccessInTime` |
| `remedies` | 1 endpoint with 1 collection, 1 flow, login options one at a time; every choice of high assurance | `RemedyHelps`, `FewRefusals`, `LoginCoversTargets` |
| `login_targets` | 2 flows, 2 options on a login | violation of `LoginCoversTargets` |
| `commands` | the whole catalogue with up to 3 common options; handlers in 6 command states, for a user, a client and half a client; batches of 2 lines, 2 repetitions | `QuietWins`, `FormatAsGiven`, `ChangedMeansReported`, `OneDocument`, `SubmittedOnce`, `BatchAsWritten`, `ClientsHaveLogins`, `DocumentedStatus`, `CancelledAreListed`; the assumptions of `CatalogConditions` |

The five violations are disagreements between the code and its own text:

1. two first logins at once leave the tokens of one identity beside the name of another,
   although the docstring of `exchange_code_and_store` says that it checks this;
2. a logout that lost the network after it removed the Auth tokens cannot "try again":
   the next one needs those tokens before it reaches its loop;
3. a `logout --delete-client` whose DELETE failed has forgotten the client: "try logging
   out again" registers a new client and deletes that one;
4. `login --timer flow:A --timer flow:B` reports success and has asked for `B` only,
   because `add_requirement` replaces what an earlier option required of the same resource
   server (`--gcs E:C --gcs E` likewise);
5. `task wait` ends with status 1 at once when it finds a task INACTIVE, because that is
   complete for the SDK; its owner may resume the task and it may succeed long before the
   timeout, for which the docstring promises status 0.  (A timeout of 0 or less breaks that
   promise too: the command ends before it looks at the task, so that one which has
   succeeded "has yet to complete".)

No run is needed for two smaller ones: the traversal that the docstring of
`recursive_ls.py` calls BFS pops the directory queued last and is depth-first (`Expected`,
in pre-order, is what it yields); and an authentication requirement that names neither
scopes nor identities, domains or policies ends with status 4 and no remedy at all
(`emit_message_for_gare`).

### Bounds

`MaxGrants` (token responses) and `MaxClients` bound what Globus Auth issues.  Two
resource servers are enough to have one whose contract version matters and one, Auth,
whose version does not but whose token the commands themselves need; two grants are
enough for a first and a second identity.  Two clients (in `session_concurrent`) let both
processes of a fresh install find none and register one each.  Two processes are enough for a
lost update or a check that is stale.
`session_concurrent` has `CHECK_DEADLOCK FALSE` because after a deletion no further
client can be registered within `MaxClients`.  With three connections one can be
answered, one be in the server thread and one wait.  Two directories give trees, sharing
and cycles of length one and two, and a limit of 3 makes every cycle come round.  In
`TaskWait` clocks stop at `Horizon`, which is past every timeout by the longest interval, so
that comparisons are those of unbounded clocks.  In `AuthRemedies` one of each kind is enough
for a check and its remedy, and `MaxTargets` 2 for an option to replace another.  The bound of seven in
`FewRefusals` is that of `FewTheorem`: with one flow TLC reaches six (resuming a run with
every requirement, the session of the Flows tokens undone by a login for the flow), the
seventh is for a run that waits for consents of another flow, and a remedy that leads
nowhere exceeds any bound.

In `commands` three options are enough for two that disagree and one in the other context
(`MaxOptions`); the handlers run in the six `MCSettings`, which contain every format, an
expression, `-v`, and statuses mapped to 0 and to another, because what a handler does
depends on the command state in no other way.  Two lines (`MaxLines`) make a shared
parameter object overwrite the first, and two repetitions (`MaxAttempts`) meet an ID that
was used once, twice or never.  `CHECK_DEADLOCK FALSE`: a command ends.

### Fairness

The login models and `CommandRun` have safety properties only.  In `LocalServer`, `FairSpec` assumes that
the scheduler runs both threads and that `Queue.get` keeps its timeout; `WaitEnds` needs
nothing else, in particular nothing of the browser.  `FlowEnds` and `CodeDelivered` have
the hypothesis `BrowserCloses`: `shutdown()` waits for the request that is being read, the
handler has no socket timeout, and with a connection that stays open and silent for ever
the command would hang (without the hypothesis TLC finds `FlowEnds` violated).  In `TaskWait` time passes
and the process runs; nothing is assumed of the task, which need not end.

## Proofs

All for arbitrary constants that satisfy the assumptions in the modules.

* `LoginSession_proofs`: `TypeCorrect`, for any number of processes, identities, resource
  servers and faults.  The invariant adds to `TypeOK` that a process in the login part of
  a command holds a non-empty response, so that "the identity of the new tokens" exists.
* `LoginContract_proofs`: `StaticCheckTheorem` and `CallsMeetTheorem`.  `StaticCheckSound`
  is not inductive: another process may be about to write versions it read earlier, beside
  tokens it refreshed.  The invariant `ContractInv` says in addition, per process, that
  the tokens it carries after a check, or refreshed, and the versions it has read are
  backed by tokens of a contract that satisfies the service; it rests on the fact that
  tokens in the storage are only replaced by ones of the current contract or by refreshed
  ones that were checked before.
* `TaskWait_proofs`: `TypeCorrect`, `NotEarlyTheorem`, `EndNotMissedTheorem` and
  `OvershootTheorem`, for all intervals, timeouts and caps.  The invariant relates the
  seconds that were counted to those that passed (`CountedTimePassed`: the current sleep
  completes the interval counted next) and says that a task the loop has not noticed ended
  after the last look (`NotMissed`), and that another round is begun only before the
  timeout (`InTime`).

* `CommandRun_proofs`, for every catalogue of commands whose scripts have the steps of
  `Scripts` and read a batch before they change anything (`CatalogAssumption`,
  `BatchAssumption`, which TLC checks for the real one), every bound and every set of
  statuses that `--map-http-status` accepts:
  `TypeCorrect`; `QuietTheorem`, for which verbosity is never below -1; `FormatTheorem`,
  whose invariant says what the format is in terms of the set of options so far, whichever
  came first, as long as `--format` is not in both contexts; `StatusTheorem`: the status is
  that of the error (`StatusInv`), from which the meaning of 0, 4 and the mapped ones,
  and the cases in which a missing login, consent or session gives neither, follow by
  going through the kinds of errors; `SubmittedOnceTheorem`: a repeated command
  line that has its submission behind it has brought about the task, before or now;
  `BatchTheorem`: what is left of a script has its batch first, and nothing was changed
  while there is still one to read.

  Four more theorems rest on the assumptions of `CatalogConditions`, one on each:
  `ReportedTheorem`, `DocumentTheorem`, `ClientsTheorem` and `AnnouncedTheorem`.  They carry
  what can be read off a script over to its runs, where every step may fail, clients leave
  steps out, and what has been done so far counts like what is to come.  `StepKinds` sorts
  the actions once for all of them: a step begins a run, takes or leaves out the first step
  that is left, stays where it is, or ends the run with an error that this step can raise.
  The invariants then say of the steps that are left what the condition says of a whole
  script, given what is behind them: the logins that were checked (`Backed`, `Checked`), a
  change that was confirmed (`ReportedSteps`), the document that was printed
  (`DocumentDue`), a line that is owed (`Balance`).

* `LoginIdentity_proofs`, about what happens when nothing locks the storage.  Between the
  check of a new identity and the transactions that store it, and between the list of tokens
  of a logout and the removal of the identity, another command may come, and the run
  `session_identity_race` shows what it may do.  Hence the hypotheses: `Alone` (at most one
  command at a time, any number one after the other) or `Shared` (any number at a time, but
  somebody is logged in at the beginning and no command logs out).  `session_serial` is an
  instance of the first; no run has the second, under which the stored identity is constant
  and the check of each new one is what counts.  `SessionIdentityTheorem` holds in either:
  `IdentityInv` says, per
  process and position, whose tokens it carries and that the identity it is about to store
  or has just stored is theirs.  Under `Alone`, `SessionImplements` is the refinement of
  `AuthSession` step by step (a step that writes tokens or the identity is one of its steps,
  all others stutter), `LogoutTheorem`, `RevokedTheorem` and `RefusedTheorem` are the action
  properties `LogoutComplete`, `RemovedOnlyRevoked` and `RefusedLoginRevoked`, with
  invariants about what has been revoked so far in each loop.  `StoredClientTheorem`
  (`StoredClientExists`) and `OldTokensTheorem` have no hypothesis.  The first rests on
  `ClientInv`: a client that is registered and not stored yet is in the hands of one process,
  and one that is about to be deleted has been seen to be gone from the storage, to which
  nobody can return it.  That is why it is forgotten first and then deleted.
* `LocalServer_proofs`, for any finite set of connections: `TypeCorrect`, `ResultTheorem`,
  `ShutdownTheorem`.  `ServerInv` says that a connection is in one place at a time (in the
  backlog, with the server, in the queue as an answer, or taken from it): otherwise a
  second request on a connection could change the page that was shown for the first.
* `AuthRemedies_proofs`, for any endpoints, collections and flows.  `Carried` says what a
  remedy leaves behind, and `RemedyInv` that it still does while the user has only followed
  it: so each check holds once its remedy was carried out, and `RemedyTheorem` (a command
  run again is not refused with the same words) follows check by check.  `TargetsTheorem`:
  a login that reports success covers its targets wherever no two of them share a resource
  server; `CoversTheorem` is the case of one option.  `FewTheorem` bounds the refusals by
  seven for every command: `Effort` is the number of refusals still possible, counting those
  that carrying out a remedy will cause, and `FollowLessens` that following a remedy
  lessens it by one (`Counted` is the invariant; it remembers why the command was refused).
* `RecursiveLs_proofs`, for every file system, cycles included, any depth limit and any
  number of entries: `TypeCorrect`, `SpineTheorem` and `OrderTheorem`.  `Ordered` says that
  what the consumer was given, the item that the constructor holds, the names not handed
  out and what the queue will contribute from its end on make up the whole listing.  The
  lemma `Relisted` is one turn of the loop: a directory contributes its names, and
  the directories in it, queued in reverse, contribute what is below it.  `Spine` is about
  the parents of what is queued: each is an ancestor of those queued later.

Induction over numbers is used there in the form of `Induction`, about a set of numbers,
which follows from the least element of a set (`WFMin`); the theorems of the library with an
operator for a parameter cannot be instantiated.  So `DirAt`, `Subdirs` and `Expected` are
recursive functions, whose equations are proved first (`DirAtUnfolds`, `SubdirsOf`,
`ExpectedUnfolds`).

Only model-checked: liveness under fairness (`WaitEnds`, `CodeDelivered`, `FlowEnds`,
`NoticesEnd`), which is out of the prover's reach, and the assumptions about the
catalogue itself, which is data.

## Plan

1. Entity types: `endpointish` and the commands it suggests, composed with the checks of
   `AuthRemedies`.
2. Client logins in `LoginSession`: the tokens that a client's requests leave in the storage
   of its namespace, and two clients one after the other.

The runs of a component are few on purpose; a new component gets one run with several
properties rather than one for each.

## Not modelled

Layout of output (tables, records, folding), the rules by which click and the parameter
types accept arguments, the documents that are sent to services, help, shell completion and
reference documentation: none of them has state or an order of events, and all of them
are covered by ordinary tests.  `http.server`, `click`, the SDK and the services are
modelled as far as the CLI uses them and are marked external.  The hidden option
`--show-server-timing` may raise while it draws its diagram
(`termio/server_timing.py:57`), which is left out.
