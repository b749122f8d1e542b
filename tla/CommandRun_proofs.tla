-------------------------- MODULE CommandRun_proofs --------------------------
(***************************************************************************)
(* Proofs about CommandRun for every catalogue of commands, every bound    *)
(* and every set of statuses; from "What the steps of a script do" on for  *)
(* the catalogues that meet the CatalogConditions.                         *)
(***************************************************************************)
EXTENDS CatalogConditions, FiniteSetTheorems, TLAPS

HttpMaps == UNION {[S -> MappedExits] : S \in SUBSET HttpStatuses}

\* One more pair in the map of statuses.
LEMMA MapAdded ==
    ASSUME NEW f \in HttpMaps, NEW h \in HttpStatuses, NEW x \in MappedExits
    PROVE  [k \in {h} \union DOMAIN f |-> IF k \in {h} THEN x ELSE f[k]] \in HttpMaps
<1>1. PICK S \in SUBSET HttpStatuses : f \in [S -> MappedExits]
  BY DEF HttpMaps
<1>2. [k \in {h} \union DOMAIN f |-> IF k \in {h} THEN x ELSE f[k]]
        \in [{h} \union S -> MappedExits]
  BY <1>1
<1>3. {h} \union S \in SUBSET HttpStatuses
  OBVIOUS
<1> QED
  BY <1>2, <1>3 DEF HttpMaps

LEMMA DefaultsType == Defaults \in CommandStates
<1>1. [h \in {} |-> 0] \in [{} -> MappedExits]
  OBVIOUS
<1>2. [h \in {} |-> 0] \in HttpMaps
  BY <1>1 DEF HttpMaps
<1> QED
  BY <1>2 DEF Defaults, CommandStates, Formats, HttpMaps

LEMMA VerbosityType ==
    ASSUME NEW s \in CommandStates, NEW n \in Int
    PROVE  SetVerbosity(s, n) \in CommandStates
  BY DEF SetVerbosity, CommandStates

LEMMA OptionsType ==
    ASSUME state \in CommandStates, ReadOptions
    PROVE  state' \in CommandStates
<1>0. state.verbosity \in Int
  BY DEF CommandStates
<1>1. ASSUME NEW count \in 1 .. 2, verbose_callback(count) PROVE state' \in CommandStates
  BY <1>0, <1>1, VerbosityType DEF verbose_callback
<1>2. CASE debug_callback
  <2>1. SetVerbosity(state, IF state.verbosity < 3 THEN 3 ELSE state.verbosity)
            \in CommandStates
    BY <1>0, VerbosityType
  <2> QED
    BY <1>2, <2>1 DEF debug_callback, CommandStates
<1>3. CASE quiet_callback
  BY <1>3, VerbosityType DEF quiet_callback
<1>4. ASSUME NEW value \in Formats, format_callback(value) PROVE state' \in CommandStates
  BY <1>4 DEF format_callback, CommandStates
<1>5. CASE jmespath_callback
  BY <1>5 DEF jmespath_callback, CommandStates, Formats
<1>6. ASSUME NEW h \in HttpStatuses, NEW x \in MappedExits,
             map_http_status_callback([s \in {h} |-> x])
      PROVE  state' \in CommandStates
  <2>1. state.http_status_map \in HttpMaps
    BY DEF CommandStates, HttpMaps
  <2>2. [k \in {h} \union DOMAIN state.http_status_map |->
            IF k \in {h} THEN x ELSE state.http_status_map[k]] \in HttpMaps
    BY <2>1, MapAdded
  <2>3. state' = [state EXCEPT !.http_status_map =
            [k \in {h} \union DOMAIN state.http_status_map |->
                IF k \in {h} THEN x ELSE state.http_status_map[k]]]
    BY <1>6 DEF map_http_status_callback
  <2> QED
    BY <2>2, <2>3 DEF CommandStates, HttpMaps
<1>7. CASE EnterCommand
  BY <1>7 DEF EnterCommand
<1> QED
  BY <1>1, <1>2, <1>3, <1>4, <1>5, <1>6, <1>7 DEF ReadOptions
-------------------------------------------------------------------------------
(***************************************************************************)
(* Type correctness.                                                       *)
(***************************************************************************)
LEMMA ScriptType ==
    ASSUME NEW c \in Catalog, NEW s \in c.scripts
    PROVE  c.name \in Names /\ s \in Seq(Steps)
  BY CatalogAssumption DEF Names

LEMMA TodoType ==
    ASSUME todo \in Seq(Steps), todo # <<>>
    PROVE  /\ Head(todo) \in Steps
           /\ Tail(todo) \in Seq(Steps)
           /\ Head(todo).on \subseteq STRING
<1>1. Head(todo) \in Steps /\ Tail(todo) \in Seq(Steps)
  OBVIOUS
<1>2. \A step \in Steps : step.on \subseteq STRING
  BY DEF Steps
<1> QED
  BY <1>1, <1>2

LEMMA MappedType ==
    ASSUME state \in CommandStates, NEW e, NEW s \in Int
    PROVE  MappedStatus(e, s) \in Int
<1>1. PICK S \in SUBSET HttpStatuses : state.http_status_map \in [S -> MappedExits]
  BY DEF CommandStates
<1>2. MappedExits \subseteq Int
  BY OptionsAssumption
<1> QED
  BY <1>1, <1>2 DEF MappedStatus

LEMMA ApiStatusType ==
    ASSUME state \in CommandStates, NEW e
    PROVE  ApiStatus(e) \in Int
  BY MappedType DEF ApiStatus

LEMMA ErrorType ==
    /\ \A t \in {"none", "missing_login", "wrong_type", "usage", "value", "network"} :
            Raised(t) \in Errors
    /\ NoError \in Errors /\ Requirements(NoError) \in Errors
    /\ ApiErrors \subseteq Errors
    /\ \A e \in ApiErrors : Requirements(e) \in Errors
    /\ \A c \in DOMAIN ExitCodes : ExitWith(ExitCodes[c]) \in Errors
    /\ ExitWith(0) \in Errors /\ ExitWith(1) \in Errors /\ ExitWith(2) \in Errors
<1>1. /\ "success" \in DOMAIN ExitCodes /\ ExitCodes["success"] = 0
      /\ "failure" \in DOMAIN ExitCodes /\ ExitCodes["failure"] = 1
      /\ "usage" \in DOMAIN ExitCodes /\ ExitCodes["usage"] = 2
  BY DEF ExitCodes
<1>2. \A c \in DOMAIN ExitCodes : ExitWith(ExitCodes[c]) \in Errors
  BY DEF Errors
<1>3. /\ NoError \in Errors /\ Requirements(NoError) \in Errors
      /\ \A e \in ApiErrors : Requirements(e) \in Errors /\ e \in Errors
  BY Zenon DEF Errors, NoError
<1>4. \A t \in {"none", "missing_login", "wrong_type", "usage", "value", "network"} :
            Raised(t) \in Errors
  BY Zenon DEF Errors
<1> QED
  BY <1>1, <1>2, <1>3, <1>4

\* What is raised with a status of its own.
LEMMA ExitError ==
    ASSUME NEW e \in Errors, e.type = "exit"
    PROVE  \E c \in DOMAIN ExitCodes : e = ExitWith(ExitCodes[c])
  BY DEF Errors, Raised, NoError, ApiErrors, Requirements, ExitWith

LEMMA ExitStatusType ==
    ASSUME state \in CommandStates, NEW e \in Errors
    PROVE  ExitStatus(e) \in Int
<1>1. e.type = "exit" => e.code \in Int
  <2>1. \A c \in DOMAIN ExitCodes : ExitCodes[c] \in Int
    BY DEF ExitCodes
  <2> QED
    BY <2>1, ExitError DEF ExitWith
<1>2. RequirementsStatus(e.origin) \in Int
  BY ApiStatusType DEF RequirementsStatus
<1> QED
  BY <1>1, <1>2, ApiStatusType DEF ExitStatus

LEMMA FinishType ==
    ASSUME TypeOK, NEW e \in Errors, Finish(e)
    PROVE  /\ state' \in CommandStates /\ phase' \in {"options", "running", "ended"}
           /\ command' \in Names /\ todo' \in Seq(Steps) /\ attempt' \in Nat
           /\ error' \in Errors /\ status' \in Int
  BY ExitStatusType DEF TypeOK, Finish, optionVars

LEMMA RaiseType ==
    ASSUME TypeOK, NEW e \in Errors, Raise(e), UNCHANGED credentials
    PROVE  TypeOK'
  BY FinishType DEF TypeOK, Raise, made

LEMMA ProceedType ==
    ASSUME TypeOK, todo # <<>>, Proceed
    PROVE  /\ state' \in CommandStates /\ phase' \in {"options", "running", "ended"}
           /\ command' \in Names /\ todo' \in Seq(Steps) /\ attempt' \in Nat
           /\ error' \in Errors /\ status' \in Int
  BY TodoType DEF TypeOK, Proceed, optionVars

LEMMA PassType ==
    ASSUME TypeOK, todo # <<>>, Pass, UNCHANGED credentials
    PROVE  TypeOK'
  BY ProceedType DEF TypeOK, Pass, made

LEMMA InjectedType ==
    ASSUME NEW e \in ApiErrors, NEW r \in Injected(e)
    PROVE  r \in Errors
  BY ErrorType DEF Injected

LEMMA RefusedType ==
    ASSUME TypeOK, ServiceRefuses, UNCHANGED credentials
    PROVE  TypeOK'
  BY InjectedType, RaiseType DEF ServiceRefuses

LEMMA TypeInit == Init => TypeOK
<1> SUFFICES ASSUME Init PROVE TypeOK
  OBVIOUS
<1>1. state \in CommandStates /\ error \in Errors
  BY DefaultsType, ErrorType DEF Init, InitOptions
<1>2. lines \in Seq(Paths) /\ items \in Seq(Paths) /\ todo \in Seq(Steps)
  <2>1. lines = <<>> /\ items = <<>> /\ todo = <<>>
    BY DEF Init
  <2>2. \A S : <<>> \in Seq(S)
    OBVIOUS
  <2> QED
    BY <2>1, <2>2
<1>4. path \in Paths \union {"none"} /\ command \in Names /\ asserted \subseteq STRING
  <2>1. path = "none" /\ command = "none" /\ asserted = {}
    BY DEF Init
  <2>2. asserted \subseteq STRING
    BY <2>1
  <2>3. path \in Paths \union {"none"}
    BY <2>1
  <2>4. command \in Names
    BY <2>1 DEF Names
  <2> QED
    BY <2>2, <2>3, <2>4
<1>3. /\ wrote \in Nat /\ documents \in Nat /\ texts \in Nat /\ tasks \in Nat
      /\ attempt \in Nat /\ status \in Int
  BY DEF Init
<1> QED
  BY <1>1, <1>2, <1>3, <1>4 DEF Init, TypeOK

\* All fields of TypeOK that Proceed leaves open.
LEMMA MadeType ==
    ASSUME TypeOK, todo # <<>>, Proceed, UNCHANGED credentials,
           asserted' \subseteq STRING, wrote' \in Nat, documents' \in Nat, texts' \in Nat,
           lines' = lines, path' = path, items' = items, tasks' \in Nat
    PROVE  TypeOK'
  BY ProceedType DEF TypeOK

LEMMA TypeStep == TypeOK /\ [Next]_vars => TypeOK'
<1> SUFFICES ASSUME TypeOK, [Next]_vars PROVE TypeOK'
  OBVIOUS
<1>0. CASE UNCHANGED vars
  BY <1>0 DEF vars, run, made, optionVars, TypeOK
<1> SUFFICES ASSUME Act, UNCHANGED credentials PROVE TypeOK'
  BY <1>0 DEF Next
<1>n. wrote \in Nat /\ documents \in Nat /\ texts \in Nat /\ tasks \in Nat /\ attempt \in Nat
  BY DEF TypeOK
<1>e. /\ \A t \in {"none", "missing_login", "wrong_type", "usage", "value", "network"} :
            Raised(t) \in Errors
      /\ NoError \in Errors /\ Requirements(NoError) \in Errors
      /\ ExitWith(0) \in Errors /\ ExitWith(1) \in Errors /\ ExitWith(2) \in Errors
  BY ErrorType
<1>1. CASE Options
  BY <1>1, OptionsType DEF Options, run, made, TypeOK
<1>2. CASE RefuseCommandLine
  BY <1>2, <1>e, RaiseType DEF RefuseCommandLine
<1>3. CASE Invoke
  <2>1. command' \in Names /\ todo' \in Seq(Steps)
    BY <1>3, ScriptType DEF Invoke
  <2> QED
    BY <1>3, <2>1 DEF Invoke, made, TypeOK
<1>4. CASE Return
  BY <1>4, <1>e, RaiseType DEF Return
<1>5. CASE LeaveOut
  BY <1>5, PassType DEF LeaveOut
<1>6. CASE CheckLogins
  <2>1. CASE Proceed /\ asserted' = asserted \union Head(todo).on
             /\ UNCHANGED <<wrote, documents, texts, lines, path, items, tasks>>
    <3>1. todo # <<>> /\ Head(todo).on \subseteq STRING
      BY <1>6, TodoType DEF CheckLogins, At, TypeOK
    <3>2. asserted' \subseteq STRING
      BY <2>1, <3>1 DEF TypeOK
    <3> QED
      BY <1>n, <2>1, <3>1, <3>2, MadeType
  <2> QED
    BY <1>6, <1>e, <2>1, RaiseType DEF CheckLogins
<1>7. CASE GetClient
  BY <1>7, <1>e, RaiseType, RefusedType, PassType DEF GetClient, At
<1>8. CASE CheckArguments
  BY <1>8, <1>e, RaiseType, PassType DEF CheckArguments, At
<1>9. CASE Call
  BY <1>9, <1>e, RaiseType, RefusedType, PassType DEF Call, At
<1>10. CASE Change
  <2>1. CASE Proceed /\ wrote' = wrote + 1
             /\ UNCHANGED <<asserted, documents, texts, lines, path, items, tasks>>
    BY <1>10, <1>n, <2>1, MadeType DEF Change, At, TypeOK
  <2> QED
    BY <1>10, <1>e, <2>1, RaiseType, RefusedType DEF Change
<1>11. CASE Submission
  <2>0. AcceptTask(tasks, SubmissionId("given")) \in Nat
    BY <1>n DEF AcceptTask
  <2>1. CASE Proceed /\ tasks' = AcceptTask(tasks, SubmissionId("given")) /\ wrote' = wrote + 1
             /\ UNCHANGED <<asserted, documents, texts, lines, path, items>>
    BY <1>11, <1>n, <2>0, <2>1, MadeType DEF Submission, At, TypeOK
  <2>2. CASE Finish(Raised("network")) /\ tasks' = AcceptTask(tasks, SubmissionId("given"))
             /\ UNCHANGED <<asserted, wrote, documents, texts, lines, path, items>>
    BY <1>e, <1>n, <2>0, <2>2, FinishType DEF TypeOK
  <2> QED
    BY <1>11, <1>e, <2>1, <2>2, RaiseType, RefusedType DEF Submission
<1>12. CASE BatchLine
  <2>1. PICK p \in Paths : lines' = Append(lines, p) /\ path' = p /\ items' = AddItem(items, p)
    BY <1>12 DEF BatchLine
  <2>2. lines' \in Seq(Paths) /\ items' \in Seq(Paths) /\ path' \in Paths \union {"none"}
    BY <2>1 DEF TypeOK, AddItem
  <2> QED
    BY <1>12, <2>2 DEF BatchLine, TypeOK, optionVars
<1>13. CASE BatchEnds
  BY <1>13, <1>e, RaiseType, PassType DEF BatchEnds, At
<1>14. CASE LookUpNames
  BY <1>14, <1>e, RaiseType, RefusedType, PassType DEF LookUpNames, At
<1>15. CASE Display
  <2>1. ASSUME Proceed,
               IF InText
               THEN /\ texts' = IF Head(todo).does = "show" THEN texts + 1 ELSE texts
                    /\ UNCHANGED documents
               ELSE documents' = documents + 1 /\ UNCHANGED texts,
               UNCHANGED <<asserted, wrote, lines, path, items, tasks>>
        PROVE  TypeOK'
    BY <1>15, <1>n, <2>1, MadeType DEF Display, At, TypeOK
  <2> QED
    BY <1>15, <1>e, <2>1, RaiseType DEF Display
<1>16. CASE EchoLine
  BY <1>16, <1>n, MadeType DEF EchoLine, At, TypeOK
<1>17. CASE ExitStep
  <2>1. Head(todo).call \in DOMAIN ExitCodes
    BY <1>17, TodoType DEF ExitStep, At, Steps, TypeOK
  <2> QED
    BY <1>17, <2>1, ErrorType, RaiseType DEF ExitStep
<1>18. CASE Repeat
  <2>1. todo' \in Seq(Steps) /\ attempt' \in Nat
    BY <1>18, <1>n, ScriptType DEF Repeat
  <2> QED
    BY <1>18, <1>e, <2>1 DEF Repeat, TypeOK, optionVars
<1> QED
  BY <1>1, <1>2, <1>3, <1>4, <1>5, <1>6, <1>7, <1>8, <1>9, <1>10, <1>11, <1>12, <1>13,
     <1>14, <1>15, <1>16, <1>17, <1>18 DEF Act

\* A command and its output keep their types for every catalogue.
THEOREM TypeCorrect == Spec => []TypeOK
<1>1. Init => TypeOK
  BY TypeInit
<1>2. TypeOK /\ [Next]_vars => TypeOK'
  BY TypeStep
<1> QED
  BY <1>1, <1>2, PTL DEF Spec
-------------------------------------------------------------------------------
(***************************************************************************)
(* The exit status.                                                        *)
(***************************************************************************)
\* An ended run has the status of its error, and 4 as the status of ctx.exit only
\* where the script says so.
StatusInv ==
    /\ Ended => status = ExitStatus(error)
    /\ Ended /\ error = ExitWith(4) => EndedAt({"exit"})

LEMMA StatusFinish ==
    ASSUME NEW e, Finish(e), e # ExitWith(4) \/ (todo # <<>> /\ Head(todo).does = "exit")
    PROVE  StatusInv'
<1>1. status' = ExitStatus(e) /\ error' = e /\ UNCHANGED <<state, todo>>
  BY DEF Finish, optionVars
<1>2. ExitStatus(error)' = ExitStatus(e)
  BY <1>1 DEF ExitStatus, ApiStatus, MappedStatus, GenericHooks, RequirementsStatus
<1> QED
  BY <1>1, <1>2 DEF StatusInv, EndedAt, Ended

LEMMA StatusRaise ==
    ASSUME NEW e, Raise(e), e.type # "exit"
    PROVE  StatusInv'
<1>1. e # ExitWith(4)
  BY DEF ExitWith
<1> QED
  BY <1>1, StatusFinish DEF Raise

\* What services refuse, and the exceptions of the CLI, are no calls of ctx.exit.
LEMMA NoExit ==
    /\ \A t : Raised(t).type = t
    /\ NoError.type = "none"
    /\ \A e : Requirements(e).type = "requirements"
    /\ \A e \in ApiErrors : \A r \in Injected(e) : r.type \in {"api", "requirements", "value"}
  BY DEF Raised, NoError, Requirements, ApiErrors, Injected

LEMMA StatusRefused == ServiceRefuses => StatusInv'
  BY NoExit, StatusRaise DEF ServiceRefuses

\* A run that has not ended after a step satisfies the invariant anyway.
LEMMA StatusGoesOn == phase' # "ended" => StatusInv'
  BY DEF StatusInv, Ended

LEMMA StatusStep == TypeOK /\ StatusInv /\ [Next]_vars => StatusInv'
<1> SUFFICES ASSUME TypeOK, StatusInv, [Next]_vars PROVE StatusInv'
  OBVIOUS
<1>0. CASE UNCHANGED vars
  <2>1. UNCHANGED <<state, phase, todo, error, status>>
    BY <1>0 DEF vars, run, optionVars
  <2>2. ExitStatus(error)' = ExitStatus(error)
    BY <2>1 DEF ExitStatus, ApiStatus, MappedStatus, GenericHooks, RequirementsStatus
  <2> QED
    BY <2>1, <2>2 DEF StatusInv, EndedAt, Ended
<1> SUFFICES ASSUME Act PROVE StatusInv'
  BY <1>0 DEF Next
<1>1. CASE Options \/ Invoke \/ LeaveOut \/ Repeat \/ BatchLine \/ EchoLine
  BY <1>1, StatusGoesOn
     DEF Options, Invoke, LeaveOut, Repeat, BatchLine, EchoLine, Pass, Proceed, At, run
<1>2. CASE RefuseCommandLine \/ Return
  <2>1. ExitWith(1) # ExitWith(4)
    BY DEF ExitWith
  <2> QED
    BY <1>2, <2>1, NoExit, StatusFinish, StatusRaise DEF RefuseCommandLine, Return, Raise
<1>3. ASSUME Pass \/ Proceed, phase = "running" PROVE StatusInv'
  BY <1>3, StatusGoesOn DEF Pass, Proceed
<1>4. CASE CheckLogins \/ GetClient
  BY <1>3, <1>4, NoExit, StatusRaise, StatusRefused DEF CheckLogins, GetClient, At
<1>5. CASE CheckArguments
  BY <1>3, <1>5, NoExit, StatusRaise DEF CheckArguments, At
<1>6. CASE Call \/ Change \/ LookUpNames
  BY <1>3, <1>6, NoExit, StatusRaise, StatusRefused DEF Call, Change, LookUpNames, At
<1>7. CASE Submission
  <2>1. Raised("network") # ExitWith(4)
    BY DEF Raised, ExitWith
  <2> QED
    BY <1>3, <1>7, <2>1, NoExit, StatusFinish, StatusRaise, StatusRefused DEF Submission, At
<1>8. CASE BatchEnds
  <2>1. ExitWith(2) # ExitWith(4) /\ ExitWith(0) # ExitWith(4)
    BY DEF ExitWith
  <2> QED
    BY <1>3, <1>8, <2>1, NoExit, StatusFinish, StatusRaise DEF BatchEnds, Raise, At
<1>9. CASE Display
  BY <1>3, <1>9, NoExit, StatusRaise DEF Display, At
<1>10. CASE ExitStep
  BY <1>10, StatusFinish DEF ExitStep, Raise, At
<1> QED
  BY <1>1, <1>2, <1>4, <1>5, <1>6, <1>7, <1>8, <1>9, <1>10 DEF Act

\* The statuses the documentation names are the ones of the invariant.
LEMMA StatusMeans == TypeOK /\ StatusInv => DocumentedStatus
<1> SUFFICES ASSUME TypeOK, StatusInv, Ended PROVE DocumentedStatus
  BY DEF DocumentedStatus
<1> DEFINE mapped == DOMAIN state.http_status_map
<1>1. status = ExitStatus(error) /\ error \in Errors
  BY DEF StatusInv, TypeOK
<1>2. \A h \in mapped : state.http_status_map[h] # 4
  <2>1. PICK S \in SUBSET HttpStatuses : state.http_status_map \in [S -> MappedExits]
    BY DEF TypeOK, CommandStates
  <2>2. 4 \notin MappedExits
    BY OptionsAssumption
  <2> QED
    BY <2>1, <2>2
<1>3. \/ error.type \in {"missing_login", "wrong_type", "usage", "value", "network"}
      \/ error = NoError
      \/ error \in ApiErrors
      \/ \E e \in ApiErrors \union {NoError} : error = Requirements(e)
      \/ \E c \in DOMAIN ExitCodes : error = ExitWith(ExitCodes[c])
  BY <1>1 DEF Errors, Raised, NoError
<1>4. CASE error.type \in {"missing_login", "wrong_type", "usage", "value", "network"}
  BY <1>1, <1>4 DEF DocumentedStatus, ExitStatus, Answers, Unmet
<1>5. CASE error = NoError
  BY <1>1, <1>5, NoExit DEF DocumentedStatus, ExitStatus, Answers, Unmet, NoError, Raised
<1>6. CASE error \in ApiErrors
  <2>1. error.type = "api" /\ status = ApiStatus(error)
    BY <1>1, <1>6 DEF ApiErrors, ExitStatus
  <2>2. Mapped(error) => status = state.http_status_map[error.http]
    BY <2>1 DEF ApiStatus, MappedStatus, Mapped
  <2>3. ~Mapped(error) =>
            /\ status # 0
            /\ status = 4 => error.info \in {"consent", "session"}
            /\ error.info \in {"consent", "session"} =>
                    status = 4 \/ state.output_format = "json"
    BY <2>1 DEF ApiStatus, MappedStatus, GenericHooks, Mapped
  <2>4. Answers = {error}
    BY <2>1 DEF Answers
  <2>5. Mapped(error) => status # 4
    BY <1>2, <2>2 DEF Mapped
  <2> QED
    BY <2>1, <2>2, <2>3, <2>4, <2>5 DEF DocumentedStatus, Unmet
<1>7. CASE \E e \in ApiErrors \union {NoError} : error = Requirements(e)
  <2>1. error.type = "requirements" /\ status = RequirementsStatus(error.origin)
    BY <1>1, <1>7 DEF Requirements, ExitStatus
  <2>2. Unmet
    BY <2>1 DEF Unmet
  <2>3. Answers = {error.origin} \ {NoError}
    BY <2>1 DEF Answers
  <2>4. CASE error.origin # NoError /\ GenericHooks(error.origin)
    <3>1. status = MappedStatus(error.origin, 1)
      BY <2>1, <2>4 DEF RequirementsStatus, ApiStatus
    <3>2. state.output_format = "json" \/ error.origin.info = "null"
      BY <2>4 DEF GenericHooks
    <3> QED
      BY <2>2, <2>3, <2>4, <3>1, <3>2 DEF DocumentedStatus, MappedStatus, Mapped
  <2>5. CASE ~(error.origin # NoError /\ GenericHooks(error.origin))
    <3>1. status = 4
      BY <2>1, <2>5 DEF RequirementsStatus
    <3>2. Answers # {} => state.output_format # "json"
      BY <2>3, <2>5 DEF GenericHooks
    <3> QED
      BY <2>1, <2>2, <3>1, <3>2 DEF DocumentedStatus
  <2> QED
    BY <2>4, <2>5
<1>8. CASE \E c \in DOMAIN ExitCodes : error = ExitWith(ExitCodes[c])
  <2>1. error.type = "exit" /\ status = error.code /\ error = ExitWith(error.code)
    BY <1>1, <1>8 DEF ExitWith, ExitStatus
  <2>2. status = 4 => EndedAt({"exit"})
    BY <2>1 DEF StatusInv
  <2> QED
    BY <2>1, <2>2 DEF DocumentedStatus, Answers, Unmet
<1> QED
  BY <1>3, <1>4, <1>5, <1>6, <1>7, <1>8

\* The status of an ended run is that of its error.
LEMMA StatusAlways == Spec => []StatusInv
<1>1. Init => StatusInv
  BY StatusGoesOn DEF Init, StatusInv, Ended
<1>2. TypeOK /\ StatusInv /\ [Next]_vars => StatusInv'
  BY StatusStep
<1> QED
  BY <1>1, <1>2, TypeCorrect, PTL DEF Spec

\* Whatever a script consists of: 0 is for success and for what is mapped to it,
\* a mapped answer gives the mapped code unless FlowScopeInjector made a
\* requirement of it, and 4 is for unmet requirements, which give 4 where the
\* generic hooks and the map do not come first.
THEOREM StatusTheorem == Spec => []DocumentedStatus
<1>1. TypeOK /\ StatusInv => DocumentedStatus
  BY StatusMeans
<1> QED
  BY <1>1, StatusAlways, TypeCorrect, PTL
-------------------------------------------------------------------------------
(***************************************************************************)
(* Batches.                                                                *)
(***************************************************************************)
NoBatch(s) == \A i \in DOMAIN s : s[i].does # "batch"

BatchInv ==
    /\ items = lines
    /\ BatchFirst(todo)
    /\ wrote > 0 => NoBatch(todo)
    /\ phase = "options" => wrote = 0

\* What holds of the steps that are left holds without the first of them.
LEMMA BatchTail ==
    ASSUME todo \in Seq(Steps), todo # <<>>, BatchFirst(todo)
    PROVE  /\ BatchFirst(Tail(todo))
           /\ NoBatch(todo) => NoBatch(Tail(todo))
           /\ Head(todo).does \in Changes => NoBatch(Tail(todo))
<1>1. /\ Len(Tail(todo)) = Len(todo) - 1 /\ Len(todo) \in Nat
      /\ DOMAIN todo = 1 .. Len(todo) /\ DOMAIN Tail(todo) = 1 .. Len(todo) - 1
  OBVIOUS
<1>2. \A i \in DOMAIN Tail(todo) :
            /\ i \in Int /\ i > 0
            /\ i + 1 \in DOMAIN todo /\ Tail(todo)[i] = todo[i + 1]
  BY <1>1
<1>3. 1 \in DOMAIN todo /\ Head(todo) = todo[1]
  BY <1>1
<1>4. BatchFirst(Tail(todo))
  <2> SUFFICES ASSUME NEW i \in DOMAIN Tail(todo), NEW j \in DOMAIN Tail(todo), i < j,
                      Tail(todo)[j].does = "batch"
               PROVE  Tail(todo)[i].does \notin Changes
    BY DEF BatchFirst
  <2>1. i + 1 \in DOMAIN todo /\ j + 1 \in DOMAIN todo /\ i + 1 < j + 1
    BY <1>2
  <2> QED
    BY <1>2, <2>1 DEF BatchFirst
<1>5. NoBatch(todo) => NoBatch(Tail(todo))
  BY <1>2 DEF NoBatch
<1>6. Head(todo).does \in Changes => NoBatch(Tail(todo))
  <2> SUFFICES ASSUME Head(todo).does \in Changes, NEW j \in DOMAIN Tail(todo)
               PROVE  Tail(todo)[j].does # "batch"
    BY DEF NoBatch
  <2>1. j + 1 \in DOMAIN todo /\ 1 < j + 1
    BY <1>2
  <2> QED
    BY <1>2, <1>3, <2>1 DEF BatchFirst
<1> QED
  BY <1>4, <1>5, <1>6

\* The steps that are left stay, and so does everything the invariant names.
LEMMA BatchStays ==
    ASSUME BatchInv, UNCHANGED <<todo, wrote, lines, items>>, phase' # "options"
    PROVE  BatchInv'
  BY DEF BatchInv, BatchFirst, NoBatch

LEMMA BatchRaise ==
    ASSUME BatchInv, NEW e, Raise(e)
    PROVE  BatchInv'
  BY BatchStays DEF Raise, Finish, made

LEMMA BatchRefused ==
    ASSUME BatchInv, ServiceRefuses
    PROVE  BatchInv'
  BY BatchRaise DEF ServiceRefuses

\* A step is done; a change is confirmed only if it was one.
LEMMA BatchProceeds ==
    ASSUME TypeOK, BatchInv, Proceed, phase = "running", todo # <<>>,
           UNCHANGED <<lines, items>>,
           wrote' = wrote \/ Head(todo).does \in Changes
    PROVE  BatchInv'
<1>1. /\ todo' = Tail(todo) /\ phase' = "running"
      /\ todo \in Seq(Steps) /\ BatchFirst(todo)
  BY DEF Proceed, TypeOK, BatchInv
<1>2. BatchFirst(Tail(todo)) /\ (wrote' > 0 => NoBatch(Tail(todo)))
  BY <1>1, BatchTail DEF BatchInv
<1>3. BatchFirst(todo)' /\ (wrote' > 0 => NoBatch(todo)')
  BY <1>1, <1>2 DEF BatchFirst, NoBatch
<1> QED
  BY <1>1, <1>3 DEF BatchInv

LEMMA BatchStep == TypeOK /\ BatchInv /\ [Next]_vars => BatchInv'
<1> SUFFICES ASSUME TypeOK, BatchInv, [Next]_vars PROVE BatchInv'
  OBVIOUS
<1>0. CASE UNCHANGED vars
  BY <1>0 DEF vars, run, made, BatchInv, BatchFirst, NoBatch
<1> SUFFICES ASSUME Act PROVE BatchInv'
  BY <1>0 DEF Next
<1>p. ASSUME NEW s, BatchFirst(s), todo' = s, wrote' = 0, items' = lines'
      PROVE  BatchInv'
  BY <1>p DEF BatchInv, BatchFirst
<1>1. CASE Options
  BY <1>1 DEF Options, run, made, BatchInv, BatchFirst, NoBatch
<1>2. CASE RefuseCommandLine \/ Return \/ ExitStep
  BY <1>2, BatchRaise DEF RefuseCommandLine, Return, ExitStep
<1>3. CASE Invoke
  <2>1. PICK c \in Catalog : \E s \in c.scripts : todo' = s
    BY <1>3 DEF Invoke
  <2>2. PICK s \in c.scripts : todo' = s
    BY <2>1
  <2>3. BatchFirst(s)
    BY BatchAssumption
  <2>4. wrote' = 0 /\ items' = lines'
    BY <1>3 DEF Invoke, made, BatchInv
  <2> QED
    BY <1>p, <2>2, <2>3, <2>4
<1>4. ASSUME Pass, phase = "running", todo # <<>> PROVE BatchInv'
  BY <1>4, BatchProceeds DEF Pass, made
<1>5. CASE LeaveOut
  BY <1>4, <1>5 DEF LeaveOut
<1>6. CASE CheckLogins
  BY <1>6, BatchProceeds, BatchRaise DEF CheckLogins, At
<1>7. CASE GetClient \/ Call \/ LookUpNames
  BY <1>4, <1>7, BatchRaise, BatchRefused DEF GetClient, Call, LookUpNames, At
<1>8. CASE CheckArguments \/ BatchEnds
  BY <1>4, <1>8, BatchRaise DEF CheckArguments, BatchEnds, At
<1>9. CASE Change
  BY <1>9, BatchProceeds, BatchRaise, BatchRefused DEF Change, At, Changes
<1>10. CASE Submission
  <2>1. CASE Finish(Raised("network")) /\ UNCHANGED <<wrote, lines, items>>
    BY <2>1, BatchStays DEF Finish
  <2> QED
    BY <1>10, <2>1, BatchProceeds, BatchRaise, BatchRefused DEF Submission, At, Changes
<1>11. CASE BatchLine
  <2>1. UNCHANGED <<todo, wrote, phase>> /\ items' = lines'
    BY <1>11 DEF BatchLine, AddItem, BatchInv
  <2> QED
    BY <2>1 DEF BatchInv, BatchFirst, NoBatch
<1>12. CASE Display
  BY <1>12, BatchProceeds, BatchRaise DEF Display, At
<1>13. CASE EchoLine
  BY <1>13, BatchProceeds DEF EchoLine, At
<1>14. CASE Repeat
  <2>1. PICK c \in Catalog : \E s \in c.scripts : todo' = s
    BY <1>14 DEF Repeat
  <2>2. PICK s \in c.scripts : todo' = s
    BY <2>1
  <2> QED
    BY <1>14, <1>p, <2>2, BatchAssumption DEF Repeat
<1> QED
  BY <1>1, <1>2, <1>3, <1>5, <1>6, <1>7, <1>8, <1>9, <1>10, <1>11, <1>12, <1>13, <1>14
     DEF Act

\* A batch is submitted as it was written, or nothing of it, however long it is.
THEOREM BatchTheorem == Spec => []BatchAsWritten
<1>1. Init => BatchInv
  BY DEF Init, BatchInv, BatchFirst
<1>2. TypeOK /\ BatchInv => BatchAsWritten
  <2> SUFFICES ASSUME TypeOK, BatchInv, EndedAt({"batch"}) PROVE wrote = 0
    BY DEF BatchAsWritten, BatchInv
  <2>1. 1 \in DOMAIN todo /\ todo[1].does = "batch" /\ wrote \in Nat
    BY DEF EndedAt, TypeOK
  <2> QED
    BY <2>1 DEF BatchInv, NoBatch
<1>3. TypeOK /\ BatchInv /\ [Next]_vars => BatchInv'
  BY BatchStep
<1> QED
  BY <1>1, <1>2, <1>3, TypeCorrect, PTL DEF Spec
-------------------------------------------------------------------------------
(***************************************************************************)
(* Submissions that are repeated.                                          *)
(***************************************************************************)
\* A repeated command line that has its submission behind it has brought about the
\* task, now or before.
SubmitInv ==
    /\ tasks <= 1
    /\ phase = "options" => attempt = 0
    /\ phase = "running" /\ attempt > 0 /\ ~WithId(todo) => tasks = 1
    /\ Ended /\ error = NoError /\ attempt > 0 => tasks = 1

LEMMA WithIdTail ==
    ASSUME todo \in Seq(Steps), todo # <<>>, WithId(todo), Head(todo).does # "submit"
    PROVE  WithId(Tail(todo))
<1>1. PICK i \in DOMAIN todo : todo[i].does = "submit"
  BY DEF WithId
<1>2. i \in 1 .. Len(todo) /\ i # 1 /\ Len(todo) \in Nat
  BY <1>1
<1>3. i - 1 \in DOMAIN Tail(todo) /\ Tail(todo)[i - 1] = todo[i]
  BY <1>2
<1> QED
  BY <1>1, <1>3 DEF WithId

LEMMA SubmitRaise ==
    ASSUME SubmitInv, NEW e, Raise(e), e # NoError
    PROVE  SubmitInv'
  BY DEF SubmitInv, Raise, Finish, made, Ended

\* No error of a service is the absence of one.
LEMMA SomeError ==
    /\ \A t : t # "none" => Raised(t) # NoError
    /\ \A e : Requirements(e) # NoError
    /\ \A n : ExitWith(n) # NoError
    /\ \A e \in ApiErrors : \A r \in Injected(e) : r # NoError
<1>1. \A n : ExitWith(n).type = "exit"
  BY DEF ExitWith
<1> QED
  BY <1>1, NoExit

LEMMA SubmitRefused ==
    ASSUME SubmitInv, ServiceRefuses
    PROVE  SubmitInv'
  BY SomeError, SubmitRaise DEF ServiceRefuses

LEMMA SubmitProceeds ==
    ASSUME TypeOK, SubmitInv, Proceed, phase = "running", todo # <<>>, tasks' = tasks,
           Head(todo).does # "submit"
    PROVE  SubmitInv'
<1>1. todo' = Tail(todo) /\ phase' = "running" /\ attempt' = attempt
  BY DEF Proceed
<1>2. WithId(todo) => WithId(Tail(todo))
  BY WithIdTail DEF TypeOK
<1>3. WithId(todo) => WithId(todo)'
  BY <1>1, <1>2 DEF WithId
<1> QED
  BY <1>1, <1>3 DEF SubmitInv, Ended

LEMMA SubmitStep == TypeOK /\ SubmitInv /\ [Next]_vars => SubmitInv'
<1> SUFFICES ASSUME TypeOK, SubmitInv, [Next]_vars PROVE SubmitInv'
  OBVIOUS
<1>0. CASE UNCHANGED vars
  BY <1>0 DEF vars, run, made, SubmitInv, WithId, Ended
<1> SUFFICES ASSUME Act PROVE SubmitInv'
  BY <1>0 DEF Next
<1>n. tasks \in Nat /\ attempt \in Nat
  BY DEF TypeOK
<1>1. CASE Options \/ Invoke
  BY <1>1 DEF Options, Invoke, run, made, SubmitInv, Ended
<1>2. CASE RefuseCommandLine \/ ExitStep
  BY <1>2, SomeError, SubmitRaise DEF RefuseCommandLine, ExitStep
<1>3. CASE Return
  <2>1. ~WithId(todo) /\ phase = "running"
    BY <1>3 DEF Return, WithId
  <2> QED
    BY <1>3, <2>1 DEF Return, Raise, Finish, made, SubmitInv, Ended
<1>4. ASSUME Pass, phase = "running", todo # <<>>, Head(todo).does # "submit"
      PROVE  SubmitInv'
  BY <1>4, SubmitProceeds DEF Pass, made
<1>5. CASE LeaveOut
  <2>1. Head(todo).does # "submit"
    BY <1>5, TodoType DEF LeaveOut, LeftOut, Steps, TypeOK
  <2> QED
    BY <1>4, <1>5, <2>1 DEF LeaveOut
<1>6. CASE CheckLogins
  BY <1>6, SomeError, SubmitProceeds, SubmitRaise DEF CheckLogins, At
<1>7. CASE GetClient \/ Call \/ LookUpNames
  BY <1>4, <1>7, SomeError, SubmitRaise, SubmitRefused DEF GetClient, Call, LookUpNames, At
<1>8. CASE CheckArguments
  BY <1>4, <1>8, SomeError, SubmitRaise DEF CheckArguments, At
<1>9. CASE BatchEnds
  BY <1>4, <1>9, SomeError, SubmitRaise DEF BatchEnds, At
<1>10. CASE Change
  BY <1>10, SomeError, SubmitProceeds, SubmitRaise, SubmitRefused DEF Change, At
<1>11. CASE Submission
  <2>1. AcceptTask(tasks, SubmissionId("given")) = 1
    BY <1>n DEF AcceptTask, SubmissionId, SubmitInv
  <2>2. CASE Proceed /\ tasks' = 1
    BY <1>11, <2>2 DEF Submission, At, Proceed, SubmitInv, Ended
  <2>3. CASE Finish(Raised("network")) /\ tasks' = 1
    BY <2>3 DEF Finish, SubmitInv
  <2> QED
    BY <1>11, <2>1, <2>2, <2>3, SomeError, SubmitRaise, SubmitRefused DEF Submission
<1>12. CASE BatchLine
  BY <1>12 DEF BatchLine, SubmitInv, WithId, Ended
<1>13. CASE Display
  BY <1>13, SomeError, SubmitProceeds, SubmitRaise DEF Display, At
<1>14. CASE EchoLine
  BY <1>14, SubmitProceeds DEF EchoLine, At
<1>15. CASE Repeat
  <2>1. WithId(todo)' /\ phase' = "running" /\ tasks' = tasks
    BY <1>15 DEF Repeat, WithId
  <2> QED
    BY <2>1 DEF SubmitInv, Ended
<1> QED
  BY <1>1, <1>2, <1>3, <1>5, <1>6, <1>7, <1>8, <1>9, <1>10, <1>11, <1>12, <1>13, <1>14,
     <1>15 DEF Act

\* However often a command line with a submission ID is repeated, and however many
\* answers are lost, there is one task when it succeeds, and never a second.
THEOREM SubmittedOnceTheorem == Spec => []SubmittedOnce
<1>1. Init => SubmitInv
  BY DEF Init, SubmitInv, Ended
<1>2. SubmitInv => SubmittedOnce
  BY DEF SubmitInv, SubmittedOnce
<1>3. TypeOK /\ SubmitInv /\ [Next]_vars => SubmitInv'
  BY SubmitStep
<1> QED
  BY <1>1, <1>2, <1>3, TypeCorrect, PTL DEF Spec
-------------------------------------------------------------------------------
(***************************************************************************)
(* The options that every command has.                                     *)
(***************************************************************************)
QuietInv == state.verbosity >= -1 /\ QuietWins

\* Another option does not undo --quiet if it leaves a negative verbosity alone.
LEMMA QuietOther ==
    ASSUME QuietInv, NEW option, NEW value, Callback(option, value), option # "quiet",
           state'.verbosity >= -1, state.verbosity = -1 => state'.verbosity = -1
    PROVE  QuietInv'
  BY DEF QuietInv, QuietWins, Contexts, Callback

LEMMA QuietRead ==
    ASSUME TypeOK, QuietInv, ReadOptions
    PROVE  QuietInv'
<1>0. state \in CommandStates /\ state.verbosity \in Int
  BY DEF TypeOK, CommandStates
<1>s. ASSUME NEW n \in Int, n >= -1
      PROVE  /\ SetVerbosity(state, n).verbosity >= -1
             /\ state.verbosity = -1 => SetVerbosity(state, n).verbosity = -1
  BY <1>0, <1>s DEF SetVerbosity, CommandStates, QuietInv
<1>1. ASSUME NEW count \in 1 .. 2, verbose_callback(count) PROVE QuietInv'
  <2>1. state.verbosity + count \in Int /\ state.verbosity + count >= -1
    BY <1>0 DEF QuietInv
  <2>2. state' = SetVerbosity(state, state.verbosity + count) /\ Callback("verbose", count)
    BY <1>1 DEF verbose_callback, EagerCallback
  <2> QED
    BY <1>s, <2>1, <2>2, QuietOther
<1>2. CASE debug_callback
  <2> DEFINE n == IF state.verbosity < 3 THEN 3 ELSE state.verbosity
  <2>1. n \in Int /\ n >= -1 /\ SetVerbosity(state, n) \in CommandStates
    BY <1>0, VerbosityType
  <2>2. state' = [SetVerbosity(state, n) EXCEPT !.debug = TRUE] /\ Callback("debug", TRUE)
    BY <1>2 DEF debug_callback, EagerCallback
  <2>3. state'.verbosity = SetVerbosity(state, n).verbosity
    BY <2>1, <2>2 DEF CommandStates
  <2> QED
    BY <1>s, <2>1, <2>2, <2>3, QuietOther
<1>3. CASE quiet_callback
  <2>1. state' = SetVerbosity(state, -1)
    BY <1>3 DEF quiet_callback
  <2>2. state'.verbosity = -1
    BY <1>0, <2>1 DEF SetVerbosity, CommandStates, QuietInv
  <2> QED
    BY <2>2 DEF QuietInv, QuietWins
<1>4. ASSUME NEW option, NEW value, option # "quiet", LateCallback(option, value),
             state'.verbosity = state.verbosity
      PROVE  QuietInv'
  BY <1>4, QuietOther DEF LateCallback, QuietInv
<1>5. ASSUME NEW value \in Formats, format_callback(value) PROVE QuietInv'
  BY <1>0, <1>4, <1>5 DEF format_callback, CommandStates
<1>6. CASE jmespath_callback
  BY <1>0, <1>4, <1>6 DEF jmespath_callback, CommandStates
<1>7. ASSUME NEW pairs, map_http_status_callback(pairs) PROVE QuietInv'
  BY <1>0, <1>4, <1>7 DEF map_http_status_callback, CommandStates
<1>8. CASE EnterCommand
  BY <1>8 DEF EnterCommand, QuietInv, QuietWins, Contexts
<1> QED
  BY <1>1, <1>2, <1>3, <1>5, <1>6, <1>7, <1>8 DEF ReadOptions

\* Once the options are read the state is not written to.
LEMMA OptionsStay == Act /\ ~Options /\ ~Invoke => UNCHANGED optionVars
  BY DEF Act, RefuseCommandLine, Return, LeaveOut, CheckLogins, GetClient, CheckArguments,
         Call, Change, Submission, BatchLine, BatchEnds, LookUpNames, Display, EchoLine,
         ExitStep, Repeat, Pass, Proceed, Raise, Finish, ServiceRefuses

\* --quiet has the last word on every command line.
THEOREM QuietTheorem == Spec => []QuietWins
<1>1. Init => QuietInv
  BY DEF Init, InitOptions, Defaults, QuietInv, QuietWins, Contexts
<1>2. TypeOK /\ QuietInv /\ [Next]_vars => QuietInv'
  <2> SUFFICES ASSUME TypeOK, QuietInv, [Next]_vars PROVE QuietInv'
    OBVIOUS
  <2>1. CASE UNCHANGED optionVars
    BY <2>1 DEF optionVars, QuietInv, QuietWins, Contexts
  <2>2. CASE Options
    BY <2>2, QuietRead DEF Options
  <2>3. CASE Invoke
    BY <2>3 DEF Invoke, QuietInv, QuietWins, Contexts
  <2> QED
    BY <2>1, <2>2, <2>3, OptionsStay DEF Next, vars
<1>3. QuietInv => QuietWins
  BY DEF QuietInv
<1> QED
  BY <1>1, <1>2, <1>3, TypeCorrect, PTL DEF Spec

\* The format is the one asked for by the options so far, which are given once in
\* each context.
Asked == {g \in given : g[2] = "format"}
Default == IF state.jmespath_expr THEN "json" ELSE "text"

FormatInv ==
    /\ context \in {"group", "command", "none"}
    /\ \A g \in given : g[1] \in {"group", "command", "none"}
    /\ \A g, h \in given : g[1] = h[1] /\ g[2] = h[2] => g = h
    /\ context # "none" =>
        /\ state.jmespath_expr <=> \E g \in given : g[2] = "jmespath"
        /\ state.jmespath_expr => state.output_format # "text"
        /\ (\A g, h \in Asked : g = h) =>
            /\ \A g \in Asked : g[3] # "text" => state.output_format = g[3]
            /\ (\A g \in Asked : g[3] = "text") => state.output_format = Default

\* What every callback does to the options given.
LEMMA FormatGiven ==
    ASSUME FormatInv, NEW option, NEW value, Callback(option, value)
    PROVE  /\ \A g \in given' : g[1] \in {"group", "command", "none"}
           /\ \A g, h \in given' : g[1] = h[1] /\ g[2] = h[2] => g = h
           /\ given' = given \union {<<context, option, value>>}
           /\ context' = context
<1>1. /\ given' = given \union {<<context, option, value>>} /\ context' = context
      /\ \A g \in given : ~(g[1] = context /\ g[2] = option)
  BY DEF Callback
<1>2. \A g \in given' : g[1] \in {"group", "command", "none"}
  BY <1>1 DEF FormatInv
<1>3. \A g, h \in given' : g[1] = h[1] /\ g[2] = h[2] => g = h
  BY <1>1 DEF FormatInv
<1> QED
  BY <1>1, <1>2, <1>3

\* Options of another kind leave the format and the expression alone.
LEMMA FormatOther ==
    ASSUME FormatInv, NEW option, NEW value, Callback(option, value),
           option \notin {"format", "jmespath"},
           state'.output_format = state.output_format,
           state'.jmespath_expr = state.jmespath_expr
    PROVE  FormatInv'
<1>1. given' = given \union {<<context, option, value>>} /\ context' = context
  BY FormatGiven
<1>2. Asked' = Asked /\ Default' = Default
  BY <1>1 DEF Asked, Default
<1>3. (\E g \in given' : g[2] = "jmespath") <=> \E g \in given : g[2] = "jmespath"
  BY <1>1
<1> QED
  BY <1>1, <1>2, <1>3, FormatGiven DEF FormatInv

LEMMA FormatOption ==
    ASSUME TypeOK, FormatInv, context # "none", NEW value \in Formats, format_callback(value)
    PROVE  FormatInv'
<1> DEFINE new == <<context, "format", value>>
<1>0. state \in CommandStates
  BY DEF TypeOK
<1>1. Callback("format", value)
  BY DEF format_callback, LateCallback
<1>2. given' = given \union {new} /\ context' = context /\ Asked' = Asked \union {new}
  BY <1>1, FormatGiven DEF Asked
<1>3. \A g \in Asked : g # new
  BY <1>1 DEF Callback, Asked
<1>4. /\ state'.jmespath_expr = state.jmespath_expr
      /\ state'.output_format =
            IF value = "text" /\ state.jmespath_expr THEN state.output_format ELSE value
  BY <1>0 DEF format_callback, CommandStates
<1>5. (\E g \in given' : g[2] = "jmespath") <=> \E g \in given : g[2] = "jmespath"
  BY <1>2
<1>6. state'.jmespath_expr => state'.output_format # "text"
  BY <1>4 DEF FormatInv
<1>7. ASSUME \A g, h \in Asked' : g = h
      PROVE  /\ \A g \in Asked' : g[3] # "text" => state'.output_format = g[3]
             /\ (\A g \in Asked' : g[3] = "text") => state'.output_format = Default'
  <2>1. Asked = {} /\ Asked' = {new}
    BY <1>2, <1>3, <1>7
  <2>2. state.output_format = Default
    BY <2>1 DEF FormatInv
  <2> QED
    BY <1>4, <2>1, <2>2 DEF Default
<1>8. state'.jmespath_expr <=> \E g \in given' : g[2] = "jmespath"
  BY <1>4, <1>5 DEF FormatInv
<1> QED
  BY <1>1, <1>2, <1>6, <1>7, <1>8, FormatGiven DEF FormatInv

LEMMA JmespathOption ==
    ASSUME TypeOK, FormatInv, context # "none", jmespath_callback
    PROVE  FormatInv'
<1> DEFINE new == <<context, "jmespath", TRUE>>
<1>0. state \in CommandStates
  BY DEF TypeOK
<1>1. Callback("jmespath", TRUE)
  BY DEF jmespath_callback, LateCallback
<1>2. given' = given \union {new} /\ context' = context /\ Asked' = Asked
  <2>1. given' = given \union {new} /\ context' = context
    BY <1>1, FormatGiven
  <2>2. new[2] # "format"
    OBVIOUS
  <2> QED
    BY <2>1, <2>2 DEF Asked
<1>3. /\ state'.jmespath_expr = TRUE
      /\ state'.output_format =
            IF state.output_format = "text" THEN "json" ELSE state.output_format
  BY <1>0 DEF jmespath_callback, CommandStates
<1>4. new \in given' /\ new[2] = "jmespath"
  BY <1>2
<1>5. ASSUME \A g, h \in Asked : g = h
      PROVE  /\ \A g \in Asked : g[3] # "text" => state'.output_format = g[3]
             /\ (\A g \in Asked : g[3] = "text") => state'.output_format = "json"
  BY <1>3, <1>5 DEF FormatInv, Default
<1> QED
  BY <1>1, <1>2, <1>3, <1>4, <1>5, FormatGiven DEF FormatInv, Default

LEMMA FormatRead ==
    ASSUME TypeOK, FormatInv, context # "none", ReadOptions
    PROVE  FormatInv'
<1>0. state \in CommandStates
  BY DEF TypeOK
<1>s. ASSUME NEW s \in CommandStates, NEW n
      PROVE  /\ SetVerbosity(s, n).output_format = s.output_format
             /\ SetVerbosity(s, n).jmespath_expr = s.jmespath_expr
  BY DEF SetVerbosity, CommandStates
<1>1. ASSUME NEW count \in 1 .. 2, verbose_callback(count) PROVE FormatInv'
  BY <1>0, <1>1, <1>s, FormatOther DEF verbose_callback, EagerCallback
<1>2. CASE debug_callback
  <2> DEFINE s == SetVerbosity(state, IF state.verbosity < 3 THEN 3 ELSE state.verbosity)
  <2>1. state' = [s EXCEPT !.debug = TRUE] /\ Callback("debug", TRUE)
    BY <1>2 DEF debug_callback, EagerCallback
  <2>2. state.verbosity \in Int
    BY <1>0 DEF CommandStates
  <2>3. s \in CommandStates
    BY <1>0, <2>2, VerbosityType
  <2>4. state'.output_format = s.output_format /\ state'.jmespath_expr = s.jmespath_expr
    BY <2>1, <2>3 DEF CommandStates
  <2> QED
    BY <1>0, <1>s, <2>1, <2>4, FormatOther
<1>3. CASE quiet_callback
  BY <1>0, <1>3, <1>s, FormatOther DEF quiet_callback, EagerCallback
<1>4. ASSUME NEW value \in Formats, format_callback(value) PROVE FormatInv'
  BY <1>4, FormatOption
<1>5. CASE jmespath_callback
  BY <1>5, JmespathOption
<1>6. ASSUME NEW pairs, map_http_status_callback(pairs) PROVE FormatInv'
  BY <1>0, <1>6, FormatOther DEF map_http_status_callback, LateCallback, CommandStates
<1>7. CASE EnterCommand
  BY <1>7 DEF EnterCommand, FormatInv, Asked, Default
<1> QED
  BY <1>1, <1>2, <1>3, <1>4, <1>5, <1>6, <1>7 DEF ReadOptions

\* Contexts and Values count the options; at most one context with the option is at
\* most one option.
LEMMA FormatMeans ==
    ASSUME FormatInv
    PROVE  FormatAsGiven
<1> SUFFICES ASSUME context # "none" PROVE FormatAsGiven
  BY DEF FormatAsGiven
<1>1. Contexts("jmespath") # {} <=> \E g \in given : g[2] = "jmespath"
  BY DEF Contexts
<1>2. ASSUME Cardinality(Contexts("format")) <= 1
      PROVE  \A g, h \in Asked : g = h
  <2>1. IsFiniteSet(Contexts("format"))
    <3>1. Contexts("format") \subseteq {"group", "command", "none"}
      BY DEF FormatInv, Contexts
    <3>2. IsFiniteSet(({"group"} \union {"command"}) \union {"none"})
      BY FS_Singleton, FS_AddElement
    <3>3. ({"group"} \union {"command"}) \union {"none"} = {"group", "command", "none"}
      OBVIOUS
    <3> QED
      BY <3>1, <3>2, <3>3, FS_Subset
  <2>2. \A g \in Asked : g[1] \in Contexts("format")
    BY DEF Contexts, Asked
  <2>3. \A c, d \in Contexts("format") : c = d
    <3> SUFFICES ASSUME NEW c \in Contexts("format"), NEW d \in Contexts("format"), c # d
                 PROVE  FALSE
      OBVIOUS
    <3>1. Cardinality({c, d}) = 2
      <4>1. IsFiniteSet({c}) /\ Cardinality({c}) = 1
        BY FS_Singleton
      <4>2. Cardinality({c} \union {d}) = 2
        BY <4>1, FS_AddElement
      <4> QED
        BY <4>2, {c} \union {d} = {c, d}
    <3>2. Cardinality({c, d}) <= Cardinality(Contexts("format"))
      BY <2>1, FS_Subset
    <3>3. Cardinality(Contexts("format")) \in Nat
      BY <2>1, FS_CardinalityType
    <3> QED
      BY <1>2, <3>1, <3>2, <3>3
  <2> QED
    BY <2>2, <2>3 DEF FormatInv, Asked
<1>3. ASSUME \A g, h \in Asked : g = h
      PROVE  LET asked == Values("format") \ {"text"} IN
             state.output_format =
                IF asked # {} THEN CHOOSE f \in asked : TRUE ELSE Default
  <2> DEFINE asked == Values("format") \ {"text"}
  <2>1. asked = {g[3] : g \in Asked} \ {"text"}
    BY DEF Values, Asked
  <2>2. CASE asked = {}
    <3>1. \A g \in Asked : g[3] = "text"
      BY <2>1, <2>2
    <3> QED
      BY <1>3, <2>2, <3>1 DEF FormatInv
  <2>3. CASE asked # {}
    <3>1. \A f \in asked : state.output_format = f
      BY <1>3, <2>1 DEF FormatInv
    <3>2. (CHOOSE f \in asked : TRUE) \in asked
      BY <2>3
    <3> QED
      BY <2>3, <3>1, <3>2
  <2> QED
    BY <2>2, <2>3
<1> QED
  BY <1>1, <1>2, <1>3 DEF FormatInv, FormatAsGiven, Default

\* The output is in the format asked for, whatever the order of --format and
\* --jmespath on the command line.
THEOREM FormatTheorem == Spec => []FormatAsGiven
<1>1. Init => FormatInv
  <2> SUFFICES ASSUME Init PROVE FormatInv
    OBVIOUS
  <2>1. /\ given = {} /\ context = "group"
        /\ state.jmespath_expr = FALSE /\ state.output_format = "text"
    BY DEF Init, InitOptions, Defaults
  <2> QED
    BY <2>1 DEF FormatInv, Asked, Default
<1>2. TypeOK /\ FormatInv /\ [Next]_vars => FormatInv'
  <2> SUFFICES ASSUME TypeOK, FormatInv, [Next]_vars PROVE FormatInv'
    OBVIOUS
  <2>1. CASE UNCHANGED optionVars
    BY <2>1 DEF optionVars, FormatInv, Asked, Default
  <2>2. CASE Options
    <3>1. CASE context # "none"
      BY <2>2, <3>1, FormatRead DEF Options
    <3>2. CASE context = "none"
      BY <2>2, <3>2, FormatGiven
         DEF Options, ReadOptions, verbose_callback, debug_callback, quiet_callback,
             format_callback, jmespath_callback, map_http_status_callback, EnterCommand,
             EagerCallback, LateCallback, FormatInv
    <3> QED
      BY <3>1, <3>2
  <2>3. CASE Invoke
    BY <2>3 DEF Invoke, FormatInv
  <2> QED
    BY <2>1, <2>2, <2>3, OptionsStay DEF Next, vars
<1>3. FormatInv => FormatAsGiven
  BY FormatMeans
<1> QED
  BY <1>1, <1>2, <1>3, TypeCorrect, PTL DEF Spec
-------------------------------------------------------------------------------
(***************************************************************************)
(* What the steps of a script do.                                          *)
(***************************************************************************)
NothingMade == asserted = {} /\ wrote = 0 /\ documents = 0 /\ texts = 0

\* A run begins with a script of the catalogue, the first time or again,
Starts ==
    /\ phase' = "running"
    /\ NothingMade'
    /\ \E c \in Catalog : command' = c.name /\ todo' \in c.scripts

\* takes or leaves out its steps,
Prints(step) ==
    \/ step.does = "echo"
    \/ step.does \in {"show", "text"} /\ InText
    \/ step.does = "verbose" /\ state.verbosity > 0

Takes ==
    /\ phase = "running" /\ phase' = "running"
    /\ todo # <<>> /\ todo' = Tail(todo)
    /\ UNCHANGED <<state, command>>
    /\ LET step == Head(todo) IN
       \/ LeftOut(step) /\ UNCHANGED <<asserted, wrote, documents, texts>>
       \/ /\ ~LeftOut(step) /\ step.does # "exit"
          /\ asserted' = IF step.does = "login" THEN asserted \union step.on ELSE asserted
          /\ wrote' = IF step.does \in Changes THEN wrote + 1 ELSE wrote
          /\ documents' = IF step.does \in Machine /\ ~InText THEN documents + 1 ELSE documents
          /\ texts' = IF Prints(step) THEN texts + 1 ELSE texts

\* reads options or a batch,
Stays ==
    /\ UNCHANGED <<phase, command, todo, asserted, wrote, documents, texts, error, status>>
    /\ phase # "options" => UNCHANGED state

\* and ends at the end of the script or at a step of it.
StopsAt(step, e) ==
    /\ ~LeftOut(step)
    /\ step.does = "exit" => e = ExitWith(ExitCodes[step.call])
    /\ step.does \notin {"exit", "batch"} => e \notin {NoError, ExitWith(0)}
    /\ step.does \notin {"text", "echo", "verbose"}
    /\ step.does = "show" => ~InText
    /\ e.type = "missing_login" => credentials = "user"
    /\ step.does = "client" =>
        \/ credentials = "user" /\ ~(step.on \subseteq asserted)
        \/ credentials = "client" /\ (step.guard # "run" => e # Raised("value"))

Stops ==
    /\ phase' = "ended"
    /\ UNCHANGED <<state, command, todo, asserted, wrote, documents, texts>>
    /\ \/ phase = "options" /\ error' \in {Raised("usage"), ExitWith(1)}
       \/ phase = "running" /\ todo = <<>> /\ error' = NoError
       \/ phase = "running" /\ todo # <<>> /\ StopsAt(Head(todo), error')

\* Nothing has been done before a command is invoked.
IdleInv == phase = "options" => NothingMade /\ todo = <<>> /\ command = "none"

\* What can be raised is told apart by its type, and by the code of an exit.
LEMMA ErrorsDiffer ==
    /\ \A t, u \in STRING : Raised(t) = Raised(u) => t = u
    /\ \A t : t # "none" => Raised(t) # NoError
    /\ \A t, n : t # "exit" => Raised(t) # ExitWith(n)
    /\ \A e : Requirements(e) # NoError /\ \A n : Requirements(e) # ExitWith(n)
    /\ \A n : ExitWith(n) # NoError /\ \A m : ExitWith(n) = ExitWith(m) => n = m
    /\ \A e, t : t # "requirements" => Requirements(e) # Raised(t)
    /\ \A n, t : t # "exit" => ExitWith(n) # Raised(t)
    /\ \A n : ExitWith(n).type = "exit"
    /\ \A e \in ApiErrors : e.type = "api"
<1>1. \A n, m : ExitWith(n) = ExitWith(m) => n = m
  <2>1. \A n : ExitWith(n).code = n
    BY DEF ExitWith
  <2> QED
    BY <2>1
<1>2. \A n : ExitWith(n).type = "exit"
  BY DEF ExitWith
<1>3. \A e \in ApiErrors : e.type = "api"
  BY DEF ApiErrors
<1> QED
  BY <1>1, <1>2, <1>3, NoExit

\* What services refuse is no exit, and no ValueError but where a run is guarded.
LEMMA RefusedErrors ==
    ASSUME ServiceRefuses
    PROVE  \E e : /\ Raise(e)
                  /\ e \notin {NoError, ExitWith(0)} /\ e.type # "missing_login"
                  /\ Head(todo).guard # "run" => e # Raised("value")
<1>0. PICK a \in ApiErrors : \E e \in Injected(a) : Raise(e)
  BY DEF ServiceRefuses
<1>1. PICK e \in Injected(a) : Raise(e)
  BY <1>0
<1>2. e.type \in {"api", "requirements", "value"}
  BY NoExit
<1>3. e \notin {NoError, ExitWith(0)}
  BY <1>2, NoExit, ErrorsDiffer
<1>4. Head(todo).guard # "run" => e \in {a, Requirements(a)}
  BY DEF Injected
<1>5. Head(todo).guard # "run" => e # Raised("value")
  <2>1. a.type # "value" /\ Requirements(a).type # "value"
    BY ErrorsDiffer, NoExit
  <2> QED
    BY <1>4, <2>1, NoExit
<1> QED
  BY <1>1, <1>2, <1>3, <1>5

LEMMA RaiseStops ==
    ASSUME phase = "running", todo # <<>>, NEW e, Raise(e), StopsAt(Head(todo), e)
    PROVE  Stops
  BY DEF Raise, Finish, made, optionVars, Stops

LEMMA RefusedStops ==
    ASSUME phase = "running", todo # <<>>, ~LeftOut(Head(todo)), ServiceRefuses,
           Head(todo).does \notin {"exit", "client", "batch", "text", "echo", "verbose", "show"}
    PROVE  Stops
  BY RefusedErrors, RaiseStops DEF StopsAt

\* An error of the CLI's own that is neither an exit nor a missing login
LEMMA RaisedStops ==
    ASSUME phase = "running", todo # <<>>, ~LeftOut(Head(todo)),
           Head(todo).does \notin {"exit", "client", "text", "echo", "verbose"},
           Head(todo).does = "show" => ~InText,
           NEW e, Raise(e), e \notin {NoError, ExitWith(0)}, e.type # "missing_login"
    PROVE  Stops
  BY RaiseStops DEF StopsAt

\* A step that says nothing and changes nothing
LEMMA PassTakes ==
    ASSUME phase = "running", todo # <<>>, Pass,
           \/ LeftOut(Head(todo))
           \/ Head(todo).does \in {"client", "reject", "type", "gare", "fail", "read",
                                   "ask", "provision", "batch", "names"}
    PROVE  Takes
<1>1. /\ phase' = "running" /\ todo' = Tail(todo) /\ UNCHANGED <<state, command>>
      /\ UNCHANGED <<asserted, wrote, documents, texts>>
  BY DEF Pass, Proceed, made, optionVars
<1>2. CASE LeftOut(Head(todo))
  BY <1>1, <1>2 DEF Takes
<1>3. CASE /\ ~LeftOut(Head(todo))
           /\ Head(todo).does \in {"client", "reject", "type", "gare", "fail", "read",
                                   "ask", "provision", "batch", "names"}
  BY <1>1, <1>3 DEF Takes, Changes, Machine, Prints
<1> QED
  BY <1>2, <1>3

\* Every step of a command is one of these, or none.
LEMMA StepKinds ==
    ASSUME TypeOK, IdleInv, [Next]_vars
    PROVE  (Starts \/ Takes \/ Stays \/ Stops) /\ UNCHANGED credentials
<1>0. CASE UNCHANGED vars
  BY <1>0 DEF vars, run, made, optionVars, Stays
<1> SUFFICES ASSUME Act PROVE Starts \/ Takes \/ Stays \/ Stops
  BY <1>0 DEF Next
<1>e. /\ Raised("usage").type = "usage" /\ Raised("value").type = "value"
      /\ Raised("network").type = "network" /\ Raised("wrong_type").type = "wrong_type"
      /\ Requirements(NoError).type = "requirements"
      /\ Raised("missing_login") \notin {NoError, ExitWith(0)}
      /\ {Raised("usage"), Raised("value"), Raised("network"), Raised("wrong_type"),
          Requirements(NoError)} \intersect {NoError, ExitWith(0)} = {}
  BY NoExit, ErrorsDiffer
<1>1. CASE Options
  BY <1>1 DEF Options, run, made, Stays
<1>2. CASE RefuseCommandLine
  BY <1>2 DEF RefuseCommandLine, Raise, Finish, made, optionVars, Stops
<1>3. CASE Invoke
  BY <1>3 DEF Invoke, made, IdleInv, NothingMade, Starts
<1>4. CASE Return
  BY <1>4 DEF Return, Raise, Finish, made, optionVars, Stops
<1>5. CASE LeaveOut
  BY <1>5, PassTakes DEF LeaveOut
<1>6. CASE CheckLogins
  <2>1. CASE Proceed /\ asserted' = asserted \union Head(todo).on
             /\ UNCHANGED <<wrote, documents, texts, lines, path, items, tasks>>
    BY <1>6, <2>1 DEF CheckLogins, At, Proceed, optionVars, Takes, Changes, Machine, Prints
  <2>2. CASE credentials = "user" /\ Raise(Raised("missing_login"))
    BY <1>6, <1>e, <2>2, RaiseStops DEF CheckLogins, At, StopsAt
  <2>3. CASE Raise(Raised("value"))
    BY <1>6, <1>e, <2>3, RaisedStops DEF CheckLogins, At
  <2> QED
    BY <1>6, <2>1, <2>2, <2>3 DEF CheckLogins
<1>7. CASE GetClient
  <2>0. phase = "running" /\ todo # <<>> /\ Head(todo).does = "client" /\ ~LeftOut(Head(todo))
    BY <1>7 DEF GetClient, At
  <2>1. CASE Pass
    BY <2>0, <2>1, PassTakes
  <2>2. CASE credentials = "user" /\ ~(Head(todo).on \subseteq asserted) /\ Raise(Raised("value"))
    BY <1>e, <2>0, <2>2, RaiseStops DEF StopsAt
  <2>3. CASE credentials = "client" /\ ServiceRefuses
    BY <2>0, <2>3, RefusedErrors, RaiseStops DEF StopsAt
  <2>4. CASE credentials = "client" /\ Raise(Raised("network"))
    BY <1>e, <2>0, <2>4, RaiseStops DEF StopsAt
  <2> QED
    BY <1>7, <2>1, <2>2, <2>3, <2>4 DEF GetClient
<1>8. CASE CheckArguments
  BY <1>8, <1>e, PassTakes, RaisedStops DEF CheckArguments, At
<1>9. CASE Call
  BY <1>9, <1>e, PassTakes, RaisedStops, RefusedStops DEF Call, At
<1>10. CASE Change
  <2>1. CASE Proceed /\ wrote' = wrote + 1
             /\ UNCHANGED <<asserted, documents, texts, lines, path, items, tasks>>
    BY <1>10, <2>1 DEF Change, At, Proceed, optionVars, Takes, Changes, Machine, Prints
  <2> QED
    BY <1>10, <1>e, <2>1, RaisedStops, RefusedStops DEF Change, At
<1>11. CASE Submission
  <2>0. phase = "running" /\ todo # <<>> /\ Head(todo).does = "submit" /\ ~LeftOut(Head(todo))
    BY <1>11 DEF Submission, At
  <2>1. CASE Proceed /\ wrote' = wrote + 1 /\ UNCHANGED <<asserted, documents, texts>>
    BY <2>0, <2>1 DEF Proceed, optionVars, Takes, Changes, Machine, Prints
  <2>2. CASE Finish(Raised("network")) /\ UNCHANGED <<asserted, wrote, documents, texts>>
    BY <1>e, <2>0, <2>2 DEF Finish, optionVars, Stops, StopsAt
  <2>3. CASE Raise(Raised("network")) \/ ServiceRefuses
    BY <1>e, <2>0, <2>3, RaisedStops, RefusedStops
  <2> QED
    BY <1>11, <2>1, <2>2, <2>3 DEF Submission
<1>12. CASE BatchLine
  BY <1>12 DEF BatchLine, optionVars, Stays
<1>13. CASE BatchEnds
  <2>0. phase = "running" /\ todo # <<>> /\ Head(todo).does = "batch" /\ ~LeftOut(Head(todo))
    BY <1>13 DEF BatchEnds, At
  <2>1. \A n : ExitWith(n).type = "exit"
    BY ErrorsDiffer
  <2>2. ASSUME NEW n, Raise(ExitWith(n)) PROVE Stops
    BY <2>0, <2>1, <2>2, RaiseStops DEF StopsAt
  <2> QED
    BY <1>13, <1>e, <2>0, <2>2, PassTakes, RaisedStops DEF BatchEnds
<1>14. CASE LookUpNames
  BY <1>14, <1>e, PassTakes, RaisedStops, RefusedStops DEF LookUpNames, At
<1>15. CASE Display
  <2>0. /\ phase = "running" /\ todo # <<>> /\ Head(todo).does \in {"show", "silent"}
        /\ ~LeftOut(Head(todo))
    BY <1>15 DEF Display, At
  <2>1. ASSUME Proceed, UNCHANGED <<asserted, wrote>>,
               IF InText
               THEN /\ texts' = IF Head(todo).does = "show" THEN texts + 1 ELSE texts
                    /\ UNCHANGED documents
               ELSE documents' = documents + 1 /\ UNCHANGED texts
        PROVE  Takes
    BY <2>0, <2>1 DEF Proceed, optionVars, Takes, Changes, Machine, Prints
  <2>2. state.output_format = "unix" => ~InText
    BY DEF InText
  <2> QED
    BY <1>15, <1>e, <2>0, <2>1, <2>2, RaisedStops DEF Display
<1>16. CASE EchoLine
  BY <1>16 DEF EchoLine, Echoes, At, Proceed, optionVars, Takes, Changes, Machine, Prints
<1>17. CASE ExitStep
  <2>1. \A n : ExitWith(n).type = "exit"
    BY ErrorsDiffer
  <2> QED
    BY <1>17, <2>1, RaiseStops DEF ExitStep, At, StopsAt
<1>18. CASE Repeat
  BY <1>18 DEF Repeat, NothingMade, Starts
<1> QED
  BY <1>1, <1>2, <1>3, <1>4, <1>5, <1>6, <1>7, <1>8, <1>9, <1>10, <1>11, <1>12, <1>13,
     <1>14, <1>15, <1>16, <1>17, <1>18 DEF Act

\* Nothing is made, and no status is set, before a command is invoked.
LEMMA IdleAlways == Spec => []IdleInv
<1>1. Init => IdleInv
  BY DEF Init, IdleInv, NothingMade
<1>2. TypeOK /\ IdleInv /\ [Next]_vars => IdleInv'
  BY StepKinds DEF IdleInv, NothingMade, Starts, Takes, Stays, Stops
<1> QED
  BY <1>1, <1>2, TypeCorrect, PTL DEF Spec

LEMMA SuccessMeansZero ==
    ASSUME StatusInv', phase' = "ended", error' \in {NoError, ExitWith(0)}
    PROVE  status' = 0
<1>1. status' = ExitStatus(error)'
  BY DEF StatusInv, Ended
<1>2. \/ error' = NoError /\ error'.type = "none"
      \/ error' = ExitWith(0) /\ error'.type = "exit" /\ error'.code = 0
  BY DEF NoError, Raised, ExitWith
<1> QED
  BY <1>1, <1>2 DEF ExitStatus

\* The steps that are left are those of the script, but for the first.
LEMMA TailSteps ==
    ASSUME todo \in Seq(Steps), todo # <<>>
    PROVE  /\ 1 \in DOMAIN todo /\ Head(todo) = todo[1]
           /\ \A i \in DOMAIN todo : i \in Int /\ i >= 1
           /\ \A i \in DOMAIN Tail(todo) :
                i \in Int /\ i > 0 /\ i + 1 \in DOMAIN todo /\ Tail(todo)[i] = todo[i + 1]
           /\ \A i \in DOMAIN todo :
                i > 1 => i - 1 \in DOMAIN Tail(todo) /\ Tail(todo)[i - 1] = todo[i]
<1>1. /\ Len(Tail(todo)) = Len(todo) - 1 /\ Len(todo) \in Nat
      /\ DOMAIN todo = 1 .. Len(todo) /\ DOMAIN Tail(todo) = 1 .. Len(todo) - 1
  OBVIOUS
<1> QED
  BY <1>1
-------------------------------------------------------------------------------
(***************************************************************************)
(* Changes are reported.                                                   *)
(***************************************************************************)
\* Logins that the clients of a command are asked for; clients are not.
Checked == IF credentials = "user" THEN asserted ELSE STRING

ReportedSteps(s, services) ==
    \A j \in DOMAIN s :
        \/ Reports(s[j])
        \/ s[j].does = "client" /\ Backed(s, j, services)

\* Commands that may change more than one thing, or wait after the change
Excused == {"task cancel", "rm"}

ReportedInv ==
    /\ ChangedMeansReported
    /\ phase = "running" /\ command \notin Excused =>
        /\ ReportedFrom(todo, Checked)
        /\ wrote > 0 => ReportedSteps(todo, Checked)

\* A login that is behind the command counts like one that is before it.
LEMMA BackedTail ==
    ASSUME todo \in Seq(Steps), todo # <<>>, NEW services, NEW more,
           services \subseteq more,
           Head(todo).does = "login" => Head(todo).on \subseteq more,
           NEW j \in DOMAIN Tail(todo), Backed(todo, j + 1, services)
    PROVE  Backed(Tail(todo), j, more)
<1> SUFFICES ASSUME NEW service \in Tail(todo)[j].on, service \notin more
             PROVE  \E i \in DOMAIN Tail(todo) :
                        /\ i < j /\ Tail(todo)[i].does = "login"
                        /\ service \in Tail(todo)[i].on
  BY DEF Backed
<1>1. service \in todo[j + 1].on /\ j \in Int
  BY TailSteps
<1>2. PICK i \in DOMAIN todo : i < j + 1 /\ todo[i].does = "login" /\ service \in todo[i].on
  BY <1>1 DEF Backed
<1>3. i # 1
  BY <1>2, TailSteps
<1>4. i - 1 \in DOMAIN Tail(todo) /\ Tail(todo)[i - 1] = todo[i] /\ i - 1 < j
  BY <1>1, <1>2, <1>3, TailSteps
<1> QED
  BY <1>2, <1>4

LEMMA BackedMore ==
    ASSUME NEW s, NEW j, NEW services, NEW more, services \subseteq more,
           Backed(s, j, services)
    PROVE  Backed(s, j, more)
  BY DEF Backed

\* The first step is backed by what has been checked.
LEMMA BackedHead ==
    ASSUME todo \in Seq(Steps), todo # <<>>, NEW services, Backed(todo, 1, services)
    PROVE  Head(todo).on \subseteq services
  BY TailSteps DEF Backed

LEMMA CheckedGrows ==
    ASSUME TypeOK, Takes, UNCHANGED credentials
    PROVE  /\ Checked \subseteq Checked'
           /\ Head(todo).does = "login" => Head(todo).on \subseteq Checked'
<1>1. CASE credentials = "user"
  BY <1>1 DEF Takes, LeftOut, Checked
<1>2. CASE credentials # "user"
  BY <1>2, TodoType DEF Checked, TypeOK, Takes
<1> QED
  BY <1>1, <1>2

LEMMA ReportedTail ==
    ASSUME todo \in Seq(Steps), todo # <<>>, NEW services, NEW more,
           services \subseteq more,
           Head(todo).does = "login" => Head(todo).on \subseteq more,
           ReportedFrom(todo, services)
    PROVE  /\ ReportedFrom(Tail(todo), more)
           /\ ReportedSteps(todo, services) => ReportedSteps(Tail(todo), more)
           /\ Head(todo).does \in Changes => ReportedSteps(Tail(todo), more)
<1>1. ASSUME NEW j \in DOMAIN Tail(todo),
             \/ Reports(todo[j + 1])
             \/ todo[j + 1].does = "client" /\ Backed(todo, j + 1, services)
      PROVE  \/ Reports(Tail(todo)[j])
             \/ Tail(todo)[j].does = "client" /\ Backed(Tail(todo), j, more)
  BY <1>1, BackedTail, TailSteps
<1>2. ReportedFrom(Tail(todo), more)
  <2> SUFFICES ASSUME NEW i \in DOMAIN Tail(todo), NEW j \in DOMAIN Tail(todo), i < j,
                      Tail(todo)[i].does \in Changes
               PROVE  \/ Reports(Tail(todo)[j])
                      \/ Tail(todo)[j].does = "client" /\ Backed(Tail(todo), j, more)
    BY DEF ReportedFrom
  <2>1. /\ i + 1 \in DOMAIN todo /\ j + 1 \in DOMAIN todo /\ i + 1 < j + 1
        /\ todo[i + 1].does \in Changes
    BY TailSteps
  <2> QED
    BY <1>1, <2>1 DEF ReportedFrom
<1>3. ReportedSteps(todo, services) => ReportedSteps(Tail(todo), more)
  <2> SUFFICES ASSUME ReportedSteps(todo, services), NEW j \in DOMAIN Tail(todo)
               PROVE  \/ Reports(Tail(todo)[j])
                      \/ Tail(todo)[j].does = "client" /\ Backed(Tail(todo), j, more)
    BY DEF ReportedSteps
  <2>1. j + 1 \in DOMAIN todo
    BY TailSteps
  <2> QED
    BY <1>1, <2>1 DEF ReportedSteps
<1>4. Head(todo).does \in Changes => ReportedSteps(Tail(todo), more)
  <2> SUFFICES ASSUME Head(todo).does \in Changes, NEW j \in DOMAIN Tail(todo)
               PROVE  \/ Reports(Tail(todo)[j])
                      \/ Tail(todo)[j].does = "client" /\ Backed(Tail(todo), j, more)
    BY DEF ReportedSteps
  <2>1. 1 \in DOMAIN todo /\ j + 1 \in DOMAIN todo /\ 1 < j + 1 /\ todo[1].does \in Changes
    BY TailSteps
  <2> QED
    BY <1>1, <2>1 DEF ReportedFrom
<1> QED
  BY <1>2, <1>3, <1>4

LEMMA ReportedStep ==
    TypeOK /\ IdleInv /\ StatusInv' /\ ReportedInv /\ [Next]_vars => ReportedInv'
<1> SUFFICES ASSUME TypeOK, IdleInv, StatusInv', ReportedInv, [Next]_vars PROVE ReportedInv'
  OBVIOUS
<1>0. (Starts \/ Takes \/ Stays \/ Stops) /\ UNCHANGED credentials /\ todo \in Seq(Steps)
  BY StepKinds DEF TypeOK
<1>1. CASE Starts
  <2>1. PICK c \in Catalog : command' = c.name /\ todo' \in c.scripts
    BY <1>1 DEF Starts
  <2>2. CASE c.name \in Excused
    BY <1>1, <2>1, <2>2 DEF Starts, ReportedInv, ChangedMeansReported, Ended
  <2>3. CASE c.name \notin Excused
    <3>1. ReportedFrom(todo', {})
      BY <2>1, <2>3, ReportedAssumption DEF Excused
    <3>2. ReportedFrom(todo, Checked)'
      BY <3>1, BackedMore DEF ReportedFrom
    <3>3. ~(wrote' > 0) /\ phase' = "running"
      BY <1>1 DEF Starts, NothingMade
    <3> QED
      BY <3>2, <3>3 DEF ReportedInv, ChangedMeansReported, Ended
  <2> QED
    BY <2>2, <2>3
<1>2. CASE Takes
  <2>0. phase' = "running" /\ command' = command /\ todo' = Tail(todo)
    BY <1>2 DEF Takes
  <2> SUFFICES ASSUME command \notin Excused
               PROVE  /\ ReportedFrom(todo', Checked')
                      /\ wrote' > 0 => ReportedSteps(todo', Checked')
    <3>1. ReportedFrom(todo', Checked') => ReportedFrom(todo, Checked)'
      BY DEF ReportedFrom, Backed
    <3>2. ReportedSteps(todo', Checked') => ReportedSteps(todo, Checked)'
      BY DEF ReportedSteps, Backed
    <3> QED
      BY <2>0, <3>1, <3>2 DEF ReportedInv, ChangedMeansReported, Ended
  <2>1. ReportedFrom(todo, Checked) /\ (wrote > 0 => ReportedSteps(todo, Checked))
    BY <1>2 DEF Takes, ReportedInv
  <2>2. wrote' > 0 => wrote > 0 \/ Head(todo).does \in Changes
    BY <1>2 DEF Takes
  <2>3. todo # <<>>
    BY <1>2 DEF Takes
  <2> QED
    BY <1>0, <1>2, <2>0, <2>1, <2>2, <2>3, CheckedGrows, ReportedTail
<1>3. CASE Stays
  <2>1. UNCHANGED <<phase, command, todo, asserted, wrote, status, credentials>>
    BY <1>0, <1>3 DEF Stays
  <2> QED
    BY <2>1 DEF ReportedInv, ChangedMeansReported, Ended, EndedAt, ReportedFrom,
       ReportedSteps, Backed, Checked
<1>4. CASE Stops
  <2> SUFFICES ASSUME wrote > 0, status' # 0, command \notin Excused
               PROVE  \/ todo # <<>> /\ Head(todo).does \in {"names", "show", "silent"}
                      \/ credentials = "client" /\ todo # <<>> /\ Head(todo).does = "client"
    BY <1>0, <1>4 DEF Stops, ReportedInv, ChangedMeansReported, Ended, EndedAt, Excused
  <2>1. error' \notin {NoError, ExitWith(0)}
    BY <1>4, SuccessMeansZero DEF Stops
  <2>0. phase # "options"
    <3>1. wrote \in Nat
      BY DEF TypeOK
    <3>2. wrote # 0
      BY <3>1
    <3> QED
      BY <3>2 DEF IdleInv, NothingMade
  <2>2. phase = "running" /\ todo # <<>> /\ StopsAt(Head(todo), error')
    BY <1>4, <2>0, <2>1 DEF Stops
  <2>3. \/ Reports(todo[1])
        \/ todo[1].does = "client" /\ Backed(todo, 1, Checked)
    BY <1>0, <2>2, TailSteps DEF ReportedInv, ReportedSteps
  <2>4. CASE Reports(Head(todo))
    BY <2>1, <2>2, <2>4 DEF Reports, Succeeds, StopsAt, ExitCodes
  <2>5. CASE Head(todo).does = "client" /\ Head(todo).on \subseteq Checked
    BY <2>2, <2>5 DEF StopsAt, Checked
  <2> QED
    BY <1>0, <2>2, <2>3, <2>4, <2>5, BackedHead, TailSteps
<1> QED
  BY <1>0, <1>1, <1>2, <1>3, <1>4

\* After a service has confirmed a change a command ends well or in its output,
\* in every catalogue that puts the steps which can fail before it.
THEOREM ReportedTheorem == Spec => []ChangedMeansReported
<1>1. Init => ReportedInv
  BY DEF Init, ReportedInv, ChangedMeansReported, Ended
<1>2. TypeOK /\ IdleInv /\ StatusInv' /\ ReportedInv /\ [Next]_vars => ReportedInv'
  BY ReportedStep
<1>3. ReportedInv => ChangedMeansReported
  BY DEF ReportedInv
<1> QED
  BY <1>1, <1>2, <1>3, TypeCorrect, IdleAlways, StatusAlways, PTL DEF Spec
-------------------------------------------------------------------------------
(***************************************************************************)
(* Missing logins.                                                         *)
(***************************************************************************)
ExitsBacked(s, name) ==
    \A i \in DOMAIN s :
        s[i].does = "exit" /\ s[i].call = "auth" =>
            s[i].guard = "user" \/ name = "collection create guest"

ClientsInv ==
    /\ ClientsHaveLogins
    /\ phase = "running" => ClientsBacked(todo, Checked, command) /\ ExitsBacked(todo, command)

LEMMA ClientsTail ==
    ASSUME todo \in Seq(Steps), todo # <<>>, NEW services, NEW more, NEW name,
           services \subseteq more,
           Head(todo).does = "login" => Head(todo).on \subseteq more,
           ClientsBacked(todo, services, name), ExitsBacked(todo, name)
    PROVE  ClientsBacked(Tail(todo), more, name) /\ ExitsBacked(Tail(todo), name)
<1>1. ASSUME NEW j \in DOMAIN Tail(todo), Tail(todo)[j].does = "client"
      PROVE  /\ Tail(todo)[j].guard # "run"
             /\ \/ Backed(Tail(todo), j, more)
                \/ Tail(todo)[j].on = {"auth"} /\ name \in AuthUnasked
  <2>1. j + 1 \in DOMAIN todo /\ todo[j + 1] = Tail(todo)[j]
    BY TailSteps
  <2>2. /\ todo[j + 1].guard # "run"
        /\ \/ Backed(todo, j + 1, services)
           \/ todo[j + 1].on = {"auth"} /\ name \in AuthUnasked
    BY <1>1, <2>1 DEF ClientsBacked
  <2> QED
    BY <2>1, <2>2, BackedTail
<1>2. ExitsBacked(Tail(todo), name)
  BY TailSteps DEF ExitsBacked
<1> QED
  BY <1>1, <1>2 DEF ClientsBacked

\* The codes of the steps that end a command
LEMMA AuthIsFour ==
    ASSUME NEW call \in DOMAIN ExitCodes, ExitCodes[call] = 4
    PROVE  call = "auth"
  BY DEF ExitCodes

LEMMA ClientsStep ==
    TypeOK /\ IdleInv /\ StatusInv' /\ ClientsInv /\ [Next]_vars => ClientsInv'
<1> SUFFICES ASSUME TypeOK, IdleInv, StatusInv', ClientsInv, [Next]_vars PROVE ClientsInv'
  OBVIOUS
<1>0. (Starts \/ Takes \/ Stays \/ Stops) /\ UNCHANGED credentials /\ todo \in Seq(Steps)
  BY StepKinds DEF TypeOK
<1>r. ASSUME phase' = "running", ClientsBacked(todo', Checked', command'),
             ExitsBacked(todo', command')
      PROVE  ClientsInv'
  <2>1. ClientsHaveLogins'
    BY <1>r DEF ClientsHaveLogins, EndedAt, Ended
  <2>2. ClientsBacked(todo, Checked, command)'
    BY <1>r DEF ClientsBacked, Backed
  <2>3. ExitsBacked(todo, command)'
    BY <1>r DEF ExitsBacked
  <2> QED
    BY <2>1, <2>2, <2>3 DEF ClientsInv
<1>1. CASE Starts
  <2>1. PICK c \in Catalog : command' = c.name /\ todo' \in c.scripts
    BY <1>1 DEF Starts
  <2>2. ClientsBacked(todo', {}, c.name) /\ ExitsBacked(todo', c.name)
    BY <2>1, ClientsAssumption DEF ExitsBacked
  <2>3. ClientsBacked(todo', Checked', c.name)
    BY <2>2, BackedMore DEF ClientsBacked
  <2> QED
    BY <1>1, <1>r, <2>1, <2>2, <2>3 DEF Starts
<1>2. CASE Takes
  <2>1. /\ phase' = "running" /\ todo # <<>> /\ todo' = Tail(todo) /\ command' = command
        /\ ClientsBacked(todo, Checked, command) /\ ExitsBacked(todo, command)
    BY <1>2 DEF Takes, ClientsInv
  <2>2. /\ Checked \subseteq Checked'
        /\ Head(todo).does = "login" => Head(todo).on \subseteq Checked'
    BY <1>0, <1>2, CheckedGrows
  <2> QED
    BY <1>0, <1>r, <2>1, <2>2, ClientsTail
<1>3. CASE Stays
  <2>1. UNCHANGED <<phase, command, todo, asserted, error, status, credentials>>
    BY <1>0, <1>3 DEF Stays
  <2> QED
    BY <2>1 DEF ClientsInv, ClientsHaveLogins, Ended, EndedAt, ClientsBacked, ExitsBacked,
       Backed, Checked
<1>4. CASE Stops
  <2>1. phase' = "ended" /\ UNCHANGED <<command, todo, credentials>>
    BY <1>0, <1>4 DEF Stops
  <2>2. error'.type = "missing_login" => credentials = "user"
    BY <1>4, NoExit, ErrorsDiffer DEF Stops, StopsAt
  <2>3. ASSUME todo # <<>>
        PROVE  /\ phase = "running" /\ StopsAt(Head(todo), error')
               /\ ClientsBacked(todo, Checked, command) /\ ExitsBacked(todo, command)
               /\ 1 \in DOMAIN todo /\ Head(todo) = todo[1]
    BY <1>0, <1>4, <2>3, TailSteps DEF Stops, IdleInv, ClientsInv
  <2>4. ASSUME todo # <<>>, Head(todo).does = "client", error' = Raised("value")
        PROVE  Head(todo).on = {"auth"} /\ command \in AuthUnasked
    <3>1. Head(todo).guard # "run"
      BY <2>3, <2>4 DEF ClientsBacked
    <3>2. credentials = "user" /\ ~(Head(todo).on \subseteq asserted)
      BY <2>3, <2>4, <3>1 DEF StopsAt
    <3>3. ~Backed(todo, 1, Checked)
      BY <1>0, <2>4, <3>2, BackedHead DEF Checked
    <3> QED
      BY <2>3, <2>4, <3>3 DEF ClientsBacked
  <2>5. ASSUME credentials = "client", status' = 4, todo # <<>>, Head(todo).does = "exit"
        PROVE  command = "collection create guest"
    <3>1. error' = ExitWith(ExitCodes[Head(todo).call]) /\ Head(todo).guard # "user"
      BY <2>3, <2>5 DEF StopsAt, LeftOut
    <3>2. status' = ExitStatus(error)'
      BY <2>1 DEF StatusInv, Ended
    <3>3. ExitCodes[Head(todo).call] = 4
      BY <2>5, <3>1, <3>2 DEF ExitStatus, ExitWith
    <3>4. Head(todo).call \in DOMAIN ExitCodes
      BY <1>0, <2>5, TodoType DEF Steps
    <3> QED
      BY <2>3, <2>5, <3>1, <3>3, <3>4, AuthIsFour DEF ExitsBacked
  <2> QED
    BY <2>1, <2>2, <2>4, <2>5 DEF ClientsInv, ClientsHaveLogins, Ended, EndedAt
<1> QED
  BY <1>0, <1>1, <1>2, <1>3, <1>4

\* A missing login is found by the check, not by the client that needs it, and
\* clients are not told to log in, in every catalogue that asserts its logins
\* before it makes its clients.
THEOREM ClientsTheorem == Spec => []ClientsHaveLogins
<1>1. Init => ClientsInv
  BY NoExit DEF Init, ClientsInv, ClientsHaveLogins, EndedAt, Ended
<1>2. TypeOK /\ IdleInv /\ StatusInv' /\ ClientsInv /\ [Next]_vars => ClientsInv'
  BY ClientsStep
<1>3. ClientsInv => ClientsHaveLogins
  BY DEF ClientsInv
<1> QED
  BY <1>1, <1>2, <1>3, TypeCorrect, IdleAlways, StatusAlways, PTL DEF Spec
-------------------------------------------------------------------------------
(***************************************************************************)
(* One document.                                                           *)
(***************************************************************************)
NoneLeft(s) == \A i \in DOMAIN s : s[i].does \notin Machine

\* The document is printed, or will be before the command can succeed.
DocumentDue(s) ==
    \/ documents = 1 /\ NoneLeft(s)
    \/ documents = 0 /\ ShowsOnce(s)
    \/ NeverSucceeds(s)
    \/ documents = 0 /\ command \in Undocumented /\ ShowsAtMostOnce(s)

DocumentInv ==
    /\ OneDocument
    /\ phase = "running" /\ ~InText /\ command \notin FreeText =>
        texts = 0 /\ NothingElse(todo) /\ DocumentDue(todo)

LEMMA NothingElseTail ==
    ASSUME todo \in Seq(Steps), todo # <<>>
    PROVE  /\ NothingElse(todo) => NothingElse(Tail(todo))
           /\ NoneLeft(todo) => NoneLeft(Tail(todo))
<1>1. ASSUME NothingElse(todo) PROVE NothingElse(Tail(todo))
  BY <1>1, TailSteps DEF NothingElse
<1>2. ASSUME NoneLeft(todo) PROVE NoneLeft(Tail(todo))
  BY <1>2, TailSteps DEF NoneLeft
<1> QED
  BY <1>1, <1>2

\* The step that shows the document is the first one, or it is still to come.
LEMMA ShowsTail ==
    ASSUME todo \in Seq(Steps), todo # <<>>, ShowsOnce(todo)
    PROVE  \/ /\ Head(todo).does \in Machine /\ Head(todo).guard # "user"
              /\ NoneLeft(Tail(todo))
           \/ /\ Head(todo).does \notin Machine /\ ~Succeeds(Head(todo))
              /\ ShowsOnce(Tail(todo))
<1>1. PICK i \in DOMAIN todo :
        /\ todo[i].does \in Machine /\ todo[i].guard # "user"
        /\ \A j \in DOMAIN todo : j # i => todo[j].does \notin Machine
        /\ \A j \in DOMAIN todo : j < i => ~Succeeds(todo[j])
  BY DEF ShowsOnce
<1>2. CASE i = 1
  <2>1. \A j \in DOMAIN Tail(todo) : j + 1 \in DOMAIN todo /\ j + 1 # 1
    BY TailSteps
  <2> QED
    BY <1>1, <1>2, <2>1, TailSteps DEF NoneLeft
<1>3. CASE i # 1
  <2>1. i > 1 /\ i \in Int /\ i - 1 \in DOMAIN Tail(todo) /\ Tail(todo)[i - 1] = todo[i]
    BY <1>3, TailSteps
  <2>2. \A j \in DOMAIN Tail(todo) :
            /\ Tail(todo)[j] = todo[j + 1] /\ j + 1 \in DOMAIN todo
            /\ j # i - 1 => j + 1 # i
            /\ j < i - 1 => j + 1 < i
    <3>1. \A j \in DOMAIN Tail(todo) :
            j \in Int /\ Tail(todo)[j] = todo[j + 1] /\ j + 1 \in DOMAIN todo
      BY TailSteps
    <3>2. \A j \in Int : (j # i - 1 => j + 1 # i) /\ (j < i - 1 => j + 1 < i)
      BY <2>1
    <3> QED
      BY <3>1, <3>2
  <2>3. ShowsOnce(Tail(todo))
    <3>1. \A j \in DOMAIN Tail(todo) : j # i - 1 => Tail(todo)[j].does \notin Machine
      BY <1>1, <2>2
    <3>2. \A j \in DOMAIN Tail(todo) : j < i - 1 => ~Succeeds(Tail(todo)[j])
      BY <1>1, <2>2
    <3> QED
      BY <1>1, <2>1, <3>1, <3>2 DEF ShowsOnce
  <2>4. 1 < i /\ 1 # i /\ 1 \in DOMAIN todo /\ Head(todo) = todo[1]
    BY <1>3, <2>1, TailSteps
  <2> QED
    BY <1>1, <2>3, <2>4
<1> QED
  BY <1>2, <1>3

\* Where there need not be a document, there is none yet or no other is to come.
LEMMA AtMostOnceTail ==
    ASSUME todo \in Seq(Steps), todo # <<>>, ShowsAtMostOnce(todo)
    PROVE  /\ Head(todo).does \in Machine => NoneLeft(Tail(todo))
           /\ ShowsAtMostOnce(Tail(todo))
<1>1. 1 \in DOMAIN todo /\ Head(todo) = todo[1]
  BY TailSteps
<1>2. \A j \in DOMAIN Tail(todo) :
        /\ Tail(todo)[j] = todo[j + 1] /\ j + 1 \in DOMAIN todo /\ j + 1 # 1
  BY TailSteps
<1>3. \A j, k \in DOMAIN Tail(todo) : j + 1 = k + 1 => j = k
  BY TailSteps
<1>4. ASSUME Head(todo).does \in Machine PROVE NoneLeft(Tail(todo))
  BY <1>1, <1>2, <1>4 DEF ShowsAtMostOnce, NoneLeft
<1>5. ShowsAtMostOnce(Tail(todo))
  BY <1>2, <1>3 DEF ShowsAtMostOnce
<1> QED
  BY <1>4, <1>5

\* A command that cannot succeed has not ended, and still cannot.
LEMMA NeverTail ==
    ASSUME todo \in Seq(Steps), todo # <<>>, NeverSucceeds(todo)
    PROVE  /\ ~Succeeds(Head(todo))
           /\ Head(todo).does = "exit" => Head(todo).guard = "user" \/ Head(todo).call # "success"
           /\ Head(todo).does # "exit" \/ Head(todo).guard = "user" =>
                    NeverSucceeds(Tail(todo))
<1>1. PICK i \in DOMAIN todo :
        /\ todo[i].does = "exit" /\ todo[i].guard # "user"
        /\ \A j \in DOMAIN todo : j <= i => ~Succeeds(todo[j])
  BY DEF NeverSucceeds
<1>2. i \in Int /\ 1 <= i /\ 1 \in DOMAIN todo /\ Head(todo) = todo[1]
  BY TailSteps
<1>3. ASSUME i # 1 PROVE NeverSucceeds(Tail(todo))
  <2>1. i - 1 \in DOMAIN Tail(todo) /\ Tail(todo)[i - 1] = todo[i]
    BY <1>2, <1>3, TailSteps
  <2>2. \A j \in DOMAIN Tail(todo) :
            /\ Tail(todo)[j] = todo[j + 1] /\ j + 1 \in DOMAIN todo
            /\ j <= i - 1 => j + 1 <= i
    BY <1>2, TailSteps
  <2> QED
    BY <1>1, <2>1, <2>2 DEF NeverSucceeds
<1> QED
  BY <1>1, <1>2, <1>3 DEF Succeeds

\* Codes other than that of success are not 0.
LEMMA SuccessIsZero ==
    ASSUME NEW call \in DOMAIN ExitCodes, ExitWith(ExitCodes[call]) \in {NoError, ExitWith(0)}
    PROVE  call = "success"
<1>1. ExitCodes[call] = 0
  BY ErrorsDiffer
<1> QED
  BY <1>1 DEF ExitCodes

LEMMA DocumentStep == TypeOK /\ IdleInv /\ DocumentInv /\ [Next]_vars => DocumentInv'
<1> SUFFICES ASSUME TypeOK, IdleInv, DocumentInv, [Next]_vars PROVE DocumentInv'
  OBVIOUS
<1>0. (Starts \/ Takes \/ Stays \/ Stops) /\ UNCHANGED credentials /\ todo \in Seq(Steps)
  BY StepKinds DEF TypeOK
<1>r. ASSUME phase' = "running",
             ~InText' /\ command' \notin FreeText =>
                texts' = 0 /\ NothingElse(todo') /\ DocumentDue(todo)'
      PROVE  DocumentInv'
  <2>1. OneDocument'
    BY <1>r DEF OneDocument, Ended
  <2>2. NothingElse(todo') => NothingElse(todo)'
    BY DEF NothingElse
  <2> QED
    BY <1>r, <2>1, <2>2 DEF DocumentInv, FreeText
<1>1. CASE Starts
  <2>1. PICK c \in Catalog : command' = c.name /\ todo' \in c.scripts
    BY <1>1 DEF Starts
  <2>2. texts' = 0 /\ documents' = 0 /\ phase' = "running"
    BY <1>1 DEF Starts, NothingMade
  <2>3. c.name \notin FreeText =>
            /\ NothingElse(todo')
            /\ \/ ShowsOnce(todo') \/ NeverSucceeds(todo')
               \/ c.name \in Undocumented /\ ShowsAtMostOnce(todo')
    BY <2>1, DocumentAssumption
  <2>4. \/ ShowsOnce(todo') \/ NeverSucceeds(todo')
        \/ c.name \in Undocumented /\ ShowsAtMostOnce(todo')
        => DocumentDue(todo)'
    BY <2>1, <2>2 DEF DocumentDue, ShowsOnce, NeverSucceeds, ShowsAtMostOnce, Undocumented
  <2> QED
    BY <1>r, <2>1, <2>2, <2>3, <2>4
<1>2. CASE Takes
  <2> SUFFICES ASSUME ~InText, command \notin FreeText
               PROVE  texts' = 0 /\ NothingElse(Tail(todo)) /\ DocumentDue(todo)'
    BY <1>2, <1>r DEF Takes, InText
  <2>0. /\ todo # <<>> /\ todo' = Tail(todo)
        /\ texts = 0 /\ NothingElse(todo) /\ DocumentDue(todo)
    BY <1>2 DEF Takes, DocumentInv
  <2>1. Head(todo).does \notin {"echo", "verbose"}
    BY <1>0, <2>0, TailSteps DEF NothingElse
  <2>2. texts' = 0
    BY <1>2, <2>0, <2>1 DEF Takes, Prints
  <2>3. documents' = IF Head(todo).does \in Machine /\ ~LeftOut(Head(todo))
                     THEN documents + 1 ELSE documents
    BY <1>2 DEF Takes
  <2>d. ASSUME \/ documents' = 1 /\ NoneLeft(Tail(todo))
               \/ documents' = 0 /\ ShowsOnce(Tail(todo))
               \/ NeverSucceeds(Tail(todo))
               \/ /\ documents' = 0 /\ command \in Undocumented
                  /\ ShowsAtMostOnce(Tail(todo))
        PROVE  DocumentDue(todo)'
    <3>1. command' = command
      BY <1>2 DEF Takes
    <3> QED
      BY <2>0, <2>d, <3>1
      DEF DocumentDue, NoneLeft, ShowsOnce, NeverSucceeds, ShowsAtMostOnce, Undocumented
  <2>4. CASE documents = 1 /\ NoneLeft(todo)
    <3>1. Head(todo).does \notin Machine
      BY <1>0, <2>0, <2>4, TailSteps DEF NoneLeft
    <3> QED
      BY <1>0, <2>0, <2>2, <2>3, <2>d, <2>4, <3>1, NothingElseTail
  <2>5. CASE documents = 0 /\ ShowsOnce(todo)
    <3>1. CASE /\ Head(todo).does \in Machine /\ Head(todo).guard # "user"
               /\ NoneLeft(Tail(todo))
      <4>1. documents' = 1
        BY <2>3, <2>5, <3>1 DEF LeftOut
      <4> QED
        BY <1>0, <2>0, <2>2, <2>d, <3>1, <4>1, NothingElseTail
    <3>2. CASE Head(todo).does \notin Machine /\ ShowsOnce(Tail(todo))
      BY <1>0, <2>0, <2>2, <2>3, <2>d, <2>5, <3>2, NothingElseTail
    <3> QED
      BY <1>0, <2>0, <2>5, <3>1, <3>2, ShowsTail
  <2>6. CASE NeverSucceeds(todo)
    <3>1. Head(todo).does # "exit" \/ Head(todo).guard = "user"
      BY <1>2 DEF Takes, LeftOut
    <3>2. NeverSucceeds(Tail(todo))
      BY <1>0, <2>0, <2>6, <3>1, NeverTail
    <3> QED
      BY <1>0, <2>0, <2>2, <2>d, <3>2, NothingElseTail
  <2>7. CASE documents = 0 /\ command \in Undocumented /\ ShowsAtMostOnce(todo)
    <3>1. /\ Head(todo).does \in Machine => NoneLeft(Tail(todo))
          /\ ShowsAtMostOnce(Tail(todo))
      BY <1>0, <2>0, <2>7, AtMostOnceTail
    <3>2. (documents' = 1 /\ Head(todo).does \in Machine) \/ documents' = 0
      BY <2>3, <2>7
    <3> QED
      BY <1>0, <2>0, <2>2, <2>d, <2>7, <3>1, <3>2, NothingElseTail
  <2> QED
    BY <2>0, <2>4, <2>5, <2>6, <2>7 DEF DocumentDue
<1>3. CASE Stays
  <2>1. UNCHANGED <<phase, command, todo, documents, texts, error>>
    BY <1>3 DEF Stays
  <2>2. phase # "options" => InText' = InText
    BY <1>3 DEF Stays, InText
  <2>3. phase \in {"options", "running", "ended"}
    BY DEF TypeOK
  <2>4. UNCHANGED <<OneDocument, NothingElse(todo), DocumentDue(todo)>> \/ phase = "options"
    BY <2>1, <2>2 DEF OneDocument, Ended, EndedAt, NothingElse, DocumentDue, NoneLeft,
       ShowsOnce, NeverSucceeds, ShowsAtMostOnce, Undocumented
  <2> QED
    BY <2>1, <2>2, <2>3, <2>4 DEF DocumentInv, OneDocument, Ended
<1>4. CASE Stops
  <2> SUFFICES ASSUME error' \in {NoError, ExitWith(0)}, ~EndedAt({"batch"})',
                      ~InText, command \notin FreeText
               PROVE  /\ documents = 1 \/ (documents = 0 /\ command \in Undocumented)
                      /\ texts = 0
    BY <1>4 DEF Stops, DocumentInv, OneDocument, InText, Ended, Undocumented
  <2>1. phase' = "ended" /\ UNCHANGED todo
    BY <1>4 DEF Stops
  <2>2. phase = "running"
    BY <1>4, ErrorsDiffer DEF Stops
  <2>3. texts = 0 /\ DocumentDue(todo)
    BY <2>2 DEF DocumentInv
  <2>4. CASE todo = <<>>
    BY <2>3, <2>4 DEF DocumentDue, ShowsOnce, NeverSucceeds, ShowsAtMostOnce
  <2>5. CASE todo # <<>>
    <3>1. StopsAt(Head(todo), error') /\ Head(todo).does # "batch"
      BY <1>4, <2>1, <2>2, <2>5 DEF Stops, EndedAt, Ended
    <3>2. Head(todo).does = "exit" /\ error' = ExitWith(ExitCodes[Head(todo).call])
      BY <3>1 DEF StopsAt
    <3>3. Succeeds(Head(todo))
      BY <1>0, <2>5, <3>2, SuccessIsZero, TodoType DEF Steps, Succeeds
    <3>4. \/ documents = 1 \/ (documents = 0 /\ command \in Undocumented)
          \/ ShowsOnce(todo) \/ NeverSucceeds(todo)
      BY <2>3 DEF DocumentDue
    <3>5. ~ShowsOnce(todo) /\ ~NeverSucceeds(todo)
      BY <1>0, <2>5, <3>2, <3>3, ShowsTail, NeverTail DEF Machine
    <3> QED
      BY <2>3, <3>4, <3>5
  <2> QED
    BY <2>4, <2>5
<1> QED
  BY <1>0, <1>1, <1>2, <1>3, <1>4

\* A command that succeeds prints one document in the machine formats, and nothing
\* besides, in every catalogue whose scripts show something once before they end;
\* the commands that need not, which are named, print one document or nothing.
THEOREM DocumentTheorem == Spec => []OneDocument
<1>1. Init => DocumentInv
  BY DEF Init, DocumentInv, OneDocument, Ended
<1>2. TypeOK /\ IdleInv /\ DocumentInv /\ [Next]_vars => DocumentInv'
  BY DocumentStep
<1>3. DocumentInv => OneDocument
  BY DEF DocumentInv
<1> QED
  BY <1>1, <1>2, <1>3, TypeCorrect, IdleAlways, PTL DEF Spec
-------------------------------------------------------------------------------
(***************************************************************************)
(* Cancelled tasks.                                                        *)
(***************************************************************************)
\* A change that has been confirmed and not announced is announced next.
Owes == todo # <<>> /\ Head(todo).does \in TellsInText

Cancels == InText /\ command = "task cancel"
Balance == IF Owes THEN wrote = texts + 1 ELSE wrote = texts

AnnouncedInv ==
    /\ CancelledAreListed
    /\ phase = "running" /\ Cancels => Announced(todo) /\ Balance

LEMMA AnnouncedTail ==
    ASSUME todo \in Seq(Steps), todo # <<>>, Announced(todo)
    PROVE  /\ Announced(Tail(todo))
           /\ Head(todo).does # "verbose"
           /\ Head(todo).does \in TellsInText \union Changes => Head(todo).guard # "user"
           /\ Head(todo).does \in Changes <=>
                Tail(todo) # <<>> /\ Head(Tail(todo)).does \in TellsInText
<1>1. ASSUME NEW i \in DOMAIN Tail(todo)
      PROVE  /\ i \in Int /\ i + 1 \in DOMAIN todo /\ Tail(todo)[i] = todo[i + 1]
             /\ Tail(todo)[i].does # "verbose"
             /\ Tail(todo)[i].does \in TellsInText \union Changes => Tail(todo)[i].guard # "user"
  BY TailSteps DEF Announced
<1>2. ASSUME NEW i \in DOMAIN Tail(todo), Tail(todo)[i].does \in Changes
      PROVE  i + 1 \in DOMAIN Tail(todo) /\ Tail(todo)[i + 1].does \in TellsInText
  <2>1. i + 1 + 1 \in DOMAIN todo /\ todo[i + 1 + 1].does \in TellsInText
    BY <1>1, <1>2 DEF Announced
  <2>2. i + 1 + 1 > 1 /\ (i + 1 + 1) - 1 = i + 1
    BY <1>1, TailSteps
  <2> QED
    BY <2>1, <2>2, TailSteps
<1>3. ASSUME NEW i \in DOMAIN Tail(todo), i > 1, Tail(todo)[i].does \in TellsInText
      PROVE  Tail(todo)[i - 1].does \in Changes
  <2>1. i + 1 \in DOMAIN todo /\ i + 1 > 1 /\ (i + 1) - 1 = i /\ i \in Int
    BY <1>1, <1>3
  <2>2. todo[i].does \in Changes
    BY <1>1, <1>3, <2>1 DEF Announced
  <2>3. i \in DOMAIN todo /\ Tail(todo)[i - 1] = todo[i]
    <3>1. Len(todo) \in Nat /\ DOMAIN todo = 1 .. Len(todo)
      OBVIOUS
    <3>2. i \in DOMAIN todo
      BY <1>3, <2>1, <3>1
    <3> QED
      BY <1>3, <3>2, TailSteps
  <2> QED
    BY <2>2, <2>3
<1>4. Announced(Tail(todo))
  BY <1>1, <1>2, <1>3 DEF Announced
<1>5. 1 \in DOMAIN todo /\ Head(todo) = todo[1]
  BY TailSteps
<1>6. /\ Tail(todo) # <<>> <=> 2 \in DOMAIN todo
      /\ Tail(todo) # <<>> => Head(Tail(todo)) = todo[2]
  OBVIOUS
<1>7. Head(todo).does \in Changes <=> Tail(todo) # <<>> /\ Head(Tail(todo)).does \in TellsInText
  <2>1. Head(todo).does \in Changes => 2 \in DOMAIN todo /\ todo[2].does \in TellsInText
    BY <1>5 DEF Announced
  <2>2. 2 \in DOMAIN todo /\ todo[2].does \in TellsInText => todo[1].does \in Changes
    BY DEF Announced
  <2> QED
    BY <1>5, <1>6, <2>1, <2>2
<1> QED
  BY <1>4, <1>5, <1>7 DEF Announced

LEMMA AnnouncedStep == TypeOK /\ IdleInv /\ AnnouncedInv /\ [Next]_vars => AnnouncedInv'
<1> SUFFICES ASSUME TypeOK, IdleInv, AnnouncedInv, [Next]_vars PROVE AnnouncedInv'
  OBVIOUS
<1>0. (Starts \/ Takes \/ Stays \/ Stops) /\ UNCHANGED credentials /\ todo \in Seq(Steps)
  BY StepKinds DEF TypeOK
<1>r. ASSUME phase' = "running",
             Cancels' => Announced(todo') /\ Balance'
      PROVE  AnnouncedInv'
  <2>1. CancelledAreListed'
    BY <1>r DEF CancelledAreListed, Ended
  <2>2. Announced(todo') => Announced(todo)'
    BY DEF Announced
  <2> QED
    BY <1>r, <2>1, <2>2 DEF AnnouncedInv
<1>1. CASE Starts
  <2>1. PICK c \in Catalog : command' = c.name /\ todo' \in c.scripts
    BY <1>1 DEF Starts
  <2>2. texts' = 0 /\ wrote' = 0 /\ phase' = "running"
    BY <1>1 DEF Starts, NothingMade
  <2>3. Cancels' => Announced(todo') /\ ~Owes'
    BY <2>1, AnnouncedAssumption DEF Owes, Cancels
  <2>4. ~Owes' => Balance'
    BY <2>2 DEF Balance
  <2> QED
    BY <1>r, <2>2, <2>3, <2>4
<1>2. CASE Takes
  <2>0. phase' = "running" /\ todo # <<>> /\ todo' = Tail(todo) /\ UNCHANGED <<state, command>>
    BY <1>2 DEF Takes
  <2> SUFFICES ASSUME Cancels PROVE Announced(Tail(todo)) /\ Balance'
    BY <1>r, <2>0 DEF InText, Cancels
  <2>1. Announced(todo) /\ Balance
    BY <1>2 DEF Takes, AnnouncedInv
  <2>2. /\ Announced(Tail(todo)) /\ Head(todo).does # "verbose"
        /\ Head(todo).does \in TellsInText \union Changes => Head(todo).guard # "user"
        /\ Owes' <=> Head(todo).does \in Changes
    BY <1>0, <2>0, <2>1, AnnouncedTail DEF Owes
  <2>3. Owes <=> Head(todo).does \in TellsInText
    BY <2>0 DEF Owes
  <2>4. /\ texts' = IF Head(todo).does \in TellsInText THEN texts + 1 ELSE texts
        /\ wrote' = IF Head(todo).does \in Changes THEN wrote + 1 ELSE wrote
    BY <1>2, <2>2 DEF Takes, LeftOut, Prints, TellsInText, Cancels
  <2>5. CASE Owes
    <3>1. Head(todo).does \in TellsInText /\ Head(todo).does \notin Changes
      BY <2>3, <2>5 DEF TellsInText, Changes
    <3>2. ~Owes' /\ texts' = texts + 1 /\ wrote' = wrote /\ wrote = texts + 1
      BY <2>1, <2>2, <2>4, <2>5, <3>1 DEF Balance
    <3> QED
      BY <2>2, <3>2 DEF Balance
  <2>6. CASE ~Owes /\ Owes'
    <3>1. texts' = texts /\ wrote' = wrote + 1 /\ wrote = texts
      BY <2>1, <2>2, <2>3, <2>4, <2>6 DEF Balance
    <3> QED
      BY <2>2, <2>6, <3>1 DEF Balance
  <2>7. CASE ~Owes /\ ~Owes'
    <3>1. texts' = texts /\ wrote' = wrote /\ wrote = texts
      BY <2>1, <2>2, <2>3, <2>4, <2>7 DEF Balance
    <3> QED
      BY <2>2, <2>7, <3>1 DEF Balance
  <2> QED
    BY <2>5, <2>6, <2>7
<1>3. CASE Stays
  <2>1. UNCHANGED <<phase, command, todo, texts, wrote>>
    BY <1>3 DEF Stays
  <2>2. phase # "options" => InText' = InText
    BY <1>3 DEF Stays, InText
  <2>3. phase \in {"options", "running", "ended"}
    BY DEF TypeOK
  <2>4. Announced(todo') => Announced(todo)'
    BY DEF Announced
  <2>5. Balance' = Balance
    BY <2>1 DEF Balance, Owes
  <2>6. phase # "options" => Cancels' = Cancels
    BY <2>1, <2>2 DEF Cancels
  <2>7. CASE phase = "options"
    BY <2>1, <2>7 DEF AnnouncedInv, CancelledAreListed, Ended
  <2>8. CASE phase = "running"
    BY <2>1, <2>4, <2>5, <2>6, <2>8 DEF AnnouncedInv, CancelledAreListed, Ended
  <2>9. CASE phase = "ended"
    <3>1. InText' = InText
      BY <2>2, <2>9
    <3>2. CancelledAreListed' = CancelledAreListed
      BY <2>1, <3>1 DEF CancelledAreListed, Ended
    <3> QED
      BY <2>1, <2>9, <3>2 DEF AnnouncedInv
  <2> QED
    BY <2>3, <2>7, <2>8, <2>9
<1>4. CASE Stops
  <2> SUFFICES ASSUME Cancels PROVE wrote = texts
    <3>1. phase' = "ended" /\ UNCHANGED <<command, texts, wrote>> /\ InText' = InText
      BY <1>4 DEF Stops, InText
    <3>2. (Cancels => wrote = texts) => CancelledAreListed'
      BY <3>1 DEF CancelledAreListed, Cancels, Ended
    <3> QED
      BY <3>1, <3>2 DEF AnnouncedInv
  <2>1. phase = "running"
    BY <1>4 DEF Stops, IdleInv, Cancels
  <2>2. Balance
    BY <2>1 DEF AnnouncedInv
  <2>3. ~Owes
    BY <1>4, <2>1 DEF Stops, StopsAt, Owes, TellsInText, Cancels
  <2> QED
    BY <2>2, <2>3 DEF Balance
<1> QED
  BY <1>0, <1>1, <1>2, <1>3, <1>4

\* Every task that was cancelled has its line, however task cancel ends, in every
\* catalogue whose script of it prints a line after each cancellation.
THEOREM AnnouncedTheorem == Spec => []CancelledAreListed
<1>1. Init => AnnouncedInv
  BY DEF Init, AnnouncedInv, CancelledAreListed, Ended
<1>2. TypeOK /\ IdleInv /\ AnnouncedInv /\ [Next]_vars => AnnouncedInv'
  BY AnnouncedStep
<1>3. AnnouncedInv => CancelledAreListed
  BY DEF AnnouncedInv
<1> QED
  BY <1>1, <1>2, <1>3, TypeCorrect, IdleAlways, PTL DEF Spec
===============================================================================
