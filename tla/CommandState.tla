----------------------------- MODULE CommandState -----------------------------
(* Options that every command has: the callbacks of globus_cli.parsing that    *)
(* fill the command state.                                                     *)
(*                                                                             *)
(* A command line is read in two contexts, the options before the name of the  *)
(* command and those after it, which share one state.  In each of them click   *)
(* calls the eager callbacks (-v, --quiet, --debug) first, otherwise in the    *)
(* order in which the options are written.                                     *)
EXTENDS Integers, FiniteSets

CONSTANTS
    HttpStatuses,   \* that --map-http-status may be given,
    MappedExits,    \* and the exit statuses it maps them to
    MaxOptions      \* options on a command line

ASSUME OptionsAssumption ==
    MaxOptions \in Nat /\ MappedExits \subseteq {0, 1} \union 50 .. 99

VARIABLES
    state,          \* the CommandState
    context,        \* whose options are being read, "none" when all are
    eager,          \* whether eager callbacks may still be called there
    given           \* the options so far: <<context, option, value>>

optionVars == <<state, context, eager, given>>
-------------------------------------------------------------------------------
Formats == {"text", "json", "unix"}

CommandStates ==
    [output_format : Formats, jmespath_expr : BOOLEAN, debug : BOOLEAN,
     verbosity : Int, http_status_map : UNION {[S -> MappedExits] : S \in SUBSET HttpStatuses}]

\* CommandState.__init__
Defaults ==
    [output_format |-> "text", jmespath_expr |-> FALSE, debug |-> FALSE,
     verbosity |-> 0, http_status_map |-> [h \in {} |-> 0]]

InitOptions ==
    /\ state = Defaults
    /\ context = "group"
    /\ eager = TRUE
    /\ given = {}

\* Fault: --quiet does not last.
SetVerbosity_NoShortCircuit(s, value) == [s EXCEPT !.verbosity = value]

\* set_verbosity: quiet, once set, stays.
SetVerbosity(s, value) ==
    IF s.verbosity < 0 THEN s ELSE [s EXCEPT !.verbosity = value]

\* Options may be repeated, but there is one callback per context.
Callback(option, value) ==
    /\ Cardinality(given) < MaxOptions
    /\ \A g \in given : ~(g[1] = context /\ g[2] = option)
    /\ given' = given \union {<<context, option, value>>}
    /\ UNCHANGED context

EagerCallback(option, value) == eager /\ Callback(option, value) /\ UNCHANGED eager

verbose_callback(count) ==
    /\ EagerCallback("verbose", count)
    /\ state' = SetVerbosity(state, state.verbosity + count)

debug_callback ==
    /\ EagerCallback("debug", TRUE)
    /\ state' =
        [SetVerbosity(state, IF state.verbosity < 3 THEN 3 ELSE state.verbosity)
            EXCEPT !.debug = TRUE]

quiet_callback ==
    /\ EagerCallback("quiet", TRUE)
    /\ state' = SetVerbosity(state, -1)

\* The first callback that is not eager ends the eager ones.
LateCallback(option, value) == Callback(option, value) /\ eager' = FALSE

\* Fault: --format=text is taken at its word.
format_callback_NoGuard(value) ==
    /\ LateCallback("format", value)
    /\ state' = [state EXCEPT !.output_format = value]

\* --format=text is ignored when there is a JMESPath expression.
format_callback(value) ==
    /\ LateCallback("format", value)
    /\ state' = IF value = "text" /\ state.jmespath_expr
                THEN state
                ELSE [state EXCEPT !.output_format = value]

jmespath_callback ==
    /\ LateCallback("jmespath", TRUE)
    /\ state' = [state EXCEPT !.jmespath_expr = TRUE,
                    !.output_format = IF @ = "text" THEN "json" ELSE @]

\* Pairs that are accepted; one that is not ends the command (UsageError).
map_http_status_callback(pairs) ==
    /\ LateCallback("map_http_status", pairs)
    /\ state' = [state EXCEPT !.http_status_map =
                    [h \in DOMAIN pairs \union DOMAIN @ |->
                        IF h \in DOMAIN pairs THEN pairs[h] ELSE @[h]]]

\* The name of the command ends the options of the group.
EnterCommand ==
    /\ context = "group"
    /\ context' = "command"
    /\ eager' = TRUE
    /\ UNCHANGED <<state, given>>

ReadOptions ==
    \/ \E count \in 1 .. 2 : verbose_callback(count)
    \/ debug_callback
    \/ quiet_callback
    \/ \E value \in Formats : format_callback(value)
    \/ jmespath_callback
    \/ \E h \in HttpStatuses, x \in MappedExits : map_http_status_callback([s \in {h} |-> x])
    \/ EnterCommand
-------------------------------------------------------------------------------
Contexts(option) == {g[1] : g \in {g \in given : g[2] = option}}
Values(option) == {g[3] : g \in {g \in given : g[2] = option}}

\* --quiet is "higher precedence than --verbose", and than --debug, whatever
\* comes first and wherever it is written (command_state.py:80).
QuietWins == Contexts("quiet") # {} => state.verbosity = -1

\* The format is the one asked for, and not text with --jmespath, whichever of
\* the two callbacks is called first.  (-F in both contexts: the later one.)
FormatAsGiven ==
    context # "none" =>
    /\ state.jmespath_expr <=> Contexts("jmespath") # {}
    /\ state.jmespath_expr => state.output_format # "text"
    /\ Cardinality(Contexts("format")) <= 1 =>
        LET asked == Values("format") \ {"text"} IN
        state.output_format =
            IF asked # {} THEN CHOOSE f \in asked : TRUE
            ELSE IF state.jmespath_expr THEN "json" ELSE "text"
===============================================================================
