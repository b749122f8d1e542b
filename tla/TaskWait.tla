------------------------------- MODULE TaskWait -------------------------------
(***************************************************************************)
(* Waiting for a Transfer task: commands/_common.py, which `globus task    *)
(* wait` and `globus rm` share.  The loop counts the polling intervals it  *)
(* has waited; each one is a call of TransferClient.task_wait, which looks *)
(* at the task, sleeps for the interval and looks again.  The task goes    *)
(* its own way meanwhile, and calls take time that nobody counts.          *)
(***************************************************************************)
EXTENDS Naturals

CONSTANTS
    Intervals,     \* values of --polling-interval, at least 1
    Timeouts,      \* values of --timeout, NoTimeout when there is none; 0 stands
                   \* for the negative ones too
    NoTimeout,
    ExitCodes,     \* values of --timeout-exit-code
    Horizon        \* bound: clocks stop there, past every timeout

ASSUME OptionsAssumption ==
    /\ Horizon \in Nat \ {0}
    /\ Intervals \subseteq 1..Horizon
    /\ Timeouts \subseteq (0..(Horizon - 1)) \cup {NoTimeout} /\ NoTimeout \notin Nat
    /\ ExitCodes \subseteq {0, 1} \cup 50..99

VARIABLES
    opt,           \* the options of the command
    task,          \* status of the task, or "none" before it is submitted
    finished,      \* the second in which it reached a final status, 0: before
    now,           \* seconds that have passed since the wait began
    pc,            \* of the command
    sleep,         \* seconds left of time.sleep
    waited_time,
    how,           \* what ended the command
    exit_code      \* and its exit status, once pc = "exited"

vars == <<opt, task, finished, now, pc, sleep, waited_time, how, exit_code>>
procVars == <<opt, pc, sleep, waited_time, how, exit_code>>

Final == {"SUCCEEDED", "FAILED"}
Time == 0..Horizon
Capped(n) == IF n > Horizon THEN Horizon ELSE n

Options == [cmd : {"wait", "rm"}, interval : Intervals, timeout : Timeouts,
            timeout_exit_code : ExitCodes]

TypeOK ==
    /\ opt \in Options
    /\ task \in {"none", "ACTIVE", "INACTIVE"} \cup Final
    /\ finished \in Time /\ now \in Time
    /\ pc \in {"submit", "loop", "look", "sleep", "look_again", "get", "give_up", "exited"}
    /\ sleep \in Time /\ waited_time \in Time
    /\ how \in {"none", "completed", "timed_out", "failed", "not_submitted"}
    /\ exit_code \in {0, 1} \cup ExitCodes

\* `task wait` is given a task in any state, `rm` submits one.
Init ==
    /\ opt \in Options
    /\ task \in IF opt.cmd = "rm" THEN {"none"} ELSE {"ACTIVE", "INACTIVE"} \cup Final
    /\ pc = IF opt.cmd = "rm" THEN "submit" ELSE "loop"
    /\ finished = 0 /\ now = 0 /\ sleep = 0 /\ waited_time = 0
    /\ how = "none" /\ exit_code = 0
-------------------------------------------------------------------------------
\* The task.  INACTIVE is one that waits for its owner, who may resume it.  It
\* goes on when the command has exited.
TaskChanges ==
    /\ task \in {"ACTIVE", "INACTIVE"}
    /\ task' \in IF task = "ACTIVE" THEN {"INACTIVE"} \cup Final ELSE {"ACTIVE", "FAILED"}
    /\ finished' = IF task' \in Final THEN Capped(now + 1) ELSE finished
    /\ UNCHANGED <<now, procVars>>

Tick ==
    /\ now' = Capped(now + 1)
    /\ sleep' = IF sleep > 0 THEN sleep - 1 ELSE 0
    /\ UNCHANGED <<opt, task, finished, pc, waited_time, how, exit_code>>
-------------------------------------------------------------------------------
Exit(why, code) ==
    /\ pc' = "exited" /\ how' = why /\ exit_code' = code
    /\ UNCHANGED <<opt, task, finished, now, sleep, waited_time>>

Goto(label) ==
    /\ pc' = label
    /\ UNCHANGED <<opt, task, finished, now, sleep, waited_time, how, exit_code>>

\* rm: a dry run ends with status 0 and a declined confirmation with 1, before
\* anything is submitted.
NotSubmitted ==
    /\ pc = "submit"
    /\ \E code \in {0, 1} : Exit("not_submitted", code)

\* The wait and its clock begin when the task has been submitted.
Submit ==
    /\ pc = "submit"
    /\ task' = "ACTIVE" /\ pc' = "loop" /\ now' = 0
    /\ UNCHANGED <<opt, finished, sleep, waited_time, how, exit_code>>

\* Fault: the last interval has to be longer than what is left.
timed_out_Late == opt.timeout # NoTimeout /\ waited_time > opt.timeout

timed_out == opt.timeout # NoTimeout /\ waited_time >= opt.timeout

\* Fault: the comparison is off by one, and a last interval is not waited for.
Loop_Early ==
    /\ pc = "loop"
    /\ Goto(IF opt.timeout # NoTimeout /\ waited_time + opt.interval >= opt.timeout
            THEN "give_up" ELSE "look")

\* Fault: the loop tests nothing but completion.
Loop_NoTimeout ==
    /\ pc = "loop"
    /\ Goto("look")

\* while not timed_out(waited_time) and not check_completed()
Loop ==
    /\ pc = "loop"
    /\ Goto(IF timed_out THEN "give_up" ELSE "look")

\* TransferClient.task_wait(timeout = polling_interval): anything but ACTIVE
\* counts as complete.
Look ==
    /\ pc = "look"
    /\ IF task # "ACTIVE" THEN Goto("get")
       ELSE /\ pc' = "sleep" /\ sleep' = opt.interval
            /\ UNCHANGED <<opt, task, finished, now, waited_time, how, exit_code>>

WakeUp ==
    /\ pc = "sleep" /\ sleep = 0
    /\ Goto("look_again")

\* Fault: the time is counted twice as fast as it passes.
LookAgain_Twice ==
    /\ pc = "look_again"
    /\ IF task # "ACTIVE" THEN Goto("get")
       ELSE /\ pc' = "loop"
            /\ waited_time' = Capped(waited_time + 2 * opt.interval)
            /\ UNCHANGED <<opt, task, finished, now, sleep, how, exit_code>>

LookAgain ==
    /\ pc = "look_again"
    /\ IF task # "ACTIVE" THEN Goto("get")
       ELSE /\ pc' = "loop"
            /\ waited_time' = Capped(waited_time + opt.interval)
            /\ UNCHANGED <<opt, task, finished, now, sleep, how, exit_code>>

\* Fault: a task that did not succeed is waited for on and on.
Completed_Retry ==
    /\ pc = "get"
    /\ IF task = "SUCCEEDED" THEN Exit("completed", 0) ELSE Goto("loop")

\* check_completed fetches the task once more to learn how it ended.
Completed ==
    /\ pc = "get"
    /\ Exit("completed", IF task = "SUCCEEDED" THEN 0 ELSE 1)

\* Fault: the timeout and its exit code are swapped.
GiveUp_Swapped ==
    /\ pc = "give_up"
    /\ Exit("timed_out", opt.timeout)

GiveUp ==
    /\ pc = "give_up"
    /\ Exit("timed_out", opt.timeout_exit_code)

\* Any of the calls can raise.
CallFails ==
    /\ pc \in {"submit", "look", "look_again", "get", "give_up"}
    /\ Exit("failed", 1)
-------------------------------------------------------------------------------
Wait == Loop \/ Look \/ WakeUp \/ LookAgain \/ Completed \/ GiveUp
Next == TaskChanges \/ Tick \/ NotSubmitted \/ Submit \/ Wait \/ CallFails

\* Time passes, and the process runs.
Spec == Init /\ [][Next]_vars /\ WF_vars(Tick) /\ WF_vars(Wait)
-------------------------------------------------------------------------------
\* task/wait.py:55-58: "This command waits until the timeout is reached [...]
\* If the task succeeds by then, it exits with status 0."  The code violates it:
\* a task that is INACTIVE at a look ends the command with status 1, whatever is
\* left of the timeout, and a timeout of 0 ends it before any look.
SuccessInTime ==
    /\ opt.cmd = "wait" /\ opt.timeout # NoTimeout
    /\ how \in {"completed", "timed_out"}
    /\ task = "SUCCEEDED" /\ finished <= opt.timeout
    => exit_code = 0

\* What the code does promise: a task that is given up as "yet to complete"
\* did not end within the timeout, whatever the interval and however slow the
\* calls are.  The last look at it is no earlier than the timeout, except where
\* there is none because the timeout is not positive.
EndNotMissed ==
    /\ how = "timed_out" /\ opt.timeout # NoTimeout /\ opt.timeout > 0
    /\ task \in Final
    => finished > opt.timeout

\* The command gives up no earlier than it was told to.
NotTimedOutEarly == how = "timed_out" => now >= opt.timeout

\* Nor does it go on for longer than the interval in which the timeout falls, as
\* it counts the time: another round is begun only before the timeout.
OvershootBounded == how = "timed_out" => waited_time < opt.timeout + opt.interval

\* A wait with a timeout ends, even if the task never does.
WaitEnds == (pc = "loop" /\ opt.timeout # NoTimeout) ~> pc = "exited"

\* A wait without one ends when the task does, even if the task stopped for its
\* owner before and the polling interval is long.
NoticesEnd == (pc = "loop" /\ task \in Final) ~> pc = "exited"
===============================================================================
