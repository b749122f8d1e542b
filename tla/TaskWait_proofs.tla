---------------------------- MODULE TaskWait_proofs ----------------------------
(***************************************************************************)
(* Proofs about TaskWait, for all intervals, timeouts, exit codes and the  *)
(* cap on the clocks.                                                      *)
(***************************************************************************)
EXTENDS TaskWait, TLAPS

\* The time that was counted has passed: the current sleep, once it is over,
\* completes the interval that is counted next.
CountedTimePassed ==
    /\ waited_time <= now
    /\ pc = "sleep" => Capped(waited_time + opt.interval) <= now + sleep
    /\ pc = "look_again" => Capped(waited_time + opt.interval) <= now

\* A task that the loop has not noticed yet, or that it gave up, ended after the
\* last look at it.
NotMissed ==
    /\ pc \in {"loop", "look", "sleep", "look_again", "give_up"} \/ how = "timed_out"
    /\ task \in Final
    /\ waited_time > 0
    => finished > waited_time \/ finished = Horizon

\* A look at the task is begun before the timeout.
InTime ==
    /\ pc \in {"look", "sleep", "look_again"} => ~timed_out
    /\ opt.timeout # NoTimeout /\ waited_time > 0 => waited_time < opt.timeout + opt.interval

HowItEnded ==
    /\ how # "none" <=> pc = "exited"
    /\ pc = "give_up" => timed_out
    /\ how = "timed_out" => timed_out
    /\ pc = "submit" => waited_time = 0 /\ sleep = 0

WaitInv == TypeOK /\ CountedTimePassed /\ NotMissed /\ InTime /\ HowItEnded

LEMMA CappedLemma ==
    ASSUME NEW n \in Nat
    PROVE  /\ Capped(n) \in Time
           /\ Capped(n) <= n
           /\ \A m \in Nat : n <= m => Capped(n) <= Capped(m)
           /\ Capped(n) = Horizon \/ Capped(n) = n
  BY OptionsAssumption DEF Capped, Time

\* What the options and the clocks are.
LEMMA Domains ==
    ASSUME TypeOK
    PROVE  /\ opt.interval \in Nat /\ opt.interval >= 1
           /\ opt.interval <= Horizon /\ opt.timeout \in Timeouts
           /\ opt.timeout # NoTimeout => opt.timeout \in Nat /\ opt.timeout < Horizon
           /\ opt.timeout_exit_code \in ExitCodes
           /\ now \in Nat /\ sleep \in Nat /\ waited_time \in Nat /\ finished \in Nat
           /\ now <= Horizon /\ waited_time <= Horizon /\ Horizon \in Nat
<1>1. /\ opt.interval \in Intervals /\ opt.timeout \in Timeouts
      /\ opt.timeout_exit_code \in ExitCodes
  BY DEF TypeOK, Options
<1>2. opt.interval \in 1..Horizon /\ Horizon \in Nat
  BY <1>1, OptionsAssumption
<1>3. opt.timeout # NoTimeout => opt.timeout \in 0..(Horizon - 1)
  BY <1>1, OptionsAssumption, Zenon
<1>4. /\ now \in 0..Horizon /\ sleep \in 0..Horizon
      /\ waited_time \in 0..Horizon /\ finished \in 0..Horizon
  BY DEF TypeOK, Time
<1> QED
  BY <1>1, <1>2, <1>3, <1>4

LEMMA WaitInit == Init => WaitInv
  BY OptionsAssumption DEF Init, WaitInv, TypeOK, CountedTimePassed, NotMissed, InTime, HowItEnded,
     Options, Final, Time, timed_out

LEMMA WaitStep == WaitInv /\ [Next]_vars => WaitInv'
<1> SUFFICES ASSUME WaitInv, [Next]_vars PROVE WaitInv'
  OBVIOUS
<1> USE OptionsAssumption DEF WaitInv
<1>0. /\ opt.interval \in Nat /\ opt.interval <= Horizon
      /\ opt.timeout_exit_code \in ExitCodes
      /\ now \in Nat /\ sleep \in Nat /\ waited_time \in Nat /\ finished \in Nat
      /\ now <= Horizon /\ waited_time <= Horizon /\ Horizon \in Nat
  BY Domains
<1>1. CASE TaskChanges
  <2>1. Capped(now + 1) \in Time /\ (Capped(now + 1) = Horizon \/ Capped(now + 1) = now + 1)
    BY <1>0, CappedLemma
  <2>2. TypeOK'
    BY <1>1, <2>1 DEF TaskChanges, procVars, TypeOK, Final
  <2>3. CountedTimePassed'
    BY <1>1 DEF TaskChanges, procVars, CountedTimePassed
  <2>4. NotMissed'
    BY <1>0, <1>1, <2>1 DEF TaskChanges, procVars, CountedTimePassed, NotMissed, Final
  <2>5. InTime' /\ HowItEnded'
    BY <1>1 DEF TaskChanges, procVars, InTime, HowItEnded, timed_out
  <2> QED
    BY <2>2, <2>3, <2>4, <2>5
<1>2. CASE Tick
  <2>1. Capped(now + 1) \in Time /\ Capped(now + 1) >= now
        /\ (Capped(now + 1) = Horizon \/ Capped(now + 1) = now + 1)
    BY <1>0, CappedLemma DEF Capped, TypeOK, Time
  <2>2. TypeOK'
    BY <1>0, <1>2, <2>1 DEF Tick, TypeOK, Time
  <2>3. CountedTimePassed'
    <3>1. Capped(waited_time + opt.interval) <= Horizon
      BY <1>0 DEF Capped
    <3> QED
      <4>1. now' \in Nat /\ sleep' \in Nat /\ Capped(waited_time + opt.interval) \in Nat
        BY <1>0, <1>2, <2>1, CappedLemma DEF Tick, Time
      <4>2. now + sleep <= now' + sleep' \/ now' = Horizon
        BY <1>0, <1>2, <2>1 DEF Tick
      <4>3. UNCHANGED <<pc, waited_time, opt>> /\ now' >= now
        BY <1>0, <1>2, <2>1 DEF Tick
      <4>4. waited_time <= now'
        BY <1>0, <4>1, <4>3 DEF CountedTimePassed
      <4>5. pc = "look_again" => Capped(waited_time + opt.interval) <= now'
        BY <1>0, <4>1, <4>3 DEF CountedTimePassed
      <4>6. pc = "sleep" => Capped(waited_time + opt.interval) <= now' + sleep'
        <5>1. CASE now + sleep <= now' + sleep' /\ pc = "sleep"
          <6>1. Capped(waited_time + opt.interval) <= now + sleep
            BY <5>1 DEF CountedTimePassed
          <6>2. now + sleep \in Nat
            BY <1>0
          <6>3. now' + sleep' \in Nat
            <7>1. now' \in Nat
              BY <4>1
            <7>2. sleep' \in Nat
              BY <4>1
            <7>3. \A a, b \in Nat : a + b \in Nat
              OBVIOUS
            <7> QED
              BY <7>1, <7>2, <7>3, Zenon
          <6> QED
            BY <4>1, <5>1, <6>1, <6>2, <6>3
        <5>2. CASE now' = Horizon
          BY <1>0, <3>1, <4>1, <5>2
        <5> QED
          BY <4>2, <5>1, <5>2
      <4>7. Capped(waited_time + opt.interval)' = Capped(waited_time + opt.interval)
        BY <4>3 DEF Capped
      <4> QED
        BY <4>3, <4>4, <4>5, <4>6, <4>7 DEF CountedTimePassed
  <2>4. NotMissed' /\ InTime' /\ HowItEnded'
    BY <1>2 DEF Tick, NotMissed, InTime, HowItEnded, timed_out
  <2> QED
    BY <2>2, <2>3, <2>4
<1>3. CASE NotSubmitted
  BY <1>0, <1>3 DEF NotSubmitted, Exit, TypeOK, CountedTimePassed, NotMissed, InTime, HowItEnded
<1>4. CASE Submit
  BY <1>0, <1>4 DEF Submit, TypeOK, CountedTimePassed, NotMissed, InTime, HowItEnded, Final, Time
<1>5. CASE Loop
  BY <1>0, <1>5 DEF Loop, Goto, TypeOK, CountedTimePassed, NotMissed, InTime, HowItEnded, timed_out
<1>6. CASE Look
  <2>1. CASE task # "ACTIVE"
    BY <1>0, <1>6, <2>1 DEF Look, Goto, TypeOK, CountedTimePassed, NotMissed, InTime, HowItEnded
  <2>2. CASE task = "ACTIVE"
    <3>1. /\ Capped(waited_time + opt.interval) \in Nat
          /\ Capped(waited_time + opt.interval) <= waited_time + opt.interval
      BY <1>0, CappedLemma DEF Time
    <3>2. TypeOK'
      BY <1>0, <1>6, <2>2 DEF Look, TypeOK, Time
    <3>3. CountedTimePassed'
      <4>1. pc' = "sleep" /\ sleep' = opt.interval /\ UNCHANGED <<now, opt, waited_time>>
        BY <1>6, <2>2 DEF Look
      <4>2. Capped(waited_time + opt.interval)' = Capped(waited_time + opt.interval)
        BY <4>1 DEF Capped
      <4>3. waited_time <= now
        BY DEF CountedTimePassed
      <4>4. Capped(waited_time + opt.interval) <= now + opt.interval
        BY <1>0, <3>1, <4>3
      <4> QED
        BY <4>1, <4>2, <4>3, <4>4 DEF CountedTimePassed
    <3>4. NotMissed' /\ InTime' /\ HowItEnded'
      BY <1>6, <2>2 DEF Look, NotMissed, InTime, HowItEnded, Final, timed_out
    <3> QED
      BY <3>2, <3>3, <3>4
  <2> QED
    BY <2>1, <2>2
<1>7. CASE WakeUp
  <2>1. /\ pc = "sleep" /\ sleep = 0 /\ pc' = "look_again"
        /\ UNCHANGED <<opt, task, finished, now, sleep, waited_time, how, exit_code>>
    BY <1>7 DEF WakeUp, Goto
  <2>2. TypeOK' /\ NotMissed' /\ HowItEnded'
    BY <2>1 DEF TypeOK, NotMissed, HowItEnded, timed_out
  <2>3. CountedTimePassed'
    BY <1>0, <2>1 DEF CountedTimePassed, Capped
  <2>4. InTime'
    BY <2>1 DEF InTime, timed_out
  <2> QED
    BY <2>2, <2>3, <2>4
<1>8. CASE LookAgain
  <2>1. CASE task # "ACTIVE"
    BY <1>0, <1>8, <2>1 DEF LookAgain, Goto, TypeOK, CountedTimePassed, NotMissed, InTime, HowItEnded
  <2>2. CASE task = "ACTIVE"
    <3>1. Capped(waited_time + opt.interval) \in Time
      BY <1>0, CappedLemma
    <3>2. TypeOK'
      BY <1>0, <1>8, <2>2, <3>1 DEF LookAgain, TypeOK
    <3>3. CountedTimePassed'
      BY <1>0, <1>8, <2>2, <3>1 DEF LookAgain, CountedTimePassed
    <3>4. NotMissed' /\ HowItEnded'
      BY <1>8, <2>2 DEF LookAgain, NotMissed, HowItEnded, Final, timed_out
    <3>5. InTime'
      <4>1. /\ pc' = "loop" /\ UNCHANGED opt
            /\ waited_time' = Capped(waited_time + opt.interval)
        BY <1>8, <2>2 DEF LookAgain
      <4>2. opt.timeout # NoTimeout => opt.timeout \in Nat /\ waited_time < opt.timeout
        BY <1>0, <1>8, Domains DEF LookAgain, InTime, timed_out
      <4>3. /\ Capped(waited_time + opt.interval) \in Nat
            /\ Capped(waited_time + opt.interval) <= waited_time + opt.interval
        BY <1>0, CappedLemma DEF Time
      <4>4. opt.timeout # NoTimeout => waited_time' < opt.timeout + opt.interval
        BY <1>0, <4>1, <4>2, <4>3
      <4> QED
        BY <4>1, <4>4 DEF InTime
    <3> QED
      BY <3>2, <3>3, <3>4, <3>5
  <2> QED
    BY <2>1, <2>2
<1>9. CASE Completed
  BY <1>0, <1>9 DEF Completed, Exit, TypeOK, CountedTimePassed, NotMissed, InTime, HowItEnded
<1>10. CASE GiveUp
  BY <1>0, <1>10 DEF GiveUp, Exit, TypeOK, CountedTimePassed, NotMissed, InTime, HowItEnded, timed_out
<1>11. CASE CallFails
  BY <1>0, <1>11 DEF CallFails, Exit, TypeOK, CountedTimePassed, NotMissed, InTime, HowItEnded
<1>12. CASE UNCHANGED vars
  BY <1>12 DEF vars, TypeOK, CountedTimePassed, NotMissed, InTime, HowItEnded, timed_out
<1> QED
  BY <1>1, <1>2, <1>3, <1>4, <1>5, <1>6, <1>7, <1>8, <1>9, <1>10, <1>11, <1>12
     DEF Next, Wait

LEMMA WaitInvariant == Spec => []WaitInv
  BY WaitInit, WaitStep, PTL DEF Spec

\* Every variable keeps its type, whatever the options and the task are.
THEOREM TypeCorrect == Spec => []TypeOK
  BY WaitInvariant, PTL DEF WaitInv

\* A wait is given up no earlier than its timeout, for any polling interval:
\* the loop counts no interval that has not passed.
THEOREM NotEarlyTheorem == Spec => []NotTimedOutEarly
<1>1. ASSUME WaitInv, how = "timed_out" PROVE now >= opt.timeout
  <2>1. waited_time >= opt.timeout /\ opt.timeout # NoTimeout
    BY <1>1 DEF WaitInv, HowItEnded, timed_out
  <2>2. opt.timeout \in Nat /\ waited_time \in Nat /\ now \in Nat
    BY <1>1, <2>1, Domains DEF WaitInv
  <2> QED
    BY <1>1, <2>1, <2>2 DEF WaitInv, CountedTimePassed
<1>2. WaitInv => NotTimedOutEarly
  BY <1>1 DEF NotTimedOutEarly
<1> QED
  BY <1>2, WaitInvariant, PTL

\* A task that is given up ended after a positive timeout, if it did end: the
\* last look at it is no earlier than the timeout.
THEOREM EndNotMissedTheorem == Spec => []EndNotMissed
<1>1. ASSUME WaitInv, how = "timed_out", opt.timeout # NoTimeout, opt.timeout > 0,
             task \in Final
      PROVE  finished > opt.timeout
  <2>1. waited_time >= opt.timeout
    BY <1>1 DEF WaitInv, HowItEnded, timed_out
  <2>2. /\ opt.timeout \in Nat /\ opt.timeout < Horizon
        /\ waited_time \in Nat /\ finished \in Nat /\ Horizon \in Nat
    BY <1>1, Domains DEF WaitInv
  <2>3. waited_time > 0
    BY <1>1, <2>1, <2>2
  <2>4. finished > waited_time \/ finished = Horizon
    BY <1>1, <2>3 DEF WaitInv, NotMissed
  <2> QED
    BY <2>1, <2>2, <2>4
<1>2. WaitInv => EndNotMissed
  BY <1>1 DEF EndNotMissed
<1> QED
  BY <1>2, WaitInvariant, PTL

\* A wait is given up before another interval is over, by its own count.
THEOREM OvershootTheorem == Spec => []OvershootBounded
<1>1. ASSUME WaitInv, how = "timed_out" PROVE waited_time < opt.timeout + opt.interval
  <2>1. opt.timeout # NoTimeout
    BY <1>1 DEF WaitInv, HowItEnded, timed_out
  <2>2. /\ opt.timeout \in Nat /\ opt.interval \in Nat /\ opt.interval >= 1
        /\ waited_time \in Nat
    BY <1>1, <2>1, Domains DEF WaitInv
  <2>3. CASE waited_time = 0
    BY <2>2, <2>3
  <2>4. CASE waited_time > 0
    BY <1>1, <2>1, <2>4 DEF WaitInv, InTime
  <2> QED
    BY <2>2, <2>3, <2>4
<1>2. WaitInv => OvershootBounded
  BY <1>1 DEF OvershootBounded
<1> QED
  BY <1>2, WaitInvariant, PTL
===============================================================================
