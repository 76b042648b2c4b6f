------------------------------ MODULE AutoPause ------------------------------
(***************************************************************************)
(* Who may mine when: the console and the API (Miner::execCommand,         *)
(* onRequest), the timer that watches the battery and the user             *)
(* (Miner::onTimer), and the two options that may be changed while the     *)
(* miner runs.  All of it happens on the event loop, one call at a time;   *)
(* what Miner::setEnabled does to the threads is in module Miner.          *)
(***************************************************************************)
EXTENDS Integers

VARIABLES
  onBattery, userActive,              \* the world: Platform's answers
  pauseOnBattery, pauseOnActive,      \* Config: the two options
  enabled, auto_pause,                \* MinerPrivate, under these names
  battery_power, user_active,
  manual,      \* history: the user's last command that had an effect was to pause
  toggled,     \* history: an option was changed while mining
  ticked       \* history: the timer ran since the world or an option changed

worldVars  == <<onBattery, userActive>>
configVars == <<pauseOnBattery, pauseOnActive>>
minerVars  == <<enabled, auto_pause, battery_power, user_active>>

vars == <<worldVars, configVars, minerVars, manual, toggled, ticked>>

-----------------------------------------------------------------------------

\* Miner::setEnabled as a function of what it reads: the new value of enabled.
SetEnabledFaulty(old, value, battery) == value
SetEnabled(old, value, battery) ==
  IF pauseOnBattery /\ battery /\ value THEN old ELSE value

Command(value) ==
  /\ enabled' = SetEnabled(enabled, value, battery_power)
  /\ manual' = (~value /\ (enabled \/ manual))
  /\ UNCHANGED <<worldVars, configVars, auto_pause, battery_power, user_active, toggled, ticked>>

ConsolePause  == Command(FALSE)
ConsoleResume == Command(TRUE)

\* autoPause of Miner::onTimer: the state after one of the two checks
CheckFaultyResume(m, state, pause) ==     \* only ever disables
  IF m[state] = pause THEN m
  ELSE LET count == m.auto_pause + (IF pause THEN 1 ELSE -1)
       IN [m EXCEPT ![state] = pause, !.auto_pause = count,
                    !.enabled = m.enabled /\ count = 0]

Check(m, state, pause) ==
  IF m[state] = pause THEN m
  ELSE LET count == m.auto_pause + (IF pause THEN 1 ELSE -1)
           new   == [m EXCEPT ![state] = pause, !.auto_pause = count]
       IN [new EXCEPT !.enabled = SetEnabled(m.enabled, count = 0, new.battery_power)]

Timer ==
  LET m == [enabled |-> enabled, auto_pause |-> auto_pause,
            battery_power |-> battery_power, user_active |-> user_active]
      b == IF pauseOnBattery THEN Check(m, "battery_power", onBattery) ELSE m
      u == IF pauseOnActive THEN Check(b, "user_active", userActive) ELSE b
  IN /\ enabled' = u.enabled
     /\ auto_pause' = u.auto_pause
     /\ battery_power' = u.battery_power
     /\ user_active' = u.user_active
     /\ ticked' = TRUE
     /\ UNCHANGED <<worldVars, configVars, manual, toggled>>

\* A new configuration; Miner::onConfigChanged leaves the flags alone.
ConfigChanged(onBatteryOption, onActiveOption) ==
  /\ pauseOnBattery' = onBatteryOption
  /\ pauseOnActive' = onActiveOption
  /\ configVars' # configVars
  /\ toggled' = TRUE
  /\ ticked' = FALSE
  /\ UNCHANGED <<worldVars, minerVars, manual>>

\* The world: the charger, the keyboard
World ==
  /\ onBattery' \in BOOLEAN /\ userActive' \in BOOLEAN
  /\ worldVars' # worldVars
  /\ ticked' = FALSE
  /\ UNCHANGED <<configVars, minerVars, manual, toggled>>

-----------------------------------------------------------------------------

Init ==
  /\ onBattery \in BOOLEAN /\ userActive \in BOOLEAN
  /\ pauseOnBattery \in BOOLEAN /\ pauseOnActive \in BOOLEAN
  /\ enabled = TRUE /\ auto_pause = 0
  /\ battery_power = FALSE /\ user_active = FALSE
  /\ manual = FALSE /\ toggled = FALSE /\ ticked = FALSE

Next ==
  \/ ConsolePause
  \/ ConsoleResume
  \/ Timer
  \/ \E b, u \in BOOLEAN : ConfigChanged(b, u)
  \/ World

\* The timer repeats every 500 ms.
Spec == Init /\ [][Next]_vars /\ WF_vars(Timer)

-----------------------------------------------------------------------------

Count(flag) == IF flag THEN 1 ELSE 0

\* Types; auto_pause is the number of causes for a pause that are noted, even
\* when options come and go: it never goes below 0, where no later change of
\* the world would bring it back to the 0 that resumes mining
\* (Miner.cpp:621-629).
TypeOK ==
  /\ {onBattery, userActive, pauseOnBattery, pauseOnActive} \subseteq BOOLEAN
  /\ {enabled, battery_power, user_active, manual, toggled, ticked} \subseteq BOOLEAN
  /\ auto_pause = Count(battery_power) + Count(user_active)

\* On battery power the miner does not mine once the timer has seen it,
\* whatever the user commands and whether the user is active or not
\* (Miner.cpp:478-482, 632-638); as long as the options stay as they are.
NoMiningOnBattery ==
  pauseOnBattery /\ onBattery /\ ticked /\ ~toggled => ~enabled

\* A pause the miner made itself ends: when the last cause is gone mining
\* resumes, unless the causes come back or the user interferes.
Resumes ==
  auto_pause > 0 ~> \/ enabled
                    \/ onBattery \/ userActive
                    \/ manual \/ toggled

\* "paused, press r to resume" (Miner.cpp:494): a pause the user commanded
\* ends only by the user's command.
ManualPauseSticks == [][manual /\ ~enabled /\ enabled' => ~manual']_vars

=============================================================================
