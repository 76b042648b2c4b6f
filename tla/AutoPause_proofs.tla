--------------------------- MODULE AutoPause_proofs ---------------------------
(***************************************************************************)
(* Proofs about the automatic pauses, for every order of commands, ticks,  *)
(* changes of the options and of the world.                                *)
(***************************************************************************)
EXTENDS AutoPause, TLAPS

\* What a tick has seen of the battery, and what it did about it.
BatteryInv ==
  /\ pauseOnBattery /\ onBattery /\ ticked /\ ~toggled => battery_power
  /\ pauseOnBattery /\ battery_power /\ ~toggled => ~enabled

IInv == TypeOK /\ BatteryInv

-----------------------------------------------------------------------------

Flags == [enabled : BOOLEAN, auto_pause : Int, battery_power : BOOLEAN,
          user_active : BOOLEAN]

\* auto_pause counts the causes that are noted.
Counts(m) == m.auto_pause = Count(m.battery_power) + Count(m.user_active)

\* One check of the timer keeps the count; that of the battery notes what it
\* saw and keeps the miner off while it is noted, that of the user does not
\* turn it on against the battery.
LEMMA CheckFields ==
  ASSUME NEW m \in Flags, NEW state \in {"battery_power", "user_active"}, NEW pause \in BOOLEAN,
         m[state] # pause
  PROVE  LET new   == Check(m, state, pause)
             count == m.auto_pause + (IF pause THEN 1 ELSE -1)
         IN /\ new.auto_pause = count
            /\ new.battery_power = IF state = "battery_power" THEN pause ELSE m.battery_power
            /\ new.user_active = IF state = "user_active" THEN pause ELSE m.user_active
            /\ new.enabled = SetEnabled(m.enabled, count = 0, new.battery_power)
            /\ new \in Flags
<1> DEFINE count == m.auto_pause + (IF pause THEN 1 ELSE -1)
           one   == [m EXCEPT ![state] = pause]
           two   == [one EXCEPT !.auto_pause = count]
           on    == SetEnabled(m.enabled, count = 0, two.battery_power)
           three == [two EXCEPT !.enabled = on]
<1>1. count \in Int /\ on \in BOOLEAN
  BY DEF SetEnabled, Flags
<1>2. Check(m, state, pause) = three
  BY DEF Check
<1>3. /\ one \in Flags
      /\ one.battery_power = IF state = "battery_power" THEN pause ELSE m.battery_power
      /\ one.user_active = IF state = "user_active" THEN pause ELSE m.user_active
  BY DEF Flags
<1> HIDE DEF count, one
<1>4. /\ two \in Flags /\ two.auto_pause = count
      /\ two.battery_power = one.battery_power /\ two.user_active = one.user_active
  BY <1>1, <1>3 DEF Flags
<1> HIDE DEF two, on
<1>5. /\ three \in Flags /\ three.auto_pause = count /\ three.enabled = on
      /\ three.battery_power = one.battery_power /\ three.user_active = one.user_active
  BY <1>1, <1>4 DEF Flags
<1> QED
  BY <1>2, <1>3, <1>4, <1>5 DEF count, on

LEMMA CheckCounts ==
  ASSUME NEW m \in Flags, Counts(m), pauseOnBattery \in BOOLEAN,
         NEW state \in {"battery_power", "user_active"}, NEW pause \in BOOLEAN
  PROVE  LET new == Check(m, state, pause)
         IN /\ new \in Flags /\ Counts(new)
            /\ state = "battery_power" => new.battery_power = pause
            /\ state = "user_active" => new.battery_power = m.battery_power
            /\ pauseOnBattery /\ (m.battery_power => ~m.enabled) =>
                 (new.battery_power => ~new.enabled)
<1> DEFINE new == Check(m, state, pause)
<1>1. CASE m[state] = pause
  <2>1. new = m
    BY <1>1 DEF Check
  <2> QED
    BY <1>1, <2>1
<1>2. CASE m[state] # pause
  <2> DEFINE count == m.auto_pause + (IF pause THEN 1 ELSE -1)
  <2>1. /\ new.auto_pause = count
        /\ new.battery_power = IF state = "battery_power" THEN pause ELSE m.battery_power
        /\ new.user_active = IF state = "user_active" THEN pause ELSE m.user_active
        /\ new.enabled = SetEnabled(m.enabled, count = 0, new.battery_power)
        /\ new \in Flags
    BY <1>2, CheckFields
  <2> HIDE DEF new
  <2>2. /\ m.battery_power \in BOOLEAN /\ m.user_active \in BOOLEAN /\ m.auto_pause \in Int
        /\ m.enabled \in BOOLEAN
    BY DEF Flags
  <2>3. Counts(new)
    BY <1>2, <2>1, <2>2 DEF Counts, Count
  <2>4. new.battery_power => count # 0
    BY <1>2, <2>1, <2>2 DEF Counts, Count
  <2>5. ASSUME pauseOnBattery, m.battery_power => ~m.enabled, new.battery_power PROVE ~new.enabled
    BY <2>1, <2>4, <2>5 DEF SetEnabled
  <2> QED
    BY <2>1, <2>3, <2>5 DEF new
<1> QED
  BY <1>1, <1>2

LEMMA TimerInv ==
  ASSUME IInv, Timer
  PROVE  IInv'
<1> DEFINE m == [enabled |-> enabled, auto_pause |-> auto_pause,
                 battery_power |-> battery_power, user_active |-> user_active]
           b == IF pauseOnBattery THEN Check(m, "battery_power", onBattery) ELSE m
           u == IF pauseOnActive THEN Check(b, "user_active", userActive) ELSE b
<1>1. /\ onBattery \in BOOLEAN /\ userActive \in BOOLEAN
      /\ pauseOnBattery \in BOOLEAN /\ pauseOnActive \in BOOLEAN
      /\ manual \in BOOLEAN /\ toggled \in BOOLEAN
      /\ UNCHANGED <<onBattery, userActive, pauseOnBattery, pauseOnActive, manual, toggled>>
  BY DEF IInv, TypeOK, Timer, worldVars, configVars
<1>2. /\ enabled' = u.enabled /\ auto_pause' = u.auto_pause /\ battery_power' = u.battery_power
      /\ user_active' = u.user_active /\ ticked' = TRUE
  BY DEF Timer
<1>3. m \in Flags /\ Counts(m)
  BY DEF Flags, Counts, Count, IInv, TypeOK
<1>4. pauseOnBattery /\ ~toggled => (m.battery_power => ~m.enabled)
  BY DEF IInv, BatteryInv
<1> HIDE DEF m
<1>5. /\ b \in Flags /\ Counts(b)
      /\ pauseOnBattery => b.battery_power = onBattery
      /\ pauseOnBattery /\ ~toggled => (b.battery_power => ~b.enabled)
  <2>1. CASE pauseOnBattery
    <3> PICK pause \in BOOLEAN : pause = onBattery
      BY <1>1
    <3>1. b = Check(m, "battery_power", pause)
      BY <2>1 DEF b
    <3>2. /\ Check(m, "battery_power", pause) \in Flags
          /\ Counts(Check(m, "battery_power", pause))
      BY <1>1, <1>3, CheckCounts
    <3>3. Check(m, "battery_power", pause).battery_power = pause
      BY <1>1, <1>3, CheckCounts
    <3>4. pauseOnBattery /\ (m.battery_power => ~m.enabled) =>
            (Check(m, "battery_power", pause).battery_power => ~Check(m, "battery_power", pause).enabled)
      BY <1>1, <1>3, CheckCounts
    <3> QED
      BY <1>4, <2>1, <3>1, <3>2, <3>3, <3>4
  <2>2. CASE ~pauseOnBattery
    BY <1>3, <2>2 DEF b
  <2> QED
    BY <2>1, <2>2
<1> HIDE DEF b
<1>6. /\ u \in Flags /\ Counts(u)
      /\ u.battery_power = b.battery_power
      /\ pauseOnBattery /\ ~toggled => (u.battery_power => ~u.enabled)
  <2>1. CASE pauseOnActive
    <3> PICK pause \in BOOLEAN : pause = userActive
      BY <1>1
    <3>1. u = Check(b, "user_active", pause)
      BY <2>1 DEF u
    <3>2. /\ Check(b, "user_active", pause) \in Flags
          /\ Counts(Check(b, "user_active", pause))
      BY <1>1, <1>5, CheckCounts
    <3>3. Check(b, "user_active", pause).battery_power = b.battery_power
      BY <1>1, <1>5, CheckCounts
    <3>4. pauseOnBattery /\ (b.battery_power => ~b.enabled) =>
            (Check(b, "user_active", pause).battery_power => ~Check(b, "user_active", pause).enabled)
      BY <1>1, <1>5, CheckCounts
    <3> QED
      BY <1>5, <2>1, <3>1, <3>2, <3>3, <3>4
  <2>2. CASE ~pauseOnActive
    BY <1>5, <2>2 DEF u
  <2> QED
    BY <2>1, <2>2
<1> HIDE DEF u
<1>7. TypeOK'
  BY <1>1, <1>2, <1>6 DEF TypeOK, Flags, Counts, Count
<1>8. BatteryInv'
  BY <1>1, <1>2, <1>5, <1>6 DEF BatteryInv
<1> QED
  BY <1>7, <1>8 DEF IInv

LEMMA InitInv == Init => IInv
<1> SUFFICES ASSUME Init PROVE IInv
  OBVIOUS
<1>1. TypeOK
  <2>1. auto_pause = Count(battery_power) + Count(user_active)
    BY DEF Init, Count
  <2>2. onBattery \in BOOLEAN /\ userActive \in BOOLEAN /\ pauseOnBattery \in BOOLEAN /\ pauseOnActive \in BOOLEAN
    BY DEF Init
  <2>3. enabled = TRUE /\ battery_power = FALSE /\ user_active = FALSE /\ manual = FALSE
        /\ toggled = FALSE /\ ticked = FALSE
    BY DEF Init
  <2> QED
    BY <2>1, <2>2, <2>3 DEF TypeOK
<1>2. BatteryInv
  BY DEF Init, BatteryInv
<1> QED
  BY <1>1, <1>2 DEF IInv

LEMMA NextInv == IInv /\ [Next]_vars => IInv'
<1> SUFFICES ASSUME IInv, [Next]_vars PROVE IInv'
  OBVIOUS
<1> USE DEF IInv, TypeOK, BatteryInv, worldVars, configVars, minerVars, Count
<1>1. CASE ConsolePause
  BY <1>1 DEF ConsolePause, Command, SetEnabled
<1>2. CASE ConsoleResume
  BY <1>2 DEF ConsoleResume, Command, SetEnabled
<1>3. CASE Timer
  BY <1>3, TimerInv
<1>4. CASE \E b, u \in BOOLEAN : ConfigChanged(b, u)
  <2>1. PICK b \in BOOLEAN, u \in BOOLEAN : ConfigChanged(b, u)
    BY <1>4
  <2>2. /\ pauseOnBattery' \in BOOLEAN /\ pauseOnActive' \in BOOLEAN
        /\ toggled' = TRUE /\ ticked' = FALSE
        /\ UNCHANGED <<onBattery, userActive, enabled, auto_pause, battery_power, user_active, manual>>
    BY <2>1 DEF ConfigChanged
  <2> QED
    BY <2>2
<1>5. CASE World
  BY <1>5 DEF World
<1>6. CASE UNCHANGED vars
  BY <1>6 DEF vars
<1> QED
  BY <1>1, <1>2, <1>3, <1>4, <1>5, <1>6 DEF Next

THEOREM Inductive == Spec => []IInv
BY InitInv, NextInv, PTL DEF Spec

\* auto_pause is the number of noted causes, so it comes back to the 0 that
\* resumes mining exactly when the last of them is gone.
THEOREM TypeCorrect == Spec => []TypeOK
<1>1. IInv => TypeOK
  BY DEF IInv
<1> QED
  BY Inductive, <1>1, PTL

\* A tick that saw the battery keeps the miner off until the power is back,
\* whatever the user commands and does.
THEOREM StaysOff == Spec => []NoMiningOnBattery
<1>1. IInv => NoMiningOnBattery
  BY DEF IInv, BatteryInv, NoMiningOnBattery
<1> QED
  BY Inductive, <1>1, PTL

=============================================================================
