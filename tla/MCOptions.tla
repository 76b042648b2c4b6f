------------------------------ MODULE MCOptions ------------------------------
(***************************************************************************)
(* What reaches the miner from its user, for model checking: the automatic *)
(* pauses and the console, and the configuration and its file.  They share *)
(* nothing, so each behaviour runs one of them.                            *)
(***************************************************************************)
EXTENDS AutoPause, ConfigWatcher

VARIABLE part

OptionsVars == <<part, vars, watcherVars>>

OptionsInit ==
  /\ part \in {"pauses", "config"}
  /\ Init /\ WatcherInit
  /\ part = "pauses" => config.watch
  /\ part = "config" => ~onBattery /\ ~userActive /\ ~pauseOnBattery /\ ~pauseOnActive

OptionsNext ==
  /\ \/ part = "pauses" /\ Next /\ UNCHANGED watcherVars
     \/ part = "config" /\ WatcherNext /\ UNCHANGED vars
  /\ UNCHANGED part

OptionsSpec ==
  /\ OptionsInit /\ [][OptionsNext]_OptionsVars
  /\ part = "pauses" => WF_vars(Timer)
  /\ part = "config" => WatcherFairness
===============================================================================
