---------------------------- MODULE ConfigWatcher ----------------------------
(***************************************************************************)
(* base/io/Watcher and the part of base/kernel/Base that reloads the       *)
(* configuration: the file is changed by the user's editor and by the HTTP *)
(* API, libuv reports changes of the file that is being watched, and half  *)
(* a second after the last report the event loop reads the file again.     *)
(***************************************************************************)
EXTENDS Naturals

CONSTANT MaxSaves   \* bound: how often the file is written

ASSUME ConfigWatcherAssumption == MaxSaves \in Nat

\* What a file may hold: the n-th version, which parses and has a pool or does
\* not, and asks to be watched or does not.
Versions == [n : 0..MaxSaves, valid : BOOLEAN, watch : BOOLEAN]
NoFile == [n |-> MaxSaves + 1, valid |-> FALSE, watch |-> FALSE]

VARIABLES
  file,      \* what is at m_path
  watching,  \* m_fsEvent: on the "file", on an "old" file that was there before,
             \* on "nothing", or there is "no watcher"
  fsEvent,   \* the kernel has a report for m_fsEvent
  timer,     \* m_timer runs
  reload,    \* Watcher::reload: "no", "replace", "restart"
  loading,   \* the new Config that onFileChanged has read
  config,    \* BasePrivate::config
  saves,     \* how often the file was written
  missed     \* history: the file changed after it was read, before the restart

watcherVars == <<file, watching, fsEvent, timer, reload, loading, config, saves, missed>>

HasWatcher == watching # "no watcher"

\* The file changes; in place, or by another file in its place. The kernel
\* reports it if the watch is on the file.
Report(place) ==
  /\ fsEvent' = (fsEvent \/ watching = "file")
  /\ watching' = IF watching = "file" /\ place = "another" THEN "old" ELSE watching
  /\ missed' = (missed \/ reload # "no")

-----------------------------------------------------------------------------

\* An editor saves, truncating the file, or renaming another one over it.
UserSaves(place, version) ==
  /\ saves < MaxSaves /\ saves' = saves + 1 /\ version.n = saves'
  /\ file' = version
  /\ Report(IF file = NoFile THEN "the same" ELSE place)
  /\ UNCHANGED <<timer, reload, loading, config>>

\* The file is removed, or moved away by an editor that is about to save.
UserRemoves ==
  /\ file # NoFile
  /\ file' = NoFile
  /\ Report("another")
  /\ UNCHANGED <<timer, reload, loading, config, saves>>

\* Base::reload, for PUT /2/config: the new configuration is written, if that is
\* possible, and left to the watcher, if there is one and it stays; else used.
Put(version, saved) ==
  /\ reload = "no"
  /\ saves < MaxSaves /\ saves' = saves + 1 /\ version.n = saves' /\ version.valid
  /\ IF saved THEN file' = version /\ Report("the same")
     ELSE UNCHANGED <<file, fsEvent, watching, missed>>
  /\ config' = IF version.watch /\ HasWatcher /\ saved THEN config ELSE version
  /\ UNCHANGED <<timer, reload, loading>>

\* Watcher::onFsEvent: the half second starts again.
OnFsEvent ==
  /\ reload = "no" /\ fsEvent
  /\ fsEvent' = FALSE /\ timer' = TRUE
  /\ UNCHANGED <<file, watching, reload, loading, config, saves, missed>>

\* Watcher::reload, and Base::onFileChanged up to the listeners.
TimerFires ==
  /\ reload = "no" /\ timer
  /\ timer' = FALSE
  /\ loading' = file /\ reload' = IF file.valid THEN "replace" ELSE "restart"
  /\ missed' = FALSE
  /\ UNCHANGED <<file, watching, fsEvent, config, saves>>

\* BasePrivate::replace: the listeners, which may stop and join every thread.
ReplaceConfig ==
  /\ reload = "replace"
  /\ config' = loading /\ reload' = "restart"
  /\ UNCHANGED <<file, watching, fsEvent, timer, loading, saves, missed>>

RestartFaulty ==   \* goes on with the watch it has
  /\ reload = "restart"
  /\ reload' = "no"
  /\ UNCHANGED <<file, watching, fsEvent, timer, loading, config, saves, missed>>

\* uv_fs_event_stop drops the reports for the old watch; uv_fs_event_start
\* looks the path up again, and fails, which nobody notices, without a file.
Restart ==
  /\ reload = "restart"
  /\ watching' = IF file = NoFile THEN "nothing" ELSE "file"
  /\ fsEvent' = FALSE /\ reload' = "no"
  /\ UNCHANGED <<file, timer, loading, config, saves, missed>>

WatcherInit ==
  /\ config \in [n : {0}, valid : {TRUE}, watch : BOOLEAN]
  /\ file = config /\ loading = config
  /\ watching = IF config.watch THEN "file" ELSE "no watcher"
  /\ fsEvent = FALSE /\ timer = FALSE /\ reload = "no"
  /\ saves = 0 /\ missed = FALSE

WatcherLoop == OnFsEvent \/ TimerFires \/ ReplaceConfig \/ Restart

UserOrApi ==
  \/ \E place \in {"the same", "another"}, version \in Versions : UserSaves(place, version)
  \/ UserRemoves
  \/ \E version \in Versions, saved \in BOOLEAN : Put(version, saved)

WatcherNext == WatcherLoop \/ UserOrApi

\* Half a second passes, and the event loop runs; nobody owes a change.
WatcherFairness == WF_watcherVars(WatcherLoop)

WatcherSpec == WatcherInit /\ [][WatcherNext]_watcherVars /\ WatcherFairness

-----------------------------------------------------------------------------

\* What stands in the watched file becomes the configuration, however it came
\* there: by an editor, in place or by a new file, or by a request that was
\* answered 204 and left to the watcher; several changes in half a second, and
\* versions that do not parse in between, included. Unless a later version came
\* by a request and could not be saved; or it was written in a reload, after the
\* file was read; or the watch has been lost to a reload that found no file
\* (Watcher.cpp:66-77, Base.cpp:257-280).
ConfigFollowsFile ==
  \A version \in Versions :
    file = version /\ version.valid /\ HasWatcher
      ~> config.n >= version.n \/ file # version \/ missed \/ watching = "nothing"
==============================================================================
