------------------------------- MODULE MCEvents -------------------------------
(***************************************************************************)
(* Three parts whose news reaches the event loop through a callback, for   *)
(* model checking: results, the benchmark and the lines of a connection.   *)
(* They share nothing, so each behaviour runs one of them.                 *)
(***************************************************************************)
EXTENDS JobResults, Bench, LineReader

VARIABLE part

EventsVars == <<part, vars, benchVars, readerVars>>

EventsInit ==
  /\ part \in {"results", "bench", "reader"}
  /\ Init /\ BenchInit
  /\ IF part = "reader" THEN ReaderInit
     ELSE /\ newlines = {} /\ arrived = 0 /\ parsed = 0 /\ parsing = FALSE
          /\ buffer = <<>> /\ cut = {} /\ received = <<>>
  /\ part # "bench" => jobNow = "warm"

EventsNext ==
  /\ \/ part = "results" /\ Next /\ UNCHANGED <<benchVars, readerVars>>
     \/ part = "bench" /\ BenchNext /\ UNCHANGED <<vars, readerVars>>
     \/ part = "reader" /\ ReaderNext /\ UNCHANGED <<vars, benchVars>>
  /\ UNCHANGED part

EventsSpec ==
  /\ EventsInit /\ [][EventsNext]_EventsVars
  /\ part = "results" => Fairness
  /\ part = "bench" => BenchFairness
===============================================================================
