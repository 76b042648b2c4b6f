----------------------------- MODULE MCNetwork -----------------------------
(* The network model with the configurations that differ in what can       *)
(* happen: one to three pools, stratum or daemon, shared hosts, TLS.       *)
EXTENDS Network, TLC

Config(l, k0, k1, h1, sec, f, n, t) ==
  [last |-> l, kind |-> (0 :> k0 @@ 1 :> k1 @@ 2 :> "pool"),
   host |-> (0 :> 0 @@ 1 :> h1 @@ 2 :> 0), secure |-> sec,
   limits |-> [faults |-> f, notices |-> n, tip |-> t]]

MCConfigs ==
  { Config(0, "pool", "pool", 1, {0}, 3, 1, 1), Config(0, "daemon", "pool", 1, {}, 2, 0, 2),
    Config(1, "pool", "pool", 1, {}, 2, 1, 1), Config(2, "pool", "pool", 0, {}, 3, 0, 1),
    Config(1, "pool", "daemon", 1, {}, 2, 0, 1), Config(1, "daemon", "pool", 1, {}, 2, 0, 1) }
=============================================================================
