-------------------------- MODULE MCConnectionPool --------------------------
(* The configurations for the model checking of ConnectionPool: one parked *)
(* connection at most; no cap (the default) with an idle timeout; no cap   *)
(* and no timeout; a disabled pool.                                        *)
EXTENDS ConnectionPool

Config(on, cap, timeout) ==
  [enabled |-> on, max_size |-> cap, idle_timeout_ms |-> timeout]
AllConfigs == {Config(TRUE, 1, 1), Config(TRUE, 0, 1), Config(FALSE, 1, 1)}
=============================================================================
