------------------------- MODULE MCConnectionPool -------------------------
(* The instance of ConnectionPool is in Pool.cfg.  It checks liveness, for which
   symmetry reduction is not sound, so there is none. *)
EXTENDS ConnectionPool
=============================================================================
