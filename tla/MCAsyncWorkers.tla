--------------------------- MODULE MCAsyncWorkers ---------------------------
(***************************************************************************)
(* Small instances of AsyncWorkers with two workers for each start: see    *)
(* async_pool.cfg and async_leak.cfg.                                      *)
(***************************************************************************)
EXTENDS AsyncWorkers

=============================================================================
