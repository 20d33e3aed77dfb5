--------------------------- MODULE MCMainLoop ---------------------------
(* The event loop with one async work, one thread besides the main one, and  *)
(* a few jobs and timers.                                                    *)
EXTENDS MainLoop

============================================================================
