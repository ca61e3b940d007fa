--------------------------- MODULE MCAppLifecycle ---------------------------
(* AppLifecycle has no constants: its instance is the program. *)
EXTENDS AppLifecycle
=============================================================================
