----------------------------- MODULE MCApiDocs -----------------------------
(* The addresses a user may open the Swagger UI at, for TLC: both of them. *)
EXTENDS ApiDocs

MCLinks == Pages
=============================================================================
