----------------------------- MODULE MCGrpcUsers -----------------------------
(* Small instances of GrpcUsers for TLC; the gRPC API has no listing. *)
EXTENDS GrpcUsers, TLC

CONSTANTS a, b, good, wide, p1, p2

MCSeed == <<a>>

\* One byte for each character: as users.proto and openapi.yml want it.
Plain(n) == [chars |-> n, bytes |-> n, plain |-> TRUE]

\* The longest password the checks accept, and one that fits in users.proto and
\* has one byte more than bcrypt takes.
MCTextOf ==
    a :> Plain(3) @@ b :> Plain(32) @@ good :> Plain(64)
    @@ wide :> [chars |-> 37, bytes |-> 73, plain |-> FALSE]

\* A username of ten characters of three bytes each.
MCTextOfForeign == b :> [chars |-> 10, bytes |-> 30, plain |-> FALSE] @@ MCTextOf
=============================================================================
