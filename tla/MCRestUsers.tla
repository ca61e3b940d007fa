----------------------------- MODULE MCRestUsers -----------------------------
(* Small instances of RestUsers for TLC. *)
EXTENDS RestUsers, TLC

CONSTANTS a, b, r1, o1

MCSeed == <<a>>

\* The page requests that pass the handler's checks.
MCPageRequests == [page : {n \in PageParams : n >= 0 /\ n <= MaxPage},
                   size : {n \in SizeParams : n >= 1 /\ n <= MaxSize}]

\* Both ends of the two ranges and a value beyond each.
MCPageParams == {-1, 0, 1}
MCSizeParams == {0, 2, 3}
=============================================================================
