-------------------------- MODULE MCUserRepository --------------------------
(* Small instances of UserRepository for TLC. *)
EXTENDS UserRepository, TLC

CONSTANTS a, b, c, p1, p2, p3

\* One seeded user instead of the two of the migration.
MCSeed == <<a>>

\* The first page of two users, and a page of one user that Create may fill.
MCPageRequests == {[page |-> 0, size |-> 2], [page |-> 1, size |-> 1]}

MCSymmetry == Permutations(Procs)
=============================================================================
