--------------------------- MODULE MCSqliteWriter ---------------------------
(***************************************************************************)
(* Small instances of SqliteWriter for TLC: two clients, which are         *)
(* interchangeable, and a thread of the daemon.                            *)
(***************************************************************************)
EXTENDS SqliteWriter, TLC

CONSTANTS c1, c2, t1

ClientsSymmetric == Permutations({c1, c2})
=============================================================================
