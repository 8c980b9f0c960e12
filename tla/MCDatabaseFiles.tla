-------------------------- MODULE MCDatabaseFiles --------------------------
(* A database with its log, its journal and a backup. *)
EXTENDS DatabaseFiles

CONSTANTS db, wal, journal, backup

MCPaths == <<db, wal, journal, backup>>
=============================================================================
