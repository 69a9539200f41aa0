---------------------------- MODULE DatabaseOutages ----------------------------
(***************************************************************************)
(* The outage doctrine every database call shares: which failures mean that *)
(* the database is unreachable (503) and which are bugs (500).              *)
(***************************************************************************)

\* What the driver and SQLAlchemy raise when a connection breaks, by the
\* families the code tells apart.
DatabaseErrors == {"OperationalError", "InterfaceError", "OSError", "DBAPIError"}

\* What connecting raises.
ConnectErrors == {"OSError", "DBAPIError"}

\* What waiting too long for a pooled connection raises: a SQLAlchemyError,
\* neither of the DBAPI families nor an OSError.
PoolTimeoutError == "PoolTimeoutError"

IsDbOutageError(exc) == exc \in {"OperationalError", "InterfaceError", "OSError"}

StatusOf(exc) == IF IsDbOutageError(exc) THEN "503" ELSE "500"
=============================================================================
