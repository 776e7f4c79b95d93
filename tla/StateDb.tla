------------------------------ MODULE StateDb ------------------------------
(***************************************************************************)
(* The state database of a project (crates/stackdeck-state): one row per   *)
(* service.  A row is a value here and the two statements that write one,  *)
(* `upsert` and `clear_pid`, are operators from a row to a row: SQLite     *)
(* serialises single statements, so each is one step of whoever issues it. *)
(* Every caller works on the rows of its own project, so the project half  *)
(* of the key is left out, as are the columns no decision of the program   *)
(* reads (cwd, started_at, updated_at, restart_count, last_error).         *)
(***************************************************************************)

CONSTANTS
    Pids,   \* the process ids the operating system hands out
    Ids,    \* persisted process identities: creation time, executable, command
    NULL    \* SQL NULL, and an Option that is None

(* The status strings the process manager writes, the default an insert    *)
(* gives, and "absent" for the row that is not there.                      *)
Statuses == {"unknown", "starting", "running", "unhealthy",
             "stopped", "completed", "failed"}

ExitCodes == {"zero", "nonzero"}

ASSUME NullIsNoValue ==
    NULL \notin Pids \cup Ids \cup Statuses \cup ExitCodes \cup {"absent"}

Row == [pid    : Pids \cup {NULL},
        status : Statuses \cup {"absent"},
        hash   : Ids \cup {NULL},
        exit   : ExitCodes \cup {NULL}]

NoRow == [pid |-> NULL, status |-> "absent", hash |-> NULL, exit |-> NULL]

(* A partial update: NULL in a field is a field the caller omits.          *)
ServiceUpdate == [pid    : Pids \cup {NULL},
                  status : Statuses \cup {NULL},
                  hash   : Ids \cup {NULL},
                  exit   : ExitCodes \cup {NULL}]

Coalesce(new, old) == IF new = NULL THEN old ELSE new

(* Mutant: COALESCE(services.pid_identity_hash, excluded.pid_identity_hash) *)
upsertKeepsFirstIdentity(row, u) ==
    [pid    |-> Coalesce(u.pid, row.pid),
     status |-> Coalesce(u.status, IF row = NoRow THEN "unknown" ELSE row.status),
     hash   |-> Coalesce(row.hash, u.hash),
     exit   |-> Coalesce(u.exit, row.exit)]

(* INSERT ... ON CONFLICT DO UPDATE: the fields given replace those of the *)
(* row, the others stay.  It can never set a column back to NULL.          *)
upsert(row, u) ==
    [pid    |-> Coalesce(u.pid, row.pid),
     status |-> Coalesce(u.status, IF row = NoRow THEN "unknown" ELSE row.status),
     hash   |-> Coalesce(u.hash, row.hash),
     exit   |-> Coalesce(u.exit, row.exit)]

(* Mutant: the status and exit code parameters bound in the wrong order.   *)
clear_pidSwapsParameters(row, status, exitCode) ==
    IF row = NoRow
      THEN row
      ELSE [row EXCEPT !.pid = NULL, !.status = exitCode, !.exit = status]

(* Mutant: the exit code of the previous run is left in the row.           *)
clear_pidKeepsExit(row, status, exitCode) ==
    IF row = NoRow THEN row ELSE [row EXCEPT !.pid = NULL, !.status = status,
                                             !.exit = Coalesce(exitCode, @)]

(* UPDATE ... SET pid = NULL: whatever pid the row holds, if there is one. *)
clear_pid(row, status, exitCode) ==
    IF row = NoRow
      THEN row
      ELSE [row EXCEPT !.pid = NULL, !.status = status, !.exit = exitCode]

StatusUpdate(status) ==
    [pid |-> NULL, status |-> status, hash |-> NULL, exit |-> NULL]
=============================================================================
