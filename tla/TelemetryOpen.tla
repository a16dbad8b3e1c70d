--------------------------- MODULE TelemetryOpen ---------------------------
(***************************************************************************)
(* TelemetrySink::open() (src/telemetry.cpp) against a database file that  *)
(* outlives the process: the probe for an existing table, the schema, one  *)
(* autocommitted statement at a time, and the schema version, stamped only *)
(* on a database the probe found empty.  The executor may crash between    *)
(* any two of these, and a statement may fail; the next open() starts over *)
(* on what is in the file.  The Python process that shares the file is     *)
(* external: it creates the whole schema and stamps its own version.  Two  *)
(* executors may open the file at the same time.                           *)
(***************************************************************************)
EXTENDS Processes, Sequences

CONSTANTS
    SchemaVersion,     \* kTelemetrySchemaVersion
    PythonVersion      \* the version of a database the Python created

ASSUME OpenAssumption ==
    SchemaVersion \in Nat \ {0} /\ PythonVersion \in Nat \ {0, SchemaVersion}

\* What kSchemaSql creates, in its order.
Schema == <<"correlations", "latency_events", "idx_stage", "idx_correlation_id",
            "idx_started_at">>
Objects == {Schema[i] : i \in DOMAIN Schema}

VARIABLES
    opc,           \* where each process's open() is; "closed" when no writer runs
    preexisting,   \* open()'s local of that name
    created,       \* kSchemaSql statements executed by this open()
    objects,       \* the tables and indexes in the file
    user_version,  \* PRAGMA user_version of the file
    creator,       \* history: who created latency_events
    misled         \* history: whether a probe missed what the Python created

fileVars == <<objects, user_version, creator>>
dbVars == <<opc, preexisting, created, fileVars, misled>>

DbInit ==
    /\ opc = [p \in Executors |-> "closed"]
    /\ preexisting = [p \in Executors |-> FALSE]
    /\ created = [p \in Executors |-> 0]
    /\ objects = {} /\ user_version = 0 /\ creator = "nobody"
    /\ misled = FALSE

At(p, s) == opc' = [opc EXCEPT ![p] = s]

-----------------------------------------------------------------------------
\* sqlite3_open, on a process that has no writer.
OpenFile(p) ==
    /\ opc[p] = "closed"
    /\ At(p, "probe")
    /\ UNCHANGED <<preexisting, created, fileVars, misled>>

HasTable == "latency_events" \in objects

\* has_latency_events(): an error of prepare or step (a busy file: the busy
\* timeout is not set yet) is taken for an empty file.
Probe(p) ==
    /\ opc[p] = "probe"
    /\ \E found \in {HasTable, FALSE} :
          /\ preexisting' = [preexisting EXCEPT ![p] = found]
          /\ misled' = (misled \/ found # HasTable)
    /\ At(p, "schema")
    /\ UNCHANGED <<created, fileVars>>

Create(object) ==
    /\ objects' = objects \cup {object}
    /\ creator' = IF creator = "nobody" /\ "latency_events" \in objects'
                  THEN "executor" ELSE creator

\* Mutant: the schema applied to an empty file only.
CreateNextIfEmpty(p) ==
    /\ opc[p] = "schema" /\ created[p] < Len(Schema)
    /\ created' = [created EXCEPT ![p] = @ + 1]
    /\ IF preexisting[p] THEN UNCHANGED <<objects, creator>>
                         ELSE Create(Schema[created'[p]])
    /\ UNCHANGED <<opc, preexisting, user_version, misled>>

\* The next CREATE ... IF NOT EXISTS of kSchemaSql.
CreateNext(p) ==
    /\ opc[p] = "schema" /\ created[p] < Len(Schema)
    /\ created' = [created EXCEPT ![p] = @ + 1]
    /\ Create(Schema[created'[p]])
    /\ UNCHANGED <<opc, preexisting, user_version, misled>>

\* Mutant: the version stamped whoever created the database.
StampAlways(p) ==
    /\ opc[p] = "schema" /\ created[p] = Len(Schema)
    /\ user_version' = SchemaVersion
    /\ At(p, "prepare")
    /\ UNCHANGED <<preexisting, created, objects, creator, misled>>

Stamp(p) ==
    /\ opc[p] = "schema" /\ created[p] = Len(Schema)
    /\ user_version' = IF preexisting[p] THEN user_version ELSE SchemaVersion
    /\ At(p, "prepare")
    /\ UNCHANGED <<preexisting, created, objects, creator, misled>>

\* The two inserts are prepared and the writer starts.
StartWriter(p) ==
    /\ opc[p] = "prepare"
    /\ At(p, "opened")
    /\ UNCHANGED <<preexisting, created, fileVars, misled>>

\* A statement fails and open() returns its error; what the statements before it
\* did stays in the file.
OpenReturnsError(p) ==
    /\ opc[p] \in {"probe", "schema", "prepare"}
    /\ At(p, "closed")
    /\ UNCHANGED <<preexisting, created, fileVars, misled>>

\* close(), or a crash: the connection is gone and the file stays as it is.
ConnectionGone(p) ==
    /\ At(p, "closed")
    /\ UNCHANGED <<preexisting, created, fileVars, misled>>

\* The Python's initialize() on a file without tables, at any time.
PythonCreates ==
    /\ objects = {}
    /\ objects' = Objects /\ user_version' = PythonVersion /\ creator' = "python"
    /\ misled' = (misled \/ \E p \in Executors : opc[p] = "schema")
    /\ UNCHANGED <<opc, preexisting, created>>

-----------------------------------------------------------------------------
(* Properties.                                                             *)

\* Whatever an earlier open() that failed or crashed left in the file, an open()
\* that succeeds finds or creates the whole schema before rows are inserted.
SchemaComplete ==
    (\E p \in Executors : opc[p] \in {"prepare", "opened"}) => objects = Objects

\* "Stamped only on a database this process created": "the version belongs to
\* whichever process created the file", over any history of opens that crashed
\* or failed.  The exceptions are a probe that could not read the file, and the
\* Python creating it between the probe and the schema.
VersionBelongsToCreator ==
    creator = "python" /\ ~misled => user_version = PythonVersion

\* A database the executor created carries its version by the time open()
\* succeeds: "stamping zero instead would send [the Python's next open] into
\* _add_order_fill_columns against an orders_fired that does not exist yet".
OwnDatabaseIsStamped ==
    (\E p \in Executors : opc[p] = "opened") /\ creator = "executor" => user_version = SchemaVersion

=============================================================================
