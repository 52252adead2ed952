-------------------------------- MODULE Startup --------------------------------
(***************************************************************************)
(* The start of an application process: the checkpoint tables of LangGraph  *)
(* are migrated, one statement at a time and in autocommit, then the bucket *)
(* of a development store is created if it is missing.  Several processes   *)
(* may start at once: a new release beside the old one, or scripts/migrate  *)
(* beside the server.  Any of them may die between two statements or inside *)
(* one.                                                                     *)
(*                                                                         *)
(* The migrations are the library's: v is the primary key of                *)
(* checkpoint_migrations, and all can be repeated.  Some of them are CREATE *)
(* INDEX CONCURRENTLY IF NOT EXISTS, which is no transaction: one that is   *)
(* interrupted leaves an invalid index behind, and one that is repeated     *)
(* finds an index of that name and does nothing.                            *)
(***************************************************************************)
EXTENDS Integers, FiniteSets

CONSTANTS
    Processes,
    Latest,             \* the number of the library's last migration
    Indexes,            \* the migrations that create an index concurrently
    BootstrapAttempts,  \* _BOOTSTRAP_ATTEMPTS
    MaxFaults           \* bound: crashes and failures of the database

ASSUME StartupAssumption ==
    /\ IsFiniteSet(Processes)
    /\ Latest \in Nat
    /\ Indexes \subseteq 0 .. Latest
    /\ BootstrapAttempts \in Nat \ {0}
    /\ MaxFaults \in Nat

VARIABLES
    applied,    \* migrations whose statement took effect
    broken,     \* those of them whose index was left invalid
    recorded,   \* the rows of checkpoint_migrations
    bucket,     \* the bucket: "missing", "owned" or another account's, "denied"
    phase,      \* what each process does next
    at,         \* the migration it is at, or its attempt at the bucket
    ready,      \* _schema_ready of each process
    faults      \* history: faults so far

schema == <<applied, broken, recorded>>
startupVars == <<schema, bucket, phase, at, ready, faults>>

Migrations == 0 .. Latest
Phases == {"down", "version", "apply", "record", "head", "create", "up"}

\* SELECT v ... ORDER BY v DESC LIMIT 1, and -1 without a row or a table
Version == IF recorded = {} THEN -1 ELSE CHOOSE v \in recorded : \A w \in recorded : w <= v

\* The database as an earlier release may have left it: a prefix of the
\* migrations, and perhaps one more that was applied and not recorded.
Init ==
    /\ \E v \in -1 .. Latest :
          /\ recorded = 0 .. v
          /\ applied \in {0 .. v, 0 .. (IF v = Latest THEN v ELSE v + 1)}
    /\ broken = {}
    /\ bucket \in {"missing", "owned", "denied"}
    /\ phase = [p \in Processes |-> "down"]
    /\ at = [p \in Processes |-> 0]
    /\ ready = [p \in Processes |-> FALSE]
    /\ faults = 0

Goto(p, what, n) ==
    /\ phase' = [phase EXCEPT ![p] = what]
    /\ at' = [at EXCEPT ![p] = n]

--------------------------------------------------------------------------------
\* Somebody starts the process, or starts it again; uvicorn enters lifespan.
Start(p) ==
    /\ phase[p] = "down"
    /\ Goto(p, "version", 0)
    /\ UNCHANGED <<schema, bucket, ready, faults>>

\* A slip: the process is ready before its migrations are.
ReadVersionSlip(p) ==
    /\ phase[p] = "version"
    /\ ready' = [ready EXCEPT ![p] = TRUE]
    /\ IF Version >= Latest THEN Goto(p, "head", 1) ELSE Goto(p, "apply", Version + 1)
    /\ UNCHANGED <<schema, bucket, faults>>

\* ensure_checkpointer_schema reads the version once, for the whole loop.
ReadVersion(p) ==
    /\ phase[p] = "version"
    /\ IF Version >= Latest
       THEN Goto(p, "head", 1) /\ ready' = [ready EXCEPT ![p] = TRUE]
       ELSE Goto(p, "apply", Version + 1) /\ ready' = ready
    /\ UNCHANGED <<schema, bucket, faults>>

\* The statement runs to its end, or finds that its object exists, valid or not.
Apply(p) ==
    /\ phase[p] = "apply"
    /\ applied' = applied \cup {at[p]}
    /\ Goto(p, "record", at[p])
    /\ UNCHANGED <<broken, recorded, bucket, ready, faults>>

\* The process dies while it builds an index, or the database ends one of two
\* builds that wait for each other: the index stays, invalid.
ApplyInterrupted(p) ==
    /\ phase[p] = "apply"
    /\ at[p] \in Indexes \ applied
    /\ faults < MaxFaults
    /\ faults' = faults + 1
    /\ applied' = applied \cup {at[p]}
    /\ broken' = broken \cup {at[p]}
    /\ Goto(p, "down", 0)
    /\ UNCHANGED <<recorded, bucket, ready>>

Record(p) ==
    LET v == at[p]
    IN  /\ phase[p] = "record"
        /\ v \notin recorded
        /\ recorded' = recorded \cup {v}
        /\ IF v = Latest
           THEN Goto(p, "head", 1) /\ ready' = [ready EXCEPT ![p] = TRUE]
           ELSE Goto(p, "apply", v + 1) /\ ready' = ready
        /\ UNCHANGED <<applied, broken, bucket, faults>>

\* A slip: the process that loses the race waits for the other.
RecordTwiceSlip(p) ==
    /\ phase[p] = "record"
    /\ at[p] \in recorded
    /\ UNCHANGED startupVars

\* Another process has recorded it: the INSERT raises, and the start fails.
RecordTwice(p) ==
    /\ phase[p] = "record"
    /\ at[p] \in recorded
    /\ Goto(p, "down", 0)
    /\ UNCHANGED <<schema, bucket, ready, faults>>

--------------------------------------------------------------------------------
(* ensure_bucket_exists *)

\* A slip: the last attempt ends the process.
TryAgainSlip(p) ==
    IF at[p] = BootstrapAttempts THEN Goto(p, "down", 0) ELSE Goto(p, "head", at[p] + 1)

TryAgain(p) ==
    IF at[p] = BootstrapAttempts THEN Goto(p, "up", 0) ELSE Goto(p, "head", at[p] + 1)

\* Outside local and dev, or without an endpoint, there is nothing to do.
BucketManagedElsewhere(p) ==
    /\ phase[p] = "head" /\ at[p] = 1
    /\ Goto(p, "up", 0)
    /\ UNCHANGED <<schema, bucket, ready, faults>>

\* Without an error, or with any status but 404, there is nothing left to do: also
\* when the store answers 500 of a missing bucket.  404 leads to a creation, and
\* so does an error without a status, whatever the bucket.
HeadBucket(p) ==
    /\ phase[p] = "head"
    /\ Goto(p, "up", 0) \/ Goto(p, "create", at[p])
    /\ UNCHANGED <<schema, bucket, ready, faults>>

\* The endpoint cannot be reached.
HeadFails(p) ==
    /\ phase[p] = "head"
    /\ TryAgain(p)
    /\ UNCHANGED <<schema, bucket, ready, faults>>

CreateBucket(p) ==
    /\ phase[p] = "create"
    /\ bucket # "denied"
    /\ bucket' = "owned"
    /\ Goto(p, "up", 0)
    /\ UNCHANGED <<schema, ready, faults>>

CreateFails(p) ==
    /\ phase[p] = "create"
    /\ TryAgain(p)
    /\ UNCHANGED <<schema, bucket, ready, faults>>

--------------------------------------------------------------------------------
\* The process dies, or the database fails it during its start: it exits.
Crash(p) ==
    /\ phase[p] # "down"
    /\ faults < MaxFaults
    /\ faults' = faults + 1
    /\ Goto(p, "down", 0)
    /\ ready' = [ready EXCEPT ![p] = FALSE]
    /\ UNCHANGED <<schema, bucket>>

StartStep(p) ==
    \/ Start(p) \/ ReadVersion(p)
    \/ Apply(p) \/ Record(p) \/ RecordTwice(p)
    \/ BucketManagedElsewhere(p) \/ HeadBucket(p) \/ HeadFails(p)
    \/ CreateBucket(p) \/ CreateFails(p)
    \/ ApplyInterrupted(p)

--------------------------------------------------------------------------------
\* The rows of checkpoint_migrations have no gap and never run ahead of the
\* schema, however starts race and die: the version read from the last row
\* vouches for all before it (checkpointer.py:26-34, 50-60).  What it vouches for
\* is that the object exists; an index may be invalid.
RecordedTookEffect ==
    /\ \A v \in recorded : 0 .. v \subseteq recorded
    /\ recorded \subseteq applied
    /\ broken \subseteq applied \cap Indexes

\* A process that takes requests finds every migration applied and recorded, also
\* when other processes did it and some of them died, and every index valid if
\* nothing failed (checkpointer.py:50-60, 67-74, main.py:31-34).
ServesOnceAllIsRecorded ==
    \A p \in Processes : ready[p] \/ phase[p] \in {"head", "create", "up"} =>
        /\ applied = Migrations /\ recorded = Migrations /\ ready[p]
        /\ broken # {} => faults > 0

\* What the docstring of ensure_checkpointer_schema and the log line before it say:
\* once it returned, the migrations exist and the schema is ready.
ServesOnValidSchema == \A p \in Processes : phase[p] = "up" => broken = {}

================================================================================
