----------------------------- MODULE Migration -----------------------------
(***************************************************************************)
(* The sessions table under app/db/connection.py: init_db, the schema      *)
(* migrations that run on every boot before the application serves         *)
(* anything, and reset_all, which an operator may call while handlers and  *)
(* the poller hold primary keys.  The connection is in autocommit mode,    *)
(* executescript included, so each SQL statement is an action, and the     *)
(* process may die between any two of them and be started again            *)
(* (docker-compose.yml restarts it, also when init_db raises).             *)
(***************************************************************************)
EXTENDS Integers

CONSTANTS
    Ids,            \* ids of the rows of the original schema, oldest first
    Issue,          \* Issue[id]: the issue a row is about, None when its URL
                    \*   and label do not tell
    None,
    Issues,         \* issues that webhooks arrive for
    MaxId           \* bound: the highest id of a row

ASSUME MigrationAssumption ==
    /\ Ids \subseteq 1 .. MaxId /\ MaxId \in Nat
    /\ DOMAIN Issue = Ids
    /\ None \notin Issues /\ \A id \in Ids : Issue[id] \in Issues \cup {None}

VARIABLES
    sessions,       \* the table sessions
    sessions_new,   \* the copy made by a rebuild
    indexed,        \* the unique index on work_key exists
    next,           \* the next statement of init_db
    todo, existing, \* the backfill's rows still to do, and keys in use
    held,           \* primary keys that handlers and the poller will write
                    \*   to, each with the key of the row it was read from
    reserved,       \* issues reserved at run time
    wiped           \* reset_all has run

locals == <<todo, existing>>
running == <<held, reserved, wiped>>
vars == <<sessions, sessions_new, indexed, next, locals, running>>

-----------------------------------------------------------------------------
(* Tables.  keys[id] is the row's work_key, seq what sqlite_sequence keeps  *)
(* for AUTOINCREMENT: the highest id the table has had.  Of the columns,    *)
(* those matter that a migration adds or relaxes.                          *)

Null == <<>>

Highest(ids) == CHOOSE n \in ids \cup {0} : \A id \in ids : id <= n

NoTable == [exists |-> FALSE, keys |-> <<>>, seq |-> 0, hasKey |-> FALSE,
            hasOutput |-> FALSE, notNull |-> FALSE]

Original == [exists |-> TRUE, keys |-> [id \in Ids |-> Null], seq |-> Highest(Ids),
             hasKey |-> FALSE, hasOutput |-> FALSE, notNull |-> TRUE]

\* CREATE TABLE sessions of init_db, and sessions_new of the rebuild.
Fresh == [exists |-> TRUE, keys |-> <<>>, seq |-> 0, hasKey |-> TRUE,
          hasOutput |-> TRUE, notNull |-> FALSE]
Rebuilt == [Fresh EXCEPT !.hasOutput = FALSE]

KeysOf(table) == {table.keys[id] : id \in DOMAIN table.keys}

UniqueKeys(table) ==
    \A a, b \in DOMAIN table.keys : table.keys[a] = table.keys[b] => a = b

\* make_work_key, which the handlers use.
make_work_key(issue) == <<"issue", issue>>

\* Altered: not the key the handlers compute.
LegacyKeyOnly(id) == <<"legacy", id>>

\* What the backfill makes of a row: the same, or legacy:<id>.
Canonical(id) ==
    IF Issue[id] # None THEN make_work_key(Issue[id]) ELSE <<"legacy", id>>

\* Canonical(id) followed by :dup: and the id.
Suffixed(id) == <<"dup", Canonical(id), id>>

Init ==
    /\ sessions = Original
    /\ sessions_new = NoTable
    /\ indexed = FALSE
    /\ next = "create_tables"
    /\ todo = {} /\ existing = {}
    /\ held = {} /\ reserved = {} /\ wiped = FALSE

-----------------------------------------------------------------------------
(* init_db, statement by statement. *)

CreateTables ==
    /\ next = "create_tables"
    /\ sessions' = IF sessions.exists THEN sessions ELSE Fresh
    /\ next' = "add_work_key"
    /\ UNCHANGED <<sessions_new, indexed, locals, running>>

AddWorkKey ==
    /\ next = "add_work_key"
    /\ sessions' = [sessions EXCEPT !.hasKey = TRUE]
    /\ next' = "select"
    /\ UNCHANGED <<sessions_new, indexed, locals, running>>

\* The two SELECTs of _backfill_missing_work_keys.
SelectForBackfill ==
    /\ next = "select"
    /\ todo' = {id \in DOMAIN sessions.keys : sessions.keys[id] = Null}
    /\ existing' = KeysOf(sessions) \ {Null}
    /\ next' = "backfill"
    /\ UNCHANGED <<sessions, sessions_new, indexed, running>>

\* Altered: keys given before a crash are not seen again.
Unsuffixed(id) == Canonical(id)

\* The oldest row keeps the canonical key, later ones are suffixed.
WorkKeyFor(id) ==
    IF Canonical(id) \in existing THEN Suffixed(id) ELSE Canonical(id)

Backfill ==
    /\ next = "backfill"
    /\ \E id \in todo :
         /\ \A other \in todo : id <= other
         /\ sessions' = [sessions EXCEPT !.keys[id] = WorkKeyFor(id)]
         /\ existing' = existing \cup {WorkKeyFor(id)}
         /\ todo' = todo \ {id}
    /\ UNCHANGED <<sessions_new, indexed, next, running>>

\* Altered: a table with a work_key counts as rebuilt.
NoWorkKeyYet == sessions.notNull /\ ~sessions.hasKey

NeedsRebuild == sessions.notNull

\* M2: rebuild the table if devin_session_id is still NOT NULL.
CheckNotNull ==
    /\ next = "backfill"
    /\ todo = {}
    /\ next' = IF NeedsRebuild THEN "create_new" ELSE "index"
    /\ existing' = {}
    /\ UNCHANGED <<sessions, sessions_new, indexed, todo, running>>

\* CREATE TABLE sessions_new has no IF NOT EXISTS.
CreateNew ==
    /\ next = "create_new"
    /\ IF sessions_new.exists
       THEN next' = "failed" /\ UNCHANGED sessions_new
       ELSE next' = "copy" /\ sessions_new' = Rebuilt
    /\ UNCHANGED <<sessions, indexed, locals, running>>

\* Altered: nothing is copied.
EmptyCopy(table) == Rebuilt

\* The ids are copied too, and the sequence goes on from the highest.
CopyOf(table) ==
    [Rebuilt EXCEPT !.keys = table.keys, !.seq = Highest(DOMAIN table.keys)]

Copy ==
    /\ next = "copy"
    /\ sessions_new' = CopyOf(sessions)
    /\ next' = "drop"
    /\ UNCHANGED <<sessions, indexed, locals, running>>

\* The indexes go with their table.
Drop ==
    /\ next = "drop"
    /\ sessions' = NoTable
    /\ indexed' = FALSE
    /\ next' = "rename"
    /\ UNCHANGED <<sessions_new, locals, running>>

Rename ==
    /\ next = "rename"
    /\ sessions' = sessions_new
    /\ sessions_new' = NoTable
    /\ next' = "index"
    /\ UNCHANGED <<indexed, locals, running>>

\* M3: CREATE UNIQUE INDEX IF NOT EXISTS uq_sessions_work_key.
CreateIndex ==
    /\ next = "index"
    /\ IF indexed \/ UniqueKeys(sessions)
       THEN indexed' = TRUE /\ next' = "add_output"
       ELSE next' = "failed" /\ UNCHANGED indexed
    /\ UNCHANGED <<sessions, sessions_new, locals, running>>

\* M4
AddStructuredOutput ==
    /\ next = "add_output"
    /\ sessions' = [sessions EXCEPT !.hasOutput = TRUE]
    /\ next' = "ready"
    /\ UNCHANGED <<sessions_new, indexed, locals, running>>

-----------------------------------------------------------------------------
(* The application runs; at any time the process dies, or gives up on a     *)
(* failed boot, and is restarted.                                          *)

\* Altered: INTEGER PRIMARY KEY without AUTOINCREMENT.
OneAboveTheRows == Highest(DOMAIN sessions.keys) + 1

NextId == sessions.seq + 1

\* try_reserve for an issue: the handler keeps the id.
Reserve(i) ==
    /\ next = "ready"
    /\ NextId <= MaxId
    /\ make_work_key(i) \notin KeysOf(sessions)
    /\ sessions' = [sessions EXCEPT !.seq = NextId, !.keys =
          [id \in DOMAIN @ \cup {NextId} |-> IF id = NextId THEN make_work_key(i) ELSE @[id]]]
    /\ held' = held \cup {[id |-> NextId, key |-> make_work_key(i)]}
    /\ reserved' = reserved \cup {i}
    /\ UNCHANGED <<sessions_new, indexed, next, locals, wiped>>

\* list_non_terminal: the poller keeps the id of a row it is to visit.
CopyRow(id) ==
    /\ next = "ready"
    /\ id \in DOMAIN sessions.keys
    /\ held' = held \cup {[id |-> id, key |-> sessions.keys[id]]}
    /\ UNCHANGED <<sessions, sessions_new, indexed, next, locals, reserved, wiped>>

\* update: to the row with that id, if there is one; the key stays.
Update(h) ==
    /\ next = "ready"
    /\ h \in held
    /\ held' = held \ {h}
    /\ UNCHANGED <<sessions, sessions_new, indexed, next, locals, reserved, wiped>>

\* reset_all (POST /admin/reset).  DELETE leaves sqlite_sequence alone; the
\* second statement, on webhook_events, touches nothing here.
ResetAll ==
    /\ next = "ready"
    /\ sessions' = [sessions EXCEPT !.keys = <<>>]
    /\ wiped' = TRUE
    /\ UNCHANGED <<sessions_new, indexed, next, locals, held, reserved>>

Reboot ==
    /\ next' = "create_tables"
    /\ todo' = {} /\ existing' = {}
    /\ held' = {}
    /\ UNCHANGED <<sessions, sessions_new, indexed, reserved, wiped>>

Next ==
    \/ CreateTables \/ AddWorkKey \/ SelectForBackfill \/ Backfill \/ CheckNotNull
    \/ CreateNew \/ Copy \/ Drop \/ Rename \/ CreateIndex \/ AddStructuredOutput
    \/ \E i \in Issues : Reserve(i)
    \/ \E id \in 1 .. MaxId : CopyRow(id)
    \/ \E h \in held : Update(h)
    \/ ResetAll \/ Reboot

Spec == Init /\ [][Next]_vars

-----------------------------------------------------------------------------
(* Properties. *)

WorkKeys == {Null} \cup {make_work_key(i) : i \in Issues}
                \cup {Canonical(id) : id \in Ids}
                \cup {Suffixed(id) : id \in Ids}

IsTable(t) ==
    /\ DOMAIN t = DOMAIN NoTable
    /\ t.seq \in 0 .. MaxId /\ DOMAIN t.keys \subseteq 1 .. t.seq
    /\ KeysOf(t) \subseteq WorkKeys
    /\ t.exists \in BOOLEAN /\ t.hasKey \in BOOLEAN
    /\ t.hasOutput \in BOOLEAN /\ t.notNull \in BOOLEAN
    /\ ~t.exists => t = NoTable

\* Tables have the columns and rows their statements give them, and the
\* statements that need a table or a column find it.
TypeOK ==
    /\ IsTable(sessions) /\ IsTable(sessions_new)
    /\ indexed \in BOOLEAN
    /\ todo \subseteq Ids /\ existing \subseteq WorkKeys
    /\ next \in {"create_tables", "rename", "failed"} \/ sessions.exists
    /\ next \in {"index", "add_output", "ready"} => sessions.hasKey /\ ~sessions.notNull
    /\ next = "ready" => sessions.hasOutput /\ indexed
    /\ held \subseteq [id : 1 .. MaxId, key : WorkKeys]
    /\ reserved \subseteq Issues /\ wiped \in BOOLEAN

\* A crash came between DROP and RENAME, and the next boot made a new table.
Torn == sessions_new.exists /\ sessions.exists /\ ~sessions.notNull

\* Whatever statement a crash comes after, no row of the original table is
\* gone: it is in sessions, or in the copy; unless an operator wiped it.
NothingDestroyed ==
    ~wiped => \A id \in Ids : id \in DOMAIN sessions.keys \/ id \in DOMAIN sessions_new.keys

\* "Backfill must match runtime" (tests/test_migration.py): however often the
\* backfill is interrupted and resumed, the oldest row of an issue gets the
\* key the handlers compute, and the later ones get their own.
KeyByAge(id) ==
    IF \E older \in Ids : older < id /\ Canonical(older) = Canonical(id)
    THEN Suffixed(id)
    ELSE Canonical(id)

BackfillResumes ==
    ~Torn => \A id \in Ids \cap DOMAIN sessions.keys : sessions.keys[id] \in {Null, KeyByAge(id)}

\* "safe to re-run on every boot" (connection.py:163-165) is true as long as
\* no crash tears the rebuild: then every old row is in place, no issue is
\* worked on twice, and the boot does not fail.
IntactUnlessTorn ==
    (~sessions_new.exists /\ sessions.exists /\ ~wiped) =>
        /\ next # "failed"
        /\ Ids \subseteq DOMAIN sessions.keys
        /\ \A id \in Ids : Issue[id] \notin reserved

\* A primary key never comes to mean another row: whoever writes by an id it
\* read or reserved before a reset writes to its own row or to none
\* (connection.py:250-253, the AUTOINCREMENT of lines 118 and 181).
OwnRowOrNone ==
    \A h \in held : h.id \in DOMAIN sessions.keys => sessions.keys[h.id] = h.key

-----------------------------------------------------------------------------
(* Claims of the documentation that the code does not keep. *)

\* "safe to re-run on every boot" (connection.py:163-165), without exception.
BootKeepsHistory == next = "ready" /\ ~wiped => Ids \subseteq DOMAIN sessions.keys
=============================================================================
