-------------------------- MODULE MigrationProofs --------------------------
(***************************************************************************)
(* Theorems about Migration, for any rows of the original schema, any      *)
(* issues, and any number of crashes, boots and resets.                    *)
(***************************************************************************)
EXTENDS Migration, WellFoundedInduction, TLAPS

(***************************************************************************)
(* Work keys tell rows apart.                                              *)
(***************************************************************************)
LEMMA Keys ==
    /\ \A id \in Ids : Canonical(id) # Null /\ Suffixed(id) # Null
    /\ \A a, b \in Ids : Suffixed(a) # Canonical(b)
    /\ \A a, b \in Ids : Suffixed(a) = Suffixed(b) => a = b
    /\ \A i \in Issues : make_work_key(i) # Null
    /\ \A i \in Issues, id \in Ids : make_work_key(i) # Suffixed(id)
BY DEF Canonical, Suffixed, make_work_key, Null

LEMMA KeyOfAnIssue ==
    \A id \in Ids : Issue[id] \in Issues => Canonical(id) = make_work_key(Issue[id])
BY MigrationAssumption DEF Canonical

LEMMA HighestBounds ==
    ASSUME NEW n \in Nat, NEW ids \in SUBSET (1 .. n)
    PROVE  Highest(ids) \in ids \cup {0} /\ \A id \in ids : id <= Highest(ids)
<1> DEFINE Less == OpToRel(<, Nat)
           Bounds == {k \in Nat : \A id \in ids : id <= k}
<1>1. IsWellFoundedOn(Less, Nat)
  BY NatLessThanWellFounded
<1>2. Bounds \subseteq Nat /\ n \in Bounds
  OBVIOUS
<1> HIDE DEF Less
<1>3. PICK m \in Bounds : \A k \in Bounds : <<k, m>> \notin Less
  BY <1>1, <1>2, WFMin
<1>4. \A k \in Nat : k < m => <<k, m>> \in Less
  BY DEF Less, OpToRel
<1>5. m \in ids \cup {0}
  <2> SUFFICES ASSUME m \notin ids, m # 0 PROVE FALSE
    OBVIOUS
  <2>1. m - 1 \in Nat /\ m - 1 < m
    OBVIOUS
  <2>2. m - 1 \in Bounds
    BY <2>1
  <2> QED BY <1>3, <1>4, <2>1, <2>2
<1> QED BY <1>5 DEF Highest

LEMMA HighestId == Highest(Ids) \in 0 .. MaxId /\ Ids \subseteq 1 .. Highest(Ids)
<1>1. Ids \in SUBSET (1 .. MaxId) /\ MaxId \in Nat
  BY MigrationAssumption
<1>2. Highest(Ids) \in Ids \cup {0} /\ \A id \in Ids : id <= Highest(Ids)
  BY <1>1, HighestBounds
<1> DEFINE n == Highest(Ids)
<1> HIDE DEF n
<1>3. n \in Ids \cup {0} /\ \A id \in Ids : id <= n
  BY <1>2 DEF n
<1>4. \A id \in Ids : id \in Nat /\ 1 <= id /\ id <= MaxId
  BY <1>1
<1>5. n \in Nat /\ n <= MaxId
  BY <1>1, <1>3, <1>4
<1>6. n \in 0 .. MaxId /\ Ids \subseteq 1 .. n
  BY <1>1, <1>3, <1>4, <1>5
<1> QED BY <1>6 DEF n

\* The oldest row with a row's canonical key has that key.
LEMMA OldestHasTheKey ==
    ASSUME NEW id \in Ids
    PROVE  \E o \in Ids : o <= id /\ Canonical(o) = Canonical(id) /\ KeyByAge(o) = Canonical(id)
<1> DEFINE Less == OpToRel(<, Nat)
           Same == {o \in Ids : Canonical(o) = Canonical(id)}
<1>1. IsWellFoundedOn(Less, Nat)
  BY NatLessThanWellFounded
<1>2. Same \subseteq Nat /\ id \in Same
  BY MigrationAssumption
<1> HIDE DEF Less
<1>3. PICK o \in Same : \A k \in Same : <<k, o>> \notin Less
  BY <1>1, <1>2, WFMin
<1>4. \A k \in Same : ~(k < o)
  BY <1>2, <1>3 DEF Less, OpToRel
<1>5. o \in Ids /\ o <= id /\ Canonical(o) = Canonical(id)
  BY <1>2, <1>4
<1>6. ~ \E older \in Ids : older < o /\ Canonical(older) = Canonical(o)
  BY <1>4, <1>5
<1> QED BY <1>5, <1>6 DEF KeyByAge

LEMMA KeysByAgeDiffer ==
    /\ \A id \in Ids : KeyByAge(id) \in {Canonical(id), Suffixed(id)}
    /\ \A a, b \in Ids : KeyByAge(a) = KeyByAge(b) => a = b
<1>1. Ids \subseteq Nat
  BY MigrationAssumption
<1>2. \A id \in Ids : KeyByAge(id) \in {Canonical(id), Suffixed(id)}
  BY DEF KeyByAge
<1>3. ASSUME NEW a \in Ids, NEW b \in Ids, KeyByAge(a) = KeyByAge(b)
      PROVE  a = b
  <2>1. CASE KeyByAge(a) = Suffixed(a)
    BY <1>2, <1>3, <2>1, Keys
  <2>2. CASE KeyByAge(a) = Canonical(a)
    <3>1. KeyByAge(b) = Canonical(b)
      BY <1>2, <1>3, <2>2, Keys
    <3>2. ~(a < b) /\ ~(b < a)
      BY <1>3, <2>2, <3>1, Keys DEF KeyByAge
    <3> QED BY <1>1, <3>2
  <2> QED BY <1>2, <2>1, <2>2
<1> QED BY <1>2, <1>3

(***************************************************************************)
(* The invariant.                                                          *)
(***************************************************************************)

\* sessions_new holds every row of the original table, and the keys it gave.
Copied ==
    /\ sessions_new.exists /\ sessions_new.hasKey
    /\ DOMAIN sessions_new.keys = Ids /\ Ids \subseteq 1 .. sessions_new.seq
    /\ \A id \in Ids : sessions_new.keys[id] = KeyByAge(id)

NoRowNull == \A id \in DOMAIN sessions.keys : sessions.keys[id] # Null

\* What each statement of init_db finds.
Statements ==
    /\ next \in {"create_tables", "add_work_key", "select", "backfill", "create_new",
                 "copy", "drop", "rename", "index", "add_output", "ready", "failed"}
    /\ next \in {"select", "backfill", "create_new", "copy", "drop"} => sessions.hasKey
    /\ next = "backfill" =>
          /\ todo = {id \in DOMAIN sessions.keys : sessions.keys[id] = Null}
          /\ existing = KeysOf(sessions) \ {Null}
    /\ next \in {"create_new", "copy", "drop"} => sessions.notNull /\ NoRowNull
    /\ next = "drop" => Copied
    /\ next = "rename" => ~sessions.exists
    /\ next = "add_output" => indexed
    /\ next = "failed" => sessions_new.exists

\* A row's key is of an issue, or made by the backfill for that row; no two
\* rows have the same.
OwnKey(id, k) ==
    \/ \E i \in Issues : k = make_work_key(i)
    \/ id \in Ids /\ k \in {Null, Canonical(id), Suffixed(id)}

Keyed ==
    /\ \A id \in DOMAIN sessions.keys : OwnKey(id, sessions.keys[id])
    /\ \A a, b \in DOMAIN sessions.keys :
          sessions.keys[a] = sessions.keys[b] => a = b \/ sessions.keys[a] = Null

\* Where the original rows are: in the table that was never rebuilt, in the
\* copy alone, in the copy that a new table hides, or in the rebuilt table.
Rows ==
    /\ sessions.notNull => DOMAIN sessions.keys = Ids /\ reserved = {} /\ ~wiped
    /\ ~sessions.notNull => NoRowNull
    /\ ~sessions_new.notNull
    /\ ~sessions.exists => Copied /\ reserved = {} /\ ~wiped
    /\ Torn => Copied
    /\ sessions.exists /\ ~Torn =>
          /\ Ids \subseteq 1 .. sessions.seq
          /\ \A id \in Ids \cap DOMAIN sessions.keys : sessions.keys[id] \in {Null, KeyByAge(id)}
          /\ ~wiped => Ids \subseteq DOMAIN sessions.keys /\ \A id \in Ids : Issue[id] \notin reserved

\* Ids that are held have been given out.
Held ==
    /\ held # {} => next = "ready"
    /\ \A h \in held : h.id \in 1 .. sessions.seq
    /\ OwnRowOrNone

Inv == TypeOK /\ Statements /\ Keyed /\ Rows /\ Held

\* The keys of rows are work keys.
LEMMA KeyIsTyped ==
    /\ \A id \in Ids : {Canonical(id), Suffixed(id), KeyByAge(id)} \subseteq WorkKeys
    /\ \A i \in Issues : make_work_key(i) \in WorkKeys
    /\ Null \in WorkKeys
BY KeysByAgeDiffer DEF WorkKeys

LEMMA Fields ==
    /\ NoTable.exists = FALSE /\ DOMAIN NoTable.keys = {} /\ NoTable.notNull = FALSE
    /\ Fresh.exists = TRUE /\ DOMAIN Fresh.keys = {} /\ Fresh.seq = 0 /\ Fresh.notNull = FALSE
    /\ IsTable(NoTable) /\ IsTable(Fresh) /\ IsTable(Rebuilt)
    /\ Rebuilt.exists = TRUE /\ Rebuilt.notNull = FALSE
BY MigrationAssumption DEF NoTable, Fresh, Rebuilt, IsTable, KeysOf

LEMMA InvInit == Init => Inv
<1> SUFFICES ASSUME Init PROVE Inv
  OBVIOUS
<1>1. /\ sessions.exists = TRUE /\ DOMAIN sessions.keys = Ids /\ sessions.seq = Highest(Ids)
      /\ sessions.hasKey = FALSE /\ sessions.hasOutput = FALSE /\ sessions.notNull = TRUE
      /\ \A id \in Ids : sessions.keys[id] = Null
      /\ DOMAIN sessions = DOMAIN NoTable
  BY DEF Init, Original, NoTable
<1>2. IsTable(sessions)
  BY <1>1, HighestId, KeyIsTyped DEF IsTable, KeysOf
<1>3. TypeOK
  BY <1>1, <1>2, Fields DEF Init, TypeOK
<1>4. Statements
  BY DEF Init, Statements
<1>5. Keyed
  BY <1>1 DEF Keyed, OwnKey
<1>6. Rows
  BY <1>1, Fields, HighestId DEF Init, Rows, Torn
<1>7. Held
  BY DEF Init, Held, OwnRowOrNone
<1> QED BY <1>3, <1>4, <1>5, <1>6, <1>7 DEF Inv

(***************************************************************************)
(* The statements of init_db.                                              *)
(***************************************************************************)

\* A statement that leaves the rows where they are, with their keys.
SameRows ==
    /\ sessions'.exists = sessions.exists /\ sessions'.keys = sessions.keys
    /\ sessions'.seq = sessions.seq /\ sessions'.notNull = sessions.notNull
    /\ UNCHANGED <<sessions_new, running>>

LEMMA RowsStay ==
    ASSUME Inv, SameRows
    PROVE  Keyed' /\ Rows' /\ (Copied => Copied') /\ (NoRowNull => NoRowNull')
BY DEF Inv, SameRows, Keyed, Rows, Copied, NoRowNull, Torn, OwnKey, running

LEMMA InvCreateTables == Inv /\ CreateTables => Inv'
<1> SUFFICES ASSUME Inv, CreateTables PROVE Inv'
  OBVIOUS
<1> USE DEF CreateTables, running, locals
<1>1. Held'
  BY DEF Inv, Held, OwnRowOrNone
<1>2. CASE sessions.exists
  <2>1. Keyed' /\ Rows'
    BY <1>2, RowsStay DEF SameRows
  <2>2. TypeOK' /\ Statements'
    BY <1>2 DEF Inv, TypeOK, IsTable, KeysOf, Statements
  <2> QED BY <1>1, <2>1, <2>2 DEF Inv
<1>3. CASE ~sessions.exists
  <2>1. sessions' = Fresh
    BY <1>3
  <2>2. IsTable(sessions')
    BY <2>1, Fields
  <2>3. TypeOK' /\ Statements'
    BY <2>1, <2>2, Fields DEF Inv, TypeOK, IsTable, KeysOf, Statements
  <2>4. Copied'
    BY <1>3 DEF Inv, Rows, Copied
  <2>5. Keyed' /\ Rows'
    BY <2>1, <2>4, Fields DEF Inv, Keyed, Rows, NoRowNull, Torn, Copied
  <2> QED BY <1>1, <2>3, <2>5 DEF Inv
<1> QED BY <1>2, <1>3

LEMMA InvAddColumn == Inv /\ (AddWorkKey \/ AddStructuredOutput) => Inv'
<1> SUFFICES ASSUME Inv, AddWorkKey \/ AddStructuredOutput PROVE Inv'
  OBVIOUS
<1> USE DEF AddWorkKey, AddStructuredOutput, running, locals
<1>1. DOMAIN sessions = DOMAIN NoTable /\ sessions.exists
  BY DEF Inv, TypeOK, IsTable
<1>2. /\ SameRows /\ DOMAIN sessions' = DOMAIN sessions
      /\ sessions'.hasKey = IF next = "add_work_key" THEN TRUE ELSE sessions.hasKey
      /\ sessions'.hasOutput = IF next = "add_work_key" THEN sessions.hasOutput ELSE TRUE
  BY <1>1 DEF SameRows, NoTable
<1>3. Keyed' /\ Rows'
  BY <1>2, RowsStay
<1>4. IsTable(sessions')
  <2>1. IsTable(sessions)
    BY DEF Inv, TypeOK
  <2>2. sessions'.hasKey \in BOOLEAN /\ sessions'.hasOutput \in BOOLEAN
    BY <1>2, <2>1 DEF IsTable
  <2>3. KeysOf(sessions') = KeysOf(sessions)
    BY <1>2 DEF KeysOf, SameRows
  <2> QED BY <1>1, <1>2, <2>1, <2>2, <2>3 DEF IsTable, SameRows
<1>5. TypeOK'
  BY <1>1, <1>2, <1>4 DEF Inv, TypeOK, IsTable, KeysOf, SameRows, Statements
<1>6. Statements'
  BY <1>2 DEF Inv, Statements, SameRows, TypeOK
<1>7. Held'
  BY <1>2 DEF Inv, Held, OwnRowOrNone, SameRows
<1> QED BY <1>3, <1>5, <1>6, <1>7 DEF Inv

LEMMA InvSelect == Inv /\ SelectForBackfill => Inv'
<1> SUFFICES ASSUME Inv, SelectForBackfill PROVE Inv'
  OBVIOUS
<1> USE DEF SelectForBackfill, running, locals
<1>1. Keyed' /\ Rows'
  BY RowsStay DEF SameRows
<1>2. \A id \in DOMAIN sessions.keys : sessions.keys[id] = Null => id \in Ids
  BY DEF Inv, Rows, NoRowNull
<1>3. TypeOK'
  BY <1>2 DEF Inv, TypeOK, IsTable, KeysOf
<1>4. Statements' /\ Held'
  BY DEF Inv, Statements, Held, OwnRowOrNone, KeysOf
<1> QED BY <1>1, <1>3, <1>4 DEF Inv

\* The key the backfill gives is the one the row's age calls for.
LEMMA WorkKeyByAge ==
    ASSUME Inv, next = "backfill", NEW id \in todo, \A other \in todo : id <= other
    PROVE  /\ id \in Ids /\ id \in DOMAIN sessions.keys /\ sessions.keys[id] = Null
           /\ sessions.notNull
           /\ WorkKeyFor(id) = KeyByAge(id)
<1>1. /\ id \in DOMAIN sessions.keys /\ sessions.keys[id] = Null
      /\ existing = KeysOf(sessions) \ {Null}
      /\ todo = {row \in DOMAIN sessions.keys : sessions.keys[row] = Null}
  BY DEF Inv, Statements
<1>2. sessions.notNull /\ sessions.exists /\ ~Torn
  BY <1>1 DEF Inv, Rows, NoRowNull, TypeOK, Torn
<1>3. /\ DOMAIN sessions.keys = Ids /\ Ids \subseteq Nat
      /\ \A row \in Ids : sessions.keys[row] \in {Null, KeyByAge(row)}
  BY <1>2, MigrationAssumption DEF Inv, Rows
<1>4. id \in Ids
  BY <1>1, <1>3
<1>5. CASE \E older \in Ids : older < id /\ Canonical(older) = Canonical(id)
  <2>1. PICK older \in Ids : older < id /\ Canonical(older) = Canonical(id)
    BY <1>5
  <2>2. PICK o \in Ids : o <= older /\ KeyByAge(o) = Canonical(id)
    BY <2>1, OldestHasTheKey
  <2>3. o \notin todo
    BY <1>3, <1>4, <2>1, <2>2
  <2>4. sessions.keys[o] = Canonical(id)
    BY <1>1, <1>3, <2>2, <2>3
  <2>5. Canonical(id) \in KeysOf(sessions)
    BY <1>3, <2>2, <2>4 DEF KeysOf
  <2>6. Canonical(id) \in existing
    BY <1>1, <1>4, <2>5, Keys
  <2> QED BY <1>1, <1>2, <1>4, <1>5, <2>6 DEF WorkKeyFor, KeyByAge
<1>6. CASE ~ \E older \in Ids : older < id /\ Canonical(older) = Canonical(id)
  <2>1. ASSUME Canonical(id) \in existing PROVE FALSE
    <3>1. PICK b \in Ids : sessions.keys[b] = Canonical(id)
      BY <1>1, <1>3, <2>1 DEF KeysOf
    <3>2. KeyByAge(b) = Canonical(id) /\ b # id
      BY <1>1, <1>3, <1>4, <3>1, Keys
    <3>3. Canonical(b) = Canonical(id)
      BY <1>4, <3>2, Keys, KeysByAgeDiffer
    <3>4. KeyByAge(b) = Suffixed(b)
      BY <1>3, <1>4, <1>6, <3>2, <3>3 DEF KeyByAge
    <3> QED BY <1>4, <3>2, <3>4, Keys
  <2> QED BY <1>1, <1>2, <1>4, <1>6, <2>1 DEF WorkKeyFor, KeyByAge
<1> QED BY <1>5, <1>6

LEMMA InvBackfill == Inv /\ Backfill => Inv'
<1> SUFFICES ASSUME Inv, Backfill PROVE Inv'
  OBVIOUS
<1>1. PICK id \in todo :
        /\ \A other \in todo : id <= other
        /\ sessions' = [sessions EXCEPT !.keys[id] = WorkKeyFor(id)]
        /\ existing' = existing \cup {WorkKeyFor(id)}
        /\ todo' = todo \ {id}
  BY DEF Backfill
<1>2. next = "backfill" /\ UNCHANGED <<sessions_new, indexed, next, held, reserved, wiped>>
  BY DEF Backfill, running
<1> DEFINE k == WorkKeyFor(id)
<1>3. /\ id \in Ids /\ id \in DOMAIN sessions.keys /\ sessions.keys[id] = Null
      /\ sessions.notNull /\ k = KeyByAge(id)
  BY <1>1, <1>2, WorkKeyByAge
<1>4. k # Null /\ k \in {Canonical(id), Suffixed(id)} /\ k \in WorkKeys
  BY <1>3, Keys, KeysByAgeDiffer, KeyIsTyped
<1>5. k \in {Canonical(id), Suffixed(id)} /\ (k = Suffixed(id) \/ k \notin existing)
  BY <1>4 DEF WorkKeyFor
<1>6. /\ DOMAIN sessions = DOMAIN NoTable /\ sessions.exists
      /\ todo = {row \in DOMAIN sessions.keys : sessions.keys[row] = Null}
      /\ existing = KeysOf(sessions) \ {Null}
  BY <1>2 DEF Inv, TypeOK, IsTable, Statements
<1> HIDE DEF k
<1>7. sessions' = [sessions EXCEPT !.keys = [sessions.keys EXCEPT ![id] = k]]
  BY <1>1 DEF k
<1>8. /\ DOMAIN sessions' = DOMAIN sessions
      /\ sessions'.keys = [sessions.keys EXCEPT ![id] = k]
      /\ sessions'.exists = sessions.exists /\ sessions'.seq = sessions.seq
      /\ sessions'.hasKey = sessions.hasKey /\ sessions'.hasOutput = sessions.hasOutput
      /\ sessions'.notNull = sessions.notNull
  BY <1>6, <1>7 DEF NoTable
<1>9. /\ DOMAIN sessions'.keys = DOMAIN sessions.keys
      /\ sessions'.keys[id] = k
      /\ \A row \in DOMAIN sessions.keys : row # id => sessions'.keys[row] = sessions.keys[row]
  BY <1>3, <1>8
<1>10. \A row \in DOMAIN sessions.keys : row # id => sessions.keys[row] # k
  <2> SUFFICES ASSUME NEW row \in DOMAIN sessions.keys, row # id, sessions.keys[row] = k
               PROVE  FALSE
    OBVIOUS
  <2>1. k \in existing
    BY <1>4, <1>6 DEF KeysOf
  <2>2. k = Suffixed(id)
    BY <1>5, <2>1
  <2>3. OwnKey(row, k)
    BY DEF Inv, Keyed
  <2> QED BY <1>3, <2>2, <2>3, Keys DEF OwnKey
<1>11. /\ todo' = {row \in DOMAIN sessions'.keys : sessions'.keys[row] = Null}
       /\ existing' = KeysOf(sessions') \ {Null}
  <2>1. todo' = {row \in DOMAIN sessions'.keys : sessions'.keys[row] = Null}
    BY <1>1, <1>4, <1>6, <1>9
  <2>2. KeysOf(sessions') \ {Null} = (KeysOf(sessions) \ {Null}) \cup {k}
    BY <1>3, <1>4, <1>9 DEF KeysOf
  <2> QED BY <1>1, <1>6, <2>1, <2>2 DEF k
<1>12. TypeOK'
  <2>1. KeysOf(sessions') \subseteq WorkKeys
    BY <1>4, <1>9 DEF Inv, TypeOK, IsTable, KeysOf
  <2>2. IsTable(sessions')
    BY <1>6, <1>8, <1>9, <2>1 DEF Inv, TypeOK, IsTable
  <2> QED BY <1>1, <1>2, <1>4, <1>6, <1>8, <2>2 DEF Inv, TypeOK, IsTable, KeysOf, k
<1>13. Statements'
  BY <1>2, <1>8, <1>11 DEF Inv, Statements
<1>14. Keyed'
  BY <1>3, <1>4, <1>9, <1>10 DEF Inv, Keyed, OwnKey
<1>15. Rows'
  BY <1>2, <1>3, <1>6, <1>8, <1>9 DEF Inv, Rows, Torn, Copied
<1>16. Held'
  BY <1>2 DEF Inv, Held, OwnRowOrNone
<1> QED BY <1>12, <1>13, <1>14, <1>15, <1>16 DEF Inv

LEMMA InvCheckNotNull == Inv /\ CheckNotNull => Inv'
<1> SUFFICES ASSUME Inv, CheckNotNull PROVE Inv'
  OBVIOUS
<1> USE DEF CheckNotNull, NeedsRebuild, running, locals
<1>1. Keyed' /\ Rows'
  BY RowsStay DEF SameRows
<1>2. NoRowNull
  BY DEF Inv, Statements, NoRowNull
<1>3. TypeOK' /\ Statements' /\ Held'
  BY <1>2 DEF Inv, TypeOK, IsTable, KeysOf, Statements, NoRowNull, Held, OwnRowOrNone
<1> QED BY <1>1, <1>3 DEF Inv

LEMMA InvCreateNew == Inv /\ CreateNew => Inv'
<1> SUFFICES ASSUME Inv, CreateNew PROVE Inv'
  OBVIOUS
<1> USE DEF CreateNew, running, locals
<1>1. sessions.notNull /\ NoRowNull /\ ~Torn /\ ~Torn' /\ sessions.exists
  BY DEF Inv, Statements, Torn, TypeOK
<1>2. /\ IsTable(sessions_new') /\ ~sessions_new'.notNull
      /\ next' \in {"copy", "failed"} /\ (next' = "failed" => sessions_new'.exists)
  BY Fields DEF Inv, TypeOK, Rows, IsTable, KeysOf
<1>3. TypeOK' /\ Statements' /\ Held'
  BY <1>1, <1>2 DEF Inv, TypeOK, IsTable, KeysOf, Statements, NoRowNull, Held, OwnRowOrNone
<1>4. Keyed' /\ Rows'
  BY <1>1, <1>2 DEF Inv, Keyed, Rows, NoRowNull
<1> QED BY <1>3, <1>4 DEF Inv

LEMMA InvCopy == Inv /\ Copy => Inv'
<1> SUFFICES ASSUME Inv, Copy PROVE Inv'
  OBVIOUS
<1> USE DEF Copy, running, locals
<1>1. sessions.notNull /\ NoRowNull /\ ~Torn /\ ~Torn' /\ sessions.exists
  BY DEF Inv, Statements, Torn, TypeOK
<1>2. /\ DOMAIN sessions.keys = Ids
      /\ \A id \in Ids : sessions.keys[id] = KeyByAge(id)
  BY <1>1 DEF Inv, Rows, NoRowNull
<1>3. /\ sessions_new'.exists /\ sessions_new'.hasKey /\ ~sessions_new'.notNull
      /\ sessions_new'.hasOutput = FALSE /\ sessions_new'.hasKey = TRUE
      /\ sessions_new'.exists = TRUE /\ sessions_new'.notNull = FALSE
      /\ sessions_new'.keys = sessions.keys /\ sessions_new'.seq = Highest(Ids)
      /\ DOMAIN sessions_new' = DOMAIN NoTable
  BY <1>2 DEF CopyOf, Rebuilt, Fresh, NoTable
<1>4. Copied'
  BY <1>2, <1>3, HighestId DEF Copied
<1>5. IsTable(sessions_new')
  <2>1. KeysOf(sessions_new') \subseteq WorkKeys
    BY <1>3 DEF Inv, TypeOK, IsTable, KeysOf
  <2> QED BY <1>2, <1>3, <2>1, HighestId DEF IsTable
<1>6. TypeOK' /\ Statements' /\ Held'
  BY <1>1, <1>4, <1>5 DEF Inv, TypeOK, IsTable, KeysOf, Statements, NoRowNull, Held, OwnRowOrNone
<1>7. Keyed' /\ Rows'
  BY <1>1, <1>3 DEF Inv, Keyed, Rows, NoRowNull
<1> QED BY <1>6, <1>7 DEF Inv

LEMMA InvDrop == Inv /\ Drop => Inv'
<1> SUFFICES ASSUME Inv, Drop PROVE Inv'
  OBVIOUS
<1> USE DEF Drop, running, locals
<1>1. Copied /\ sessions.notNull /\ reserved = {} /\ ~wiped /\ held = {}
  BY DEF Inv, Statements, Rows, Held
<1>2. Copied'
  BY <1>1 DEF Copied
<1>3. TypeOK'
  BY Fields DEF Inv, TypeOK, IsTable, KeysOf
<1>4. Statements' /\ Held'
  BY <1>1, Fields DEF Inv, Statements, Held, OwnRowOrNone
<1>5. Keyed' /\ Rows'
  BY <1>1, <1>2, Fields DEF Inv, Keyed, Rows, NoRowNull, Torn
<1> QED BY <1>3, <1>4, <1>5 DEF Inv

LEMMA InvRename == Inv /\ Rename => Inv'
<1> SUFFICES ASSUME Inv, Rename PROVE Inv'
  OBVIOUS
<1> USE DEF Rename, running, locals
<1>1. /\ sessions_new.exists /\ sessions_new.hasKey /\ ~sessions_new.notNull
      /\ DOMAIN sessions_new.keys = Ids /\ Ids \subseteq 1 .. sessions_new.seq
      /\ \A id \in Ids : sessions_new.keys[id] = KeyByAge(id)
      /\ reserved = {} /\ ~wiped /\ held = {}
  BY DEF Inv, Statements, Rows, Held, Copied
<1>2. sessions' = sessions_new /\ sessions_new' = NoTable
  OBVIOUS
<1>3. \A id \in Ids : KeyByAge(id) # Null
  BY Keys, KeysByAgeDiffer
<1>4. NoRowNull'
  BY <1>1, <1>2, <1>3 DEF NoRowNull
<1>5. TypeOK'
  BY <1>1, <1>2, Fields DEF Inv, TypeOK, IsTable, KeysOf
<1>6. Statements' /\ Held'
  BY <1>1, <1>4 DEF Inv, Statements, Held, OwnRowOrNone
<1>7. Keyed'
  <2>1. DOMAIN sessions'.keys = Ids /\ \A id \in Ids : sessions'.keys[id] = KeyByAge(id)
    BY <1>1, <1>2
  <2>2. \A id \in Ids : OwnKey(id, KeyByAge(id))
    BY KeysByAgeDiffer DEF OwnKey
  <2>3. \A id \in DOMAIN sessions'.keys : OwnKey(id, sessions'.keys[id])
    BY <2>1, <2>2
  <2>4. \A a, b \in Ids : sessions'.keys[a] = sessions'.keys[b] => a = b
    BY <2>1, KeysByAgeDiffer
  <2> QED BY <2>1, <2>3, <2>4 DEF Keyed, OwnKey
<1>8. Rows'
  BY <1>1, <1>2, <1>4, Fields DEF Rows, Torn
<1> QED BY <1>5, <1>6, <1>7, <1>8 DEF Inv

LEMMA InvCreateIndex == Inv /\ CreateIndex => Inv'
<1> SUFFICES ASSUME Inv, CreateIndex PROVE Inv'
  OBVIOUS
<1> USE DEF CreateIndex, running, locals
<1>1. Keyed' /\ Rows'
  BY RowsStay DEF SameRows
<1>2. NoRowNull /\ sessions.exists
  BY DEF Inv, TypeOK, Rows
<1>3. UniqueKeys(sessions)
  BY <1>2 DEF Inv, Keyed, UniqueKeys, NoRowNull
<1>4. indexed' = TRUE /\ next' = "add_output"
  BY <1>3
<1>5. TypeOK' /\ Statements' /\ Held'
  BY <1>2, <1>4 DEF Inv, TypeOK, IsTable, KeysOf, Statements, Held, OwnRowOrNone
<1> QED BY <1>1, <1>5 DEF Inv

(***************************************************************************)
(* The running application.                                                *)
(***************************************************************************)

\* Once the rebuilt table serves, an issue with an old row has its key taken.
LEMMA IssueIsTaken ==
    ASSUME Inv, next = "ready", ~Torn, ~wiped, NEW id \in Ids, Issue[id] \in Issues
    PROVE  make_work_key(Issue[id]) \in KeysOf(sessions)
<1>1. sessions.exists /\ NoRowNull
  BY DEF Inv, TypeOK, Rows
<1>2. /\ Ids \subseteq DOMAIN sessions.keys
      /\ \A row \in Ids : sessions.keys[row] = KeyByAge(row)
  BY <1>1 DEF Inv, Rows, NoRowNull
<1>3. PICK o \in Ids : KeyByAge(o) = Canonical(id)
  BY OldestHasTheKey
<1>4. sessions.keys[o] = make_work_key(Issue[id])
  BY <1>2, <1>3, KeyOfAnIssue
<1> QED BY <1>2, <1>4 DEF KeysOf

LEMMA InvReserve == ASSUME NEW i \in Issues, Inv, Reserve(i) PROVE Inv'
<1> DEFINE new == sessions.seq + 1
           k == make_work_key(i)
<1>1. /\ next = "ready" /\ new <= MaxId /\ k \notin KeysOf(sessions)
      /\ sessions' = [sessions EXCEPT !.seq = new, !.keys =
            [id \in DOMAIN sessions.keys \cup {new} |->
                IF id = new THEN k ELSE sessions.keys[id]]]
      /\ held' = held \cup {[id |-> new, key |-> k]}
      /\ reserved' = reserved \cup {i}
      /\ UNCHANGED <<sessions_new, indexed, next, todo, existing, wiped>>
  BY DEF Reserve, NextId, locals
<1>2. /\ DOMAIN sessions = DOMAIN NoTable /\ sessions.exists /\ ~sessions.notNull
      /\ sessions.seq \in 0 .. MaxId /\ DOMAIN sessions.keys \subseteq 1 .. sessions.seq
      /\ new \in 1 .. MaxId /\ new \notin 1 .. sessions.seq /\ MaxId \in Nat
  BY <1>1, MigrationAssumption DEF Inv, TypeOK, IsTable
<1>3. /\ DOMAIN sessions' = DOMAIN sessions
      /\ sessions'.keys = [id \in DOMAIN sessions.keys \cup {new} |->
                              IF id = new THEN k ELSE sessions.keys[id]]
      /\ sessions'.exists = sessions.exists /\ sessions'.seq = new
      /\ sessions'.hasKey = sessions.hasKey /\ sessions'.hasOutput = sessions.hasOutput
      /\ sessions'.notNull = sessions.notNull
  BY <1>1, <1>2 DEF NoTable
<1>4. k # Null /\ k \in WorkKeys
  BY Keys, KeyIsTyped
<1> HIDE DEF k, new
<1>5. /\ DOMAIN sessions'.keys = DOMAIN sessions.keys \cup {new}
      /\ sessions'.keys[new] = k /\ new \notin DOMAIN sessions.keys
      /\ \A id \in DOMAIN sessions.keys : sessions'.keys[id] = sessions.keys[id]
  BY <1>2, <1>3
<1>6. \A id \in DOMAIN sessions.keys : sessions.keys[id] # k
  BY <1>1 DEF KeysOf
<1>7. 1 .. sessions.seq \subseteq 1 .. sessions'.seq /\ new \in 1 .. sessions'.seq
  BY <1>2, <1>3 DEF new
<1>8. TypeOK'
  <2>1. KeysOf(sessions') \subseteq WorkKeys
    BY <1>4, <1>5 DEF Inv, TypeOK, IsTable, KeysOf
  <2>2. IsTable(sessions')
    BY <1>2, <1>3, <1>5, <1>7, <2>1 DEF Inv, TypeOK, IsTable
  <2>3. held' \subseteq [id : 1 .. MaxId, key : WorkKeys]
    BY <1>1, <1>2, <1>4 DEF Inv, TypeOK
  <2>4. IsTable(sessions_new') /\ sessions'.hasKey /\ sessions'.hasOutput
    BY <1>1, <1>3 DEF Inv, TypeOK, IsTable, KeysOf
  <2> QED BY <1>1, <1>2, <1>3, <2>2, <2>3, <2>4 DEF Inv, TypeOK
<1>9. Statements'
  BY <1>1 DEF Inv, Statements
<1>10. Keyed'
  BY <1>5, <1>6 DEF Inv, Keyed, OwnKey, k
<1>11. Rows'
  <2>1. NoRowNull'
    BY <1>2, <1>4, <1>5 DEF Inv, Rows, NoRowNull
  <2>2. Torn' = Torn /\ (Copied => Copied')
    BY <1>1, <1>2, <1>3 DEF Torn, Copied
  <2>3. ASSUME ~Torn, ~wiped, NEW id \in Ids PROVE Issue[id] \notin reserved'
    BY <1>1, <1>2, <2>3, IssueIsTaken, Keys DEF Inv, Rows, k
  <2>4. ASSUME ~Torn, NEW id \in Ids PROVE id \in 1 .. sessions'.seq /\ id # new
    BY <1>2, <1>7, <2>4 DEF Inv, Rows
  <2> QED BY <1>1, <1>2, <1>3, <1>5, <2>1, <2>2, <2>3, <2>4 DEF Inv, Rows
<1>12. Held'
  BY <1>1, <1>2, <1>5, <1>7 DEF Inv, Held, OwnRowOrNone
<1> QED BY <1>8, <1>9, <1>10, <1>11, <1>12 DEF Inv

LEMMA InvIds ==
    ASSUME Inv, (\E id \in 1 .. MaxId : CopyRow(id)) \/ (\E h \in held : Update(h))
    PROVE  Inv'
<1> USE DEF CopyRow, Update, locals
<1>1. /\ next = "ready"
      /\ UNCHANGED <<sessions, sessions_new, indexed, next, todo, existing, reserved, wiped>>
  OBVIOUS
<1>2. \A h \in held' : \/ h \in held
                       \/ \E id \in 1 .. MaxId : /\ id \in DOMAIN sessions.keys
                                                 /\ h = [id |-> id, key |-> sessions.keys[id]]
  OBVIOUS
<1>3. held' \subseteq [id : 1 .. MaxId, key : WorkKeys]
  BY <1>2 DEF Inv, TypeOK, IsTable, KeysOf
<1>4. TypeOK' /\ Statements'
  BY <1>1, <1>3 DEF Inv, TypeOK, IsTable, KeysOf, Statements, Copied, NoRowNull
<1>5. Keyed' /\ Rows'
  BY <1>1 DEF Inv, Keyed, Rows, Copied, Torn, NoRowNull
<1>6. Held'
  BY <1>1, <1>2 DEF Inv, TypeOK, IsTable, Held, OwnRowOrNone
<1> QED BY <1>4, <1>5, <1>6 DEF Inv

LEMMA InvResetAll == Inv /\ ResetAll => Inv'
<1> SUFFICES ASSUME Inv, ResetAll PROVE Inv'
  OBVIOUS
<1> USE DEF ResetAll, locals
<1>1. DOMAIN sessions = DOMAIN NoTable /\ sessions.exists /\ ~sessions.notNull
  BY DEF Inv, TypeOK, IsTable
<1>2. /\ DOMAIN sessions' = DOMAIN sessions
      /\ sessions'.keys = <<>> /\ DOMAIN sessions'.keys = {}
      /\ sessions'.exists = sessions.exists /\ sessions'.seq = sessions.seq
      /\ sessions'.hasKey = sessions.hasKey /\ sessions'.hasOutput = sessions.hasOutput
      /\ sessions'.notNull = sessions.notNull
  <2>1. DOMAIN NoTable.keys = {} /\ NoTable.keys = <<>>
    BY Fields DEF NoTable
  <2>2. sessions' = [sessions EXCEPT !.keys = <<>>]
    OBVIOUS
  <2> QED BY <1>1, <2>1, <2>2 DEF NoTable
<1>3. IsTable(sessions')
  BY <1>1, <1>2 DEF Inv, TypeOK, IsTable, KeysOf
<1>4. TypeOK'
  BY <1>1, <1>2, <1>3 DEF Inv, TypeOK, IsTable, KeysOf
<1>5. Statements' /\ Held'
  BY <1>2 DEF Inv, Statements, Held, OwnRowOrNone
<1>6. Keyed'
  BY <1>2 DEF Keyed
<1>7. Rows'
  BY <1>1, <1>2 DEF Inv, Rows, Torn, Copied, NoRowNull
<1> QED BY <1>4, <1>5, <1>6, <1>7 DEF Inv

LEMMA InvReboot == Inv /\ Reboot => Inv'
<1> SUFFICES ASSUME Inv, Reboot PROVE Inv'
  OBVIOUS
<1> USE DEF Reboot
<1>1. TypeOK' /\ Statements' /\ Held'
  BY DEF Inv, TypeOK, IsTable, KeysOf, Statements, Held, OwnRowOrNone
<1>2. Keyed' /\ Rows'
  BY DEF Inv, Keyed, Rows, Copied, Torn, NoRowNull
<1> QED BY <1>1, <1>2 DEF Inv

LEMMA InvNext == Inv /\ [Next]_vars => Inv'
<1> SUFFICES ASSUME Inv, [Next]_vars PROVE Inv'
  OBVIOUS
<1>1. CASE UNCHANGED vars
  BY <1>1 DEF vars, locals, running, Inv, TypeOK, IsTable, KeysOf, Statements, Keyed,
              Rows, Copied, Torn, NoRowNull, Held, OwnRowOrNone
<1> QED BY <1>1, InvCreateTables, InvAddColumn, InvSelect, InvBackfill, InvCheckNotNull,
           InvCreateNew, InvCopy, InvDrop, InvRename, InvCreateIndex, InvReserve, InvIds,
           InvResetAll, InvReboot DEF Next

LEMMA Invariance == Spec => []Inv
BY InvInit, InvNext, PTL DEF Spec

(***************************************************************************)
(* What follows.                                                           *)
(***************************************************************************)

\* Every statement of init_db finds the table and the columns it needs,
\* after whatever crash, and the application only serves on a whole schema.
THEOREM TypeCorrect == Spec => []TypeOK
<1>1. Inv => TypeOK
  BY DEF Inv
<1> QED BY <1>1, Invariance, PTL

\* A handler or the poller that holds an id over a reset never writes to
\* another row.
THEOREM IdsAreNotReused == Spec => []OwnRowOrNone
<1>1. Inv => OwnRowOrNone
  BY DEF Inv, Held
<1> QED BY <1>1, Invariance, PTL

\* No crash at any statement of the migrations destroys a row.
THEOREM RowsSurvive == Spec => []NothingDestroyed
<1>1. Inv => NothingDestroyed
  BY DEF Inv, Rows, Copied, NothingDestroyed
<1> QED BY <1>1, Invariance, PTL

\* An interrupted backfill ends with the keys an uninterrupted one gives.
THEOREM BackfillIsRerunnable == Spec => []BackfillResumes
<1>1. Inv => BackfillResumes
  <2> SUFFICES ASSUME Inv, ~Torn, NEW id \in Ids \cap DOMAIN sessions.keys
               PROVE  sessions.keys[id] \in {Null, KeyByAge(id)}
    BY DEF BackfillResumes
  <2>1. sessions.exists
    BY Fields DEF Inv, TypeOK, IsTable
  <2> QED BY <2>1 DEF Inv, Rows
<1> QED BY <1>1, Invariance, PTL

\* Only a crash between DROP and RENAME, or one that leaves sessions_new
\* behind, can make a boot fail, hide a row or have an issue worked on twice.
THEOREM BootsAreSafe == Spec => []IntactUnlessTorn
<1>1. Inv => IntactUnlessTorn
  BY DEF Inv, Rows, Statements, Torn, IntactUnlessTorn
<1> QED BY <1>1, Invariance, PTL
=============================================================================
