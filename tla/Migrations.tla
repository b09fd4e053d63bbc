----------------------------- MODULE Migrations -----------------------------
(***************************************************************************)
(* Opening the database when the server starts: database/database.go and   *)
(* the start in cmd/server/main.go.  The highest version recorded tells    *)
(* which migrations are left; each runs, and is recorded, in a transaction *)
(* of its own.  SQLite and PostgreSQL run changes of the schema inside the *)
(* transaction, MySQL commits at each of them.                             *)
(*                                                                         *)
(* Up to version 7 money was stored as decimals.  Version 8 adds a column  *)
(* of cents beside each of them, fills it and leaves the old one alone.    *)
(* A table stands for its kind of column; amounts of old columns are in    *)
(* thousandths.                                                            *)
(***************************************************************************)
EXTENDS Integers

CONSTANTS Releases,        \* versions at which a database may be found
          RowIds,          \* rows of each table
          OldAmounts,      \* amounts of earlier releases, in thousandths
          Null,
          MaxOpenings, MaxFailures, MaxWrites      \* bounds

ASSUME MigrationAssumption ==
  /\ Releases \subseteq Nat /\ RowIds \subseteq Nat
  /\ OldAmounts \subseteq Int /\ Null \notin Int
  /\ {MaxOpenings, MaxFailures, MaxWrites} \subseteq Nat

VARIABLES
  engine,     \* the database driver
  saved,      \* the database: version recorded, columns and rows
  working,    \* what the open transaction sees
  held,       \* whether the transaction still holds its changes back
  phase,      \* where the start is
  version,    \* the migration being applied
  toAlter, toFill,    \* tables it has yet to alter, columns it has yet to fill
  refusal,    \* why the last start failed
  amounts,    \* what each amount is worth (history)
  openings, failures, writeCount

openVars == <<engine, saved, working, held, phase, version, toAlter, toFill,
              refusal, amounts, openings, failures, writeCount>>

Latest == 11      \* currentSchemaVersion

MoneyTables == {"accounts", "transactions", "reminders"}
LedgerTables == MoneyTables \cup {"ai_reports"}

\* How the models declare the new column: with a default, as nullable, or
\* NOT NULL without a default.
Nullable == {"reminders"}
Undefaulted == {"transactions"}
DefaultOf(t) == IF t \in Nullable THEN Null ELSE 0

\* The tables a migration gives the columns of today's models.
Altered(v) ==
  CASE v = 1 -> LedgerTables
    [] v = 4 -> {"transactions"}
    [] v \in {8, 9} -> MoneyTables
    [] v = 11 -> {"ai_reports"}
    [] OTHER -> {}

\* roundedMinorUnitExpression: to cents, half away from zero.
Cents(m) == IF m >= 0 THEN (m + 5) \div 10 ELSE -((5 - m) \div 10)

Cells == [old : OldAmounts \cup {Null}, new : Int \cup {Null}]
Table(columns, rows) == [columns |-> columns, rows |-> rows]
NoRows == [r \in {} |-> 0]
Made(table) == table.columns # {}
RowsIn(t) == DOMAIN working.tables[t].rows

MigrationTypeOK ==
  /\ engine \in {"sqlite", "mysql"} /\ held \in BOOLEAN
  /\ \A db \in {saved, working} :
       /\ db.recorded \in Releases \cup (0..Latest)
       /\ \A t \in LedgerTables :
            /\ db.tables[t].columns \subseteq {"old", "new"}
            /\ DOMAIN db.tables[t].rows \subseteq RowIds
            /\ \A r \in DOMAIN db.tables[t].rows : db.tables[t].rows[r] \in Cells
  /\ phase \in {"down", "between", "alter", "fill", "serving"}
  /\ version \in 0..Latest
  /\ toAlter \subseteq LedgerTables /\ toFill \subseteq MoneyTables
  /\ refusal \in {"none", "newer", "failure", "schema"}
  /\ <<openings, failures, writeCount>>
       \in (0..MaxOpenings) \X (0..MaxFailures) \X (0..MaxWrites)

-----------------------------------------------------------------------------
\* The version since which a table has its new column.
Since(t) == IF t \in MoneyTables THEN 8 ELSE 11

\* What a row of an earlier release is worth once it is carried over.
Worth(t, old) ==
  IF t \in MoneyTables /\ old # Null THEN Cents(old) ELSE DefaultOf(t)

\* Of the tables an earlier release left at version n, those in "filled" have
\* a row.
LeftBehind(n, filled, old) ==
  [t \in LedgerTables |->
     Table({"old"} \cup {c \in {"new"} : n >= Since(t)},
           [r \in {r \in RowIds : t \in filled /\ \A q \in RowIds : r <= q} |->
              [old |-> old[t], new |-> IF n >= Since(t) THEN Worth(t, old[t]) ELSE Null]])]

EarlierAmounts ==
  {old \in [LedgerTables -> OldAmounts \cup {Null}] :
     \A t \in LedgerTables :
       /\ t \notin MoneyTables => old[t] = Null
       /\ old[t] = Null => t \notin MoneyTables \ Nullable}

\* No table yet, the tables of an earlier release, or those of a later one.
MigrationInit ==
  /\ engine \in {"sqlite", "mysql"}
  /\ \/ saved = [recorded |-> 0, tables |-> [t \in LedgerTables |-> Table({}, NoRows)]]
     \/ \E n \in Releases, filled \in SUBSET LedgerTables, old \in EarlierAmounts :
          saved = [recorded |-> n, tables |-> LeftBehind(n, filled, old)]
  /\ amounts = [t \in LedgerTables |->
                  [r \in DOMAIN saved.tables[t].rows |->
                     Worth(t, saved.tables[t].rows[r].old)]]
  /\ working = saved /\ held = FALSE
  /\ phase = "down" /\ version = 0 /\ refusal = "none"
  /\ toAlter = {} /\ toFill = {}
  /\ openings = 0 /\ failures = 0 /\ writeCount = 0

-----------------------------------------------------------------------------
Counts == <<openings, failures, writeCount>>

\* guardSchemaVersion, and the version the migrations start from.
OpenDatabase ==
  /\ phase = "down" /\ openings < MaxOpenings
  /\ openings' = openings + 1
  /\ IF saved.recorded > Latest
     THEN phase' = "down" /\ refusal' = "newer" /\ UNCHANGED version
     ELSE phase' = "between" /\ refusal' = "none" /\ version' = saved.recorded
  /\ UNCHANGED <<engine, saved, working, held, toAlter, toFill, amounts,
                 failures, writeCount>>

\* Mutant: the version is recorded before the migration is applied.
BegunRecorded == [saved EXCEPT !.recorded = version + 1]
Begun == saved

\* The next migration opens its transaction.
BeginMigration ==
  /\ phase = "between" /\ version < Latest
  /\ version' = version + 1
  /\ phase' = "alter" /\ toAlter' = Altered(version + 1)
  /\ working' = Begun /\ held' = TRUE
  /\ UNCHANGED <<engine, saved, toFill, refusal, amounts, Counts>>

\* A statement: it stays in the transaction, or it is there at once.
Executed(db, holds) ==
  /\ working' = db /\ held' = holds
  /\ saved' = IF holds THEN saved ELSE db

WithNewColumn(t) ==
  Table(working.tables[t].columns \cup {"new"},
        [r \in RowsIn(t) |-> [working.tables[t].rows[r] EXCEPT !.new = DefaultOf(t)]])

\* What a database says of ALTER TABLE ... ADD ... NOT NULL without a default:
\* SQLite and PostgreSQL refuse it when there are rows, MySQL puts zeros.
Addable(t) == t \in Undefaulted /\ Made(working.tables[t]) /\ RowsIn(t) # {}
                => engine = "mysql"

\* AutoMigrate, or AddColumn when the column is not there.
AlterTable(t) ==
  /\ phase = "alter" /\ t \in toAlter
  /\ toAlter' = toAlter \ {t}
  /\ IF "new" \in working.tables[t].columns
     THEN UNCHANGED <<saved, working, held>>
     ELSE /\ Addable(t)
          /\ Executed([working EXCEPT !.tables[t] = WithNewColumn(t)],
                      held /\ engine # "mysql")
  /\ UNCHANGED <<engine, phase, version, toFill, refusal, amounts, Counts>>

\* The transaction is rolled back and the process exits.
StartFails(why) ==
  /\ phase' = "down" /\ refusal' = why
  /\ working' = saved /\ held' = FALSE
  /\ toAlter' = {} /\ toFill' = {}
  /\ UNCHANGED <<engine, saved, version, amounts, openings, writeCount>>

RefuseColumn(t) ==
  /\ phase = "alter" /\ t \in toAlter
  /\ "new" \notin working.tables[t].columns /\ ~Addable(t)
  /\ StartFails("schema")
  /\ UNCHANGED failures

\* migrateMoneyColumnsToMinorUnits goes on to the columns it finds.
EndAlter ==
  /\ phase = "alter" /\ toAlter = {}
  /\ phase' = "fill"
  /\ toFill' = {t \in MoneyTables : version = 8 /\ "old" \in working.tables[t].columns}
  /\ UNCHANGED <<engine, saved, working, held, version, toAlter, refusal,
                 amounts, Counts>>

Filled(rows) ==
  [r \in DOMAIN rows |->
     IF rows[r].old = Null THEN rows[r] ELSE [rows[r] EXCEPT !.new = Cents(rows[r].old)]]

FillColumn(t) ==
  /\ phase = "fill" /\ t \in toFill
  /\ toFill' = toFill \ {t}
  /\ Executed([working EXCEPT !.tables[t].rows = Filled(working.tables[t].rows)], held)
  /\ UNCHANGED <<engine, phase, version, toAlter, refusal, amounts, Counts>>

\* recordSchemaMigration and the commit.
RecordMigration ==
  /\ phase = "fill" /\ toFill = {}
  /\ phase' = "between"
  /\ Executed([working EXCEPT !.recorded = version], FALSE)
  /\ UNCHANGED <<engine, version, toAlter, toFill, refusal, amounts, Counts>>

\* The rest of the start does not touch the tables here.
Serve ==
  /\ phase = "between" /\ version = Latest
  /\ phase' = "serving"
  /\ UNCHANGED <<engine, saved, working, held, version, toAlter, toFill,
                 refusal, amounts, Counts>>

\* An error of a statement or of a later part of the start, or a crash.
FailStart ==
  /\ phase # "down" /\ failures < MaxFailures
  /\ failures' = failures + 1
  /\ StartFails("failure")

StopServing ==
  /\ phase = "serving"
  /\ phase' = "down"
  /\ UNCHANGED <<engine, saved, working, held, version, toAlter, toFill,
                 refusal, amounts, Counts>>

\* Requests write the new columns only.
WriteAmount(t, r, c) ==
  /\ phase = "serving" /\ writeCount < MaxWrites
  /\ writeCount' = writeCount + 1
  /\ LET rows == saved.tables[t].rows
         old  == IF r \in DOMAIN rows THEN rows[r].old ELSE Null
         with == [q \in DOMAIN rows \cup {r} |->
                    IF q = r THEN [old |-> old, new |-> c] ELSE rows[q]]
     IN  saved' = [saved EXCEPT !.tables[t].rows = with]
  /\ working' = saved'
  /\ amounts' = [amounts EXCEPT ![t] =
                   [q \in DOMAIN amounts[t] \cup {r} |-> IF q = r THEN c ELSE amounts[t][q]]]
  /\ UNCHANGED <<engine, held, phase, version, toAlter, toFill, refusal,
                 openings, failures>>

MigrationNext ==
  \/ OpenDatabase \/ BeginMigration \/ EndAlter \/ RecordMigration
  \/ Serve \/ StopServing \/ FailStart
  \/ \E t \in LedgerTables : AlterTable(t) \/ RefuseColumn(t) \/ FillColumn(t)
  \/ \E t \in MoneyTables, r \in RowIds, m \in OldAmounts : WriteAmount(t, r, Cents(m))

MigrationSpec == MigrationInit /\ [][MigrationNext]_openVars

-----------------------------------------------------------------------------
(* Whatever release the database comes from, however often the upgrade was  *)
(* cut short, and on a database that commits half of a migration: a server  *)
(* that serves shows every amount as it was, or as it was last written.     *)
AmountsAreCarriedOver ==
  phase = "serving" =>
    /\ saved.recorded = Latest
    /\ \A t \in LedgerTables :
         /\ "new" \in saved.tables[t].columns
         /\ amounts[t] = [r \in DOMAIN saved.tables[t].rows |-> saved.tables[t].rows[r].new]

(* docs/architecture/money-precision.md:5: version 8 adds the columns of    *)
(* cents and fills them, on SQLite, PostgreSQL and MySQL: no database of an *)
(* earlier release is refused.                                              *)
UpgradesSucceed == refusal # "schema"
=============================================================================
