----------------------------- MODULE Migrations -----------------------------
(***************************************************************************)
(* How paypunkd brings its database up to date before it serves anything.  *)
(* What a migration does and the row that says it was done are statements  *)
(* of their own, each committed by itself, and the process can end between *)
(* any two of them; a migration that was not recorded is done again.       *)
(*                                                                         *)
(* A process opens the database alone, unless Together.  Left out: errors  *)
(* of the disk, and what other tables contain.                             *)
(***************************************************************************)
EXTENDS Naturals

CONSTANTS Procs,      \* paypunkd processes, one after the other
          Together,   \* TRUE if several may have the database open
          MaxStops,   \* bound: processes that end
          MaxRows     \* bound: accounts

ASSUME MigrationsAssumption == /\ Together \in BOOLEAN
                               /\ {MaxStops, MaxRows} \subseteq Nat

VARIABLES accounts,   \* form of the accounts table
          tables,     \* the other tables, each by the version that creates it
          recorded,   \* rows of _migrations
          rows,       \* accounts in the table
          pc,         \* where each process is
          stops,      \* processes that ended
          torn        \* history: one ended right after version 7 was done

db == <<accounts, tables, recorded, rows>>
mvars == <<db, pc, stops, torn>>

Versions == 1..7
Plain == 3..6    \* CREATE TABLE IF NOT EXISTS, and no more
Forms == {"none", "names", "keys", "birthday"}
Steps == {"off", "check", "up", "create", "record", "open", "failed"}
Off == [at |-> 1, step |-> "off"]

\* The form that a database of version k has, and its other tables.
FormAt(k) == IF k = 0 THEN "none" ELSE IF k = 1 THEN "names"
             ELSE IF k < 7 THEN "keys" ELSE "birthday"

\* No database yet, or one that an earlier release left.
MInit == /\ \E k \in 0..7 :
               /\ accounts = FormAt(k)
               /\ tables = {v \in Plain : v <= k}
               /\ recorded = 1..k
               /\ rows \in IF k < 2 THEN {0} ELSE 0..MaxRows
         /\ pc = [p \in Procs |-> Off]
         /\ stops = 0
         /\ torn = FALSE

-----------------------------------------------------------------------------
(* Database::open and Migrator::migrate                                    *)

Go(p, step) == pc' = [pc EXCEPT ![p].step = step]

\* Mutant: one version too many.
AdvanceLate(p) ==
    pc' = [pc EXCEPT ![p] = IF @.at = 8 THEN [at |-> 7, step |-> "open"]
                            ELSE [at |-> @.at + 1, step |-> "check"]]

\* The next version in order, or the database is open.
Advance(p) ==
    pc' = [pc EXCEPT ![p] = IF @.at = 7 THEN [at |-> 7, step |-> "open"]
                            ELSE [at |-> @.at + 1, step |-> "check"]]

Start(p) ==
    /\ pc[p].step = "off"
    /\ Together \/ \A q \in Procs : pc[q].step = "off"
    /\ pc' = [pc EXCEPT ![p] = [at |-> 1, step |-> "check"]]
    /\ UNCHANGED <<db, stops, torn>>

\* already_applied
Check(p) ==
    /\ pc[p].step = "check"
    /\ IF pc[p].at \in recorded THEN Advance(p) ELSE Go(p, "up")
    /\ UNCHANGED <<db, stops, torn>>

\* Mutant: CREATE TABLE without IF NOT EXISTS.
CanRunStrict(v) == /\ v = 7 => accounts = "keys"
                   /\ v \notin tables

\* ALTER TABLE needs a table without the column; the others always run.
CanRun(v) == v = 7 => accounts \in {"names", "keys"}

\* Mutant: version 7 makes the table anew.
UpRecreates(p) ==
    /\ pc[p].step = "up"
    /\ LET v == pc[p].at IN
       IF CanRun(v)
       THEN /\ accounts' = CASE v = 1 -> IF accounts = "none" THEN "names"
                                         ELSE accounts
                             [] v = 2 -> "none"
                             [] v = 7 -> "birthday"
                             [] OTHER -> accounts
            /\ rows' = IF v \in {2, 7} THEN 0 ELSE rows
            /\ tables' = IF v \in Plain THEN tables \cup {v} ELSE tables
            /\ Go(p, IF v = 2 THEN "create" ELSE "record")
       ELSE Go(p, "failed") /\ UNCHANGED <<accounts, tables, rows>>
    /\ UNCHANGED <<recorded, stops, torn>>

\* Version 1 creates a table of names if there is none, version 2 drops
\* whatever is there, 3 to 6 create their tables, 7 adds a column.
Up(p) ==
    /\ pc[p].step = "up"
    /\ LET v == pc[p].at IN
       IF CanRun(v)
       THEN /\ accounts' = CASE v = 1 -> IF accounts = "none" THEN "names"
                                         ELSE accounts
                             [] v = 2 -> "none"
                             [] v = 7 -> "birthday"
                             [] OTHER -> accounts
            /\ rows' = IF v = 2 THEN 0 ELSE rows
            /\ tables' = IF v \in Plain THEN tables \cup {v} ELSE tables
            /\ Go(p, IF v = 2 THEN "create" ELSE "record")
       ELSE Go(p, "failed") /\ UNCHANGED <<accounts, tables, rows>>
    /\ UNCHANGED <<recorded, stops, torn>>

\* The second statement of version 2.
CreateAccounts(p) ==
    /\ pc[p].step = "create"
    /\ accounts' = IF accounts = "none" THEN "keys" ELSE accounts
    /\ Go(p, "record")
    /\ UNCHANGED <<tables, recorded, rows, stops, torn>>

\* Mutant: a database that was migrated once is taken for up to date.
RecordAll(p) ==
    /\ pc[p].step = "record"
    /\ recorded' = Versions
    /\ Advance(p)
    /\ UNCHANGED <<accounts, tables, rows, stops, torn>>

\* The version is the primary key, so a second row is an error.
Record(p) ==
    /\ pc[p].step = "record"
    /\ IF pc[p].at \in recorded THEN Go(p, "failed") ELSE Advance(p)
    /\ recorded' = recorded \cup {pc[p].at}
    /\ UNCHANGED <<accounts, tables, rows, stops, torn>>

\* create_account, once paypunkd serves requests.
SaveAccount(p) ==
    /\ pc[p].step = "open"
    /\ accounts = "birthday" /\ rows < MaxRows
    /\ rows' = rows + 1
    /\ UNCHANGED <<accounts, tables, recorded, pc, stops, torn>>

\* The process ends: stopped, killed, or because open failed.
Stop(p) ==
    /\ pc[p].step # "off"
    /\ stops < MaxStops
    /\ pc' = [pc EXCEPT ![p] = Off]
    /\ stops' = stops + 1
    /\ torn' = (torn \/ pc[p] = [at |-> 7, step |-> "record"])
    /\ UNCHANGED db

Step(p) == Check(p) \/ Up(p) \/ CreateAccounts(p) \/ Record(p)

MNext == \E p \in Procs : \/ Start(p) \/ Step(p) \/ SaveAccount(p) \/ Stop(p)

MSpec == MInit /\ [][MNext]_mvars

-----------------------------------------------------------------------------
(* Properties                                                              *)

\* Every variable stays in its set.
MTypeOK ==
    /\ accounts \in Forms
    /\ tables \subseteq Plain
    /\ recorded \subseteq Versions
    /\ rows \in 0..MaxRows
    /\ pc \in [Procs -> [at : Versions, step : Steps]]
    /\ stops \in 0..MaxStops
    /\ torn \in BOOLEAN

\* A process that serves requests has every table in its newest form, from
\* whatever release the database came and wherever earlier attempts ended.
OpenIsComplete ==
    \A p \in Procs : pc[p].step = "open" =>
        accounts = "birthday" /\ tables = Plain /\ recorded = Versions

\* No start of paypunkd, after however many that ended half way, loses an
\* account: version 2 drops the table, and is never done again once there is
\* an account to lose.
AccountsSurvive == [][rows' >= rows]_mvars

\* Only an end between the ALTER TABLE of version 7 and its row makes an open
\* fail, and then every later one: all other migrations can be done twice.
FailsOnlyTorn == \A p \in Procs : pc[p].step = "failed" => torn
=============================================================================
