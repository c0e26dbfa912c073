---------------------------- MODULE SchemaBootstrap ----------------------------
(***************************************************************************)
(* The schema bootstrap of a connection attempt                            *)
(* (apps/server/src/infrastructure/database/questdb/bootstrap.ts, over the *)
(* canonical columns of packages/shared/src/db-schema.ts), in place of the *)
(* single phase "bootstrap" of QuestDBConnection: CREATE TABLE IF NOT      *)
(* EXISTS, an introspection of the columns there are, and one ALTER TABLE  *)
(* per column found missing.  The table is shared: senders create the      *)
(* columns they write, and a statement of an attempt that was abandoned    *)
(* may still be executed.  QuestDB commits a column some time after it     *)
(* accepted it, and shows it to an introspection only then.                *)
(*                                                                         *)
(* Types of columns, and tables that are dropped, are left out.            *)
(***************************************************************************)
EXTENDS QuestDBConnection

CONSTANT Columns  \* the names in NETWORK_METRICS_COLUMNS

VARIABLES
  tableExists,  \* whether network_metrics exists
  column,       \* each canonical column: "absent", "committing" or "there"
  statement,    \* what bootstrapSchema awaits next: "create", "introspect" or "alter"
  toAdd         \* the columns of toAdd whose ALTER is still to be sent

table == <<tableExists, column>>
bootstrap == <<statement, toAdd>>
bootstrapVars == <<vars, table, bootstrap>>

BootstrapTypeOK ==
  /\ TypeOK
  /\ tableExists \in BOOLEAN
  /\ column \in [Columns -> {"absent", "committing", "there"}]
  /\ statement \in {"create", "introspect", "alter"}
  /\ toAdd \in SUBSET Columns

\* No table yet, the canonical one, or an older one.
BootstrapInit ==
  /\ Init
  /\ tableExists \in BOOLEAN
  /\ column \in [Columns -> {"absent"} \cup (IF tableExists THEN {"there"} ELSE {})]
  /\ statement = "create"
  /\ toAdd = {}

-----------------------------------------------------------------------------
(* The statements of bootstrapSchema.                                      *)

\* The loop awaits this statement, and QuestDB answers it.
Executes(s) ==
  /\ pc[Loop] = "bootstrap"
  /\ db = "up"
  /\ statement = s

\* A table there is stays as it is.
CreateTable ==
  /\ Executes("create")
  /\ tableExists' = TRUE
  /\ column' = IF tableExists THEN column ELSE [c \in Columns |-> "there"]
  /\ statement' = "introspect"
  /\ UNCHANGED <<vars, toAdd>>

\* Mutant: a complete table ends the bootstrap, and no statement is left to end it with.
IntrospectColumnsEndsEarly ==
  /\ Executes("introspect")
  /\ toAdd' = {c \in Columns : column[c] # "there"}
  /\ statement' = IF toAdd' = {} THEN "none" ELSE "alter"
  /\ UNCHANGED <<vars, table>>

\* introspectColumns and missingColumns.
IntrospectColumns ==
  /\ Executes("introspect")
  /\ toAdd' = {c \in Columns : column[c] # "there"}
  /\ statement' = "alter"
  /\ UNCHANGED <<vars, table>>

\* Mutant: the first column somebody else created ends the migration.
AddColumnStopsAtRace(c) ==
  /\ Executes("alter")
  /\ c \in toAdd
  /\ toAdd' = IF column[c] = "absent" THEN toAdd \ {c} ELSE {}
  /\ column' = [column EXCEPT ![c] = IF @ = "absent" THEN "committing" ELSE @]
  /\ UNCHANGED <<vars, tableExists, statement>>

\* Mutant: a column somebody else created is asked for again.
AddColumnInsists(c) ==
  /\ Executes("alter")
  /\ c \in toAdd
  /\ toAdd' = IF column[c] = "absent" THEN toAdd \ {c} ELSE toAdd
  /\ column' = [column EXCEPT ![c] = IF @ = "absent" THEN "committing" ELSE @]
  /\ UNCHANGED <<vars, tableExists, statement>>

\* The ALTER adds the column, or its "duplicate column" error is taken for success.
\* The order of the columns is of no consequence and left open.
AddColumn(c) ==
  /\ Executes("alter")
  /\ c \in toAdd
  /\ toAdd' = toAdd \ {c}
  /\ column' = [column EXCEPT ![c] = IF @ = "absent" THEN "committing" ELSE @]
  /\ UNCHANGED <<vars, tableExists, statement>>

BootstrapStep == CreateTable \/ IntrospectColumns \/ \E c \in Columns : AddColumn(c)

\* A connection is published once its bootstrap is through, and an attempt that
\* ends, for whatever reason, leaves nothing of its bootstrap to the next one.
AttemptOf ==
  /\ connection = NoConn /\ connection' # NoConn => statement = "alter" /\ toAdd = {}
  /\ IF pc'[Loop] = "bootstrap" THEN UNCHANGED bootstrap
     ELSE statement' = "create" /\ toAdd' = {}
  /\ UNCHANGED table

-----------------------------------------------------------------------------
(* The other users of the table.                                           *)

\* A sender writes a column the table does not have, or the last ALTER of an
\* abandoned attempt is executed.
OthersAddColumn(c) ==
  /\ tableExists
  /\ column[c] = "absent"
  /\ column' = [column EXCEPT ![c] = "committing"]
  /\ UNCHANGED <<vars, tableExists, bootstrap>>

\* A sender writes to a table there is not, and creates it with the columns of its
\* row; or the CREATE TABLE of an abandoned attempt is executed.
OthersCreateTable ==
  /\ ~tableExists
  /\ tableExists' = TRUE
  /\ column' \in [Columns -> {"absent", "there"}]
  /\ UNCHANGED <<vars, bootstrap>>

\* QuestDB applies what it accepted.
Commit(c) ==
  /\ column[c] = "committing"
  /\ column' = [column EXCEPT ![c] = "there"]
  /\ UNCHANGED <<vars, tableExists, bootstrap>>

-----------------------------------------------------------------------------
BootstrapNext ==
  \/ BootstrapStep
  \/ Next /\ AttemptOf
  \/ \E c \in Columns : OthersAddColumn(c) \/ Commit(c)
  \/ OthersCreateTable

BootstrapSpec == BootstrapInit /\ [][BootstrapNext]_bootstrapVars

\* As in QuestDBConnection, and QuestDB commits in the end what it accepted.
BootstrapFairness ==
  /\ WF_bootstrapVars(BootstrapStep \/ (LoopStep /\ AttemptOf))
  /\ \A f \in Fibers :
       WF_bootstrapVars((ReportError(f) \/ CloseStep(f) \/ CloseReturns(f)) /\ AttemptOf)
  /\ \A c \in Conns : WF_bootstrapVars(DetachedCleanup(c) /\ AttemptOf)
  /\ \A c \in Columns : WF_bootstrapVars(Commit(c))

BootstrapFairSpec == BootstrapSpec /\ BootstrapFairness

-----------------------------------------------------------------------------
(* Correctness.                                                            *)

\* Whoever finds a connection in the Ref finds a table that has, or is about to
\* commit, every canonical column, although the columns were looked at in one
\* statement and added in others, while senders and abandoned attempts create
\* them as well.
PublishedTablesAreComplete ==
  connection # NoConn => tableExists /\ \A c \in Columns : column[c] # "absent"

\* Once QuestDB stays up every query finds its columns: no race with a sender, and
\* no attempt given up half-way, keeps a column away for good.
ColumnsArrive ==
  <>[](db = "up") => (<>[](\A c \in Columns : column[c] = "there") \/ <>Exhausted)

\* Seen from outside, the connection with its bootstrap is the connection: the
\* statements are stutters, and the loop still gets to the end of an attempt.
ImplementsConnection == FairSpec

================================================================================
