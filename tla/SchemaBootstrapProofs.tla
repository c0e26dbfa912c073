------------------------ MODULE SchemaBootstrapProofs ------------------------
(***************************************************************************)
(* SchemaBootstrap for any columns, connections and fibers: it is the      *)
(* connection of QuestDBConnection, all of whose safety it inherits, and   *)
(* what it publishes is complete.                                          *)
(*                                                                         *)
(* Completeness is not inductive by itself: Progress says how far the      *)
(* statements of the attempt have got, whoever else changes the table.     *)
(***************************************************************************)
EXTENDS SchemaBootstrap, QuestDBConnectionProofs

\* After CREATE TABLE there is a table, and after the introspection every column is
\* accepted or still to be added.
Progress ==
  /\ statement \in {"introspect", "alter"} => tableExists
  /\ statement = "alter" => \A c \in Columns \ toAdd : column[c] # "absent"

BootstrapInv ==
  /\ BootstrapTypeOK
  /\ Progress
  /\ PublishedTablesAreComplete

-----------------------------------------------------------------------------
(* The connection.                                                         *)

LEMMA StepIsAConnectionStep == [BootstrapNext]_bootstrapVars => [Next]_vars
  <1> SUFFICES ASSUME [BootstrapNext]_bootstrapVars PROVE [Next]_vars
    OBVIOUS
  <1>1. CASE BootstrapStep
    BY <1>1 DEF BootstrapStep, CreateTable, IntrospectColumns, AddColumn
  <1>2. CASE Next /\ AttemptOf
    BY <1>2
  <1>3. ASSUME NEW c \in Columns, OthersAddColumn(c) \/ Commit(c) PROVE [Next]_vars
    BY <1>3 DEF OthersAddColumn, Commit
  <1>4. CASE OthersCreateTable
    BY <1>4 DEF OthersCreateTable
  <1>5. CASE UNCHANGED bootstrapVars
    BY <1>5 DEF bootstrapVars
  <1> QED
    BY <1>1, <1>2, <1>3, <1>4, <1>5 DEF BootstrapNext

\* Without fairness, every behaviour with the statements of the bootstrap is one of the
\* connection: its invariants hold of it as well.
THEOREM BootstrapImplementsConnection == BootstrapSpec => Spec
  <1>1. BootstrapInit => Init
    BY DEF BootstrapInit
  <1> QED
    BY <1>1, StepIsAConnectionStep, PTL DEF BootstrapSpec, Spec

-----------------------------------------------------------------------------
(* The table.                                                              *)

LEMMA InitBootstrapInv == BootstrapInit => BootstrapInv
  <1> SUFFICES ASSUME BootstrapInit PROVE BootstrapInv
    OBVIOUS
  <1>1. TypeOK
    BY InitType DEF BootstrapInit
  <1>2. column \in [Columns -> {"absent", "committing", "there"}]
    BY DEF BootstrapInit
  <1>3. connection = NoConn
    BY DEF BootstrapInit, Init
  <1> QED
    BY <1>1, <1>2, <1>3
       DEF BootstrapInit, BootstrapInv, BootstrapTypeOK, Progress, PublishedTablesAreComplete

\* A column that is accepted stays, and so does the table.
LEMMA TableGrows ==
  ASSUME BootstrapTypeOK, [BootstrapNext]_bootstrapVars, tableExists
  PROVE  tableExists' /\ \A c \in Columns : column[c] # "absent" => column'[c] # "absent"
  <1>1. CASE BootstrapStep
    BY <1>1 DEF BootstrapStep, CreateTable, IntrospectColumns, AddColumn, BootstrapTypeOK, table
  <1>2. CASE Next /\ AttemptOf
    BY <1>2 DEF AttemptOf, table
  <1>3. ASSUME NEW d \in Columns, OthersAddColumn(d) \/ Commit(d)
        PROVE  tableExists' /\ \A c \in Columns : column[c] # "absent" => column'[c] # "absent"
    BY <1>3 DEF OthersAddColumn, Commit, BootstrapTypeOK
  <1>4. CASE OthersCreateTable
    BY <1>4 DEF OthersCreateTable
  <1>5. CASE UNCHANGED bootstrapVars
    BY <1>5 DEF bootstrapVars, table
  <1> QED
    BY <1>1, <1>2, <1>3, <1>4, <1>5 DEF BootstrapNext

LEMMA NextTypes == TypeOK' /\ BootstrapTypeOK /\ [BootstrapNext]_bootstrapVars => BootstrapTypeOK'
  <1> SUFFICES ASSUME TypeOK', BootstrapTypeOK, [BootstrapNext]_bootstrapVars PROVE BootstrapTypeOK'
    OBVIOUS
  <1> USE DEF BootstrapTypeOK
  <1>1. CASE BootstrapStep
    BY <1>1 DEF BootstrapStep, CreateTable, IntrospectColumns, AddColumn, table
  <1>2. CASE Next /\ AttemptOf
    BY <1>2 DEF AttemptOf, table, bootstrap
  <1>3. ASSUME NEW c \in Columns, OthersAddColumn(c) \/ Commit(c) PROVE BootstrapTypeOK'
    BY <1>3 DEF OthersAddColumn, Commit, bootstrap
  <1>4. CASE OthersCreateTable
    BY <1>4 DEF OthersCreateTable, bootstrap
  <1>5. CASE UNCHANGED bootstrapVars
    BY <1>5 DEF bootstrapVars, table, bootstrap
  <1> QED
    BY <1>1, <1>2, <1>3, <1>4, <1>5 DEF BootstrapNext

LEMMA NextProgress ==
  BootstrapTypeOK /\ Progress /\ [BootstrapNext]_bootstrapVars => Progress'
  <1> SUFFICES ASSUME BootstrapTypeOK, Progress, [BootstrapNext]_bootstrapVars PROVE Progress'
    OBVIOUS
  <1> USE DEF Progress
  <1>1. CASE CreateTable
    BY <1>1 DEF CreateTable
  <1>2. CASE IntrospectColumns
    BY <1>2 DEF IntrospectColumns, Executes, table
  <1>3. ASSUME NEW c \in Columns, AddColumn(c) PROVE Progress'
    BY <1>3 DEF AddColumn, BootstrapTypeOK
  <1>4. CASE Next /\ AttemptOf
    BY <1>4 DEF AttemptOf, table, bootstrap
  <1>5. CASE UNCHANGED bootstrap
    BY <1>5, TableGrows DEF bootstrap
  <1>6. CASE UNCHANGED bootstrapVars
    BY <1>6 DEF bootstrapVars, table, bootstrap
  <1> QED
    BY <1>1, <1>2, <1>3, <1>4, <1>5, <1>6
       DEF BootstrapNext, BootstrapStep, OthersAddColumn, OthersCreateTable, Commit

LEMMA NextComplete ==
  BootstrapInv /\ [BootstrapNext]_bootstrapVars => PublishedTablesAreComplete'
  <1> SUFFICES ASSUME BootstrapInv, [BootstrapNext]_bootstrapVars, connection' # NoConn
               PROVE  tableExists' /\ \A c \in Columns : column'[c] # "absent"
    BY DEF PublishedTablesAreComplete
  <1>1. CASE connection # NoConn
    BY <1>1, TableGrows DEF BootstrapInv, PublishedTablesAreComplete
  \* A connection is published at the end of a bootstrap.
  <1>2. CASE connection = NoConn
    <2>1. AttemptOf
      <3>1. connection' # connection
        BY <1>2
      <3>2. ~UNCHANGED vars
        BY <3>1 DEF vars
      <3> QED
        BY <3>2 DEF BootstrapNext, BootstrapStep, CreateTable, IntrospectColumns, AddColumn,
                    OthersAddColumn, Commit, OthersCreateTable, bootstrapVars
    <2>2. statement = "alter" /\ toAdd = {}
      BY <1>2, <2>1 DEF AttemptOf
    <2> QED
      BY <2>1, <2>2 DEF AttemptOf, table, BootstrapInv, Progress
  <1> QED
    BY <1>1, <1>2

\* How far bootstrapSchema has got, and with it what is published, in every state.
THEOREM BootstrapInvariance == BootstrapSpec => []BootstrapInv
  <1>1. BootstrapInv /\ TypeOK' /\ [BootstrapNext]_bootstrapVars => BootstrapInv'
    BY NextTypes, NextProgress, NextComplete DEF BootstrapInv
  <1> QED
    BY <1>1, InitBootstrapInv, BootstrapImplementsConnection, TypeCorrect, PTL DEF BootstrapSpec

\* Every variable keeps its type, those of the connection included.
THEOREM BootstrapTypeCorrect == BootstrapSpec => []BootstrapTypeOK
  <1>1. BootstrapInv => BootstrapTypeOK
    BY DEF BootstrapInv
  <1> QED
    BY <1>1, BootstrapInvariance, PTL

\* Whoever finds a connection finds a table with every canonical column, accepted at
\* least, whatever senders and abandoned attempts do to it meanwhile.
THEOREM TablesAreComplete == BootstrapSpec => []PublishedTablesAreComplete
  <1>1. BootstrapInv => PublishedTablesAreComplete
    BY DEF BootstrapInv
  <1> QED
    BY <1>1, BootstrapInvariance, PTL

================================================================================
