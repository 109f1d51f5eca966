----------------------------- MODULE GeneratedDao -----------------------------
(***************************************************************************)
(* The data access objects gen-go-db generates, over one table of          *)
(* GeneratedTables: inserts, the two updates by primary key with the       *)
(* optimistic lock, the queries by key, by struct and by name, and walks   *)
(* over the pages of FindByCondition.                                      *)
(*                                                                         *)
(* Rows are numbered; the primary keys of two rows differ in the last      *)
(* column alone.  What an entity holds is the set of writes it has seen:   *)
(* an update that overwrites a row with older values makes it forget the   *)
(* others.  gorm and its optimisticlock plugin are external: an update     *)
(* with a valid version matches only that version and adds one to it.      *)
(***************************************************************************)
EXTENDS GeneratedTables, FiniteSets

CONSTANTS
    Clients,
    MaxRows,     \* bound: rows of the table
    MaxUpdates,  \* bound: updates that reach the database
    MaxSize      \* bound: page sizes asked for

ASSUME DaoAssumption == MaxRows \in Nat /\ MaxSize \in Nat

VARIABLES
    table, dbType,    \* which table, and what NewRepository found the database to be
    rows,             \* [row numbers -> version and the writes the row reflects]
    entity,           \* [Clients -> entity in memory or NoEntity]
    asked,            \* the last query by struct or by name
    pages,            \* a client that goes through the pages, or NoWalk
    \* History variables
    confirmed         \* [row numbers -> writes whose RowsAffected was not 0]

daoVars == <<table, dbType, rows, entity, asked, pages, confirmed>>

T == TableOf[table]
NoEntity == [row |-> 0, cols |-> {}, version |-> 0, hist |-> {}, loaded |-> FALSE]
Refused == [accepted |-> FALSE, given |-> {}, cols |-> {}]
NoWalk == [size |-> 0, page |-> 0, total |-> -1, got |-> <<>>, dirty |-> FALSE, done |-> FALSE]

DaoInit ==
    /\ table \in DOMAIN TableOf
    /\ dbType \in {"MYSQL", "DB2"}
    /\ rows = <<>> /\ confirmed = [i \in 1..MaxRows |-> {}]
    /\ entity = [c \in Clients |-> NoEntity]
    /\ asked = Refused /\ pages = NoWalk

\* The statements of a walk are not one transaction.
Dirties == pages' = [pages EXCEPT !.dirty = TRUE]

-------------------------------------------------------------------------------
(* Entities *)

\* ListZeroValueCols of an entity whose columns nz are not zero.
ListZeroValueCols(nz, filterPrimary, filterIndex, filterIsZero, filterSpecial) ==
    LET kept == T.roles.plain \cup (IF filterPrimary THEN {} ELSE T.roles.primary)
                  \cup (IF filterIndex THEN {} ELSE T.roles.index)
                  \cup (IF filterSpecial THEN {} ELSE T.roles.special)
    IN IF filterIsZero THEN kept \cap nz ELSE kept \ nz

KeyCols == {T.pk[i] : i \in DOMAIN T.pk}

\* InsertOne and InsertOneIgnoreZeroValCols: rows of a table with a key are
\* distinct; the plugin gives a new row version 1, which the entity has too.
Insert(c) ==
    /\ Len(rows) < MaxRows
    /\ rows' = Append(rows, [version |-> 1, hist |-> {}])
    /\ entity' = [entity EXCEPT ![c] = [row |-> Len(rows) + 1, cols |-> KeyCols,
                                        version |-> IF T.lock # {} THEN 1 ELSE 0,
                                        hist |-> {}, loaded |-> TRUE]]
    /\ Dirties
    /\ UNCHANGED <<table, dbType, asked, confirmed>>

\* A client makes an entity of its own, with a part of the key and no version.
Construct(c, i, cols) ==
    /\ entity' = [entity EXCEPT ![c] = [NoEntity EXCEPT !.row = i, !.cols = cols]]
    /\ UNCHANGED <<table, dbType, rows, asked, pages, confirmed>>

\* FindByPrimaryKey: every column of the key, or nothing.
FindByPrimaryKey(c, i) ==
    /\ T.find # {}
    /\ entity' = [entity EXCEPT ![c] =
         IF i \notin DOMAIN rows THEN NoEntity
         ELSE [row |-> i, cols |-> KeyCols, version |-> IF T.lock # {} THEN rows[i].version ELSE 0,
               hist |-> rows[i].hist, loaded |-> TRUE]]
    /\ UNCHANGED <<table, dbType, rows, asked, pages, confirmed>>

\* Mutant of MayUpdate: the version is not required.
MayUpdateBlindly(e) == T.update.key # {} /\ T.update.key \subseteq e.cols

\* The checks of both updates.
MayUpdate(e) ==
    /\ T.update.valid # {} => e.version # 0
    /\ T.update.key # {} /\ T.update.key \subseteq e.cols

\* The rows gorm's WHERE matches: the columns of the key that are not zero, and
\* the version if it is valid.
Matched(e) ==
    {i \in DOMAIN rows :
        /\ Len(T.pk) > 0 /\ T.pk[Len(T.pk)] \in e.cols => i = e.row
        /\ T.lock # {} /\ e.version # 0 => rows[i].version = e.version}

Stamps == UNION {confirmed[i] : i \in DOMAIN confirmed}

\* UpdateByPrimaryKey writes all columns, UpdateByPrimaryKeyIgnoreZeroValCols
\* those that are not zero, which are all of them in an entity that was loaded.
\* The entity keeps its version.
Update(c, all) ==
    LET e == entity[c]
        stamp == Cardinality(Stamps) + 1
    IN /\ MayUpdate(e) /\ Cardinality(Stamps) < MaxUpdates
       /\ rows' = [i \in DOMAIN rows |->
            IF i \notin Matched(e) THEN rows[i]
            ELSE [version |-> rows[i].version + (IF T.lock # {} THEN 1 ELSE 0),
                  hist |-> {stamp} \cup (IF all \/ e.loaded THEN e.hist ELSE rows[i].hist)]]
       /\ confirmed' = [i \in DOMAIN confirmed |->
                          IF i \in Matched(e) THEN confirmed[i] \cup {stamp} ELSE confirmed[i]]
       /\ entity' = [entity EXCEPT ![c].hist = IF Matched(e) = {} THEN @ ELSE @ \cup {stamp}]
       /\ Dirties
       /\ UNCHANGED <<table, dbType, asked>>

-------------------------------------------------------------------------------
(* Queries *)

\* FindByStruct with the columns nz: one of those that lead an index must be there.
FindByStruct(nz) ==
    /\ asked' = IF nz \cap T.used = {} THEN Refused
                ELSE [accepted |-> TRUE, given |-> nz,
                      cols |-> ListZeroValueCols(nz, FALSE, FALSE, TRUE, FALSE)]
    /\ UNCHANGED <<table, dbType, rows, entity, pages, confirmed>>

\* FilterMaskWhereCondition: the conditions whose parameter is set.
FilterMaskWhereCondition(q, mask) == {T.queries[q][p] : p \in mask}

\* ValidateLeadingCol looks for the name in the text, so that a longer name does.
Contains(col, lead) == col = lead \/ <<lead, col>> \in {<<"id", "class_id">>, <<"ID", "CLUSTER_ID">>}
ValidateLeadingCol(cols) == \E col \in cols, lead \in T.leading : Contains(col, lead)

\* A named query with the parameters mask: the conditions that are set are checked,
\* and the whole statement is executed, with zeros for the others.
FindByCustomerRule(q, mask) ==
    LET where == FilterMaskWhereCondition(q, mask)
        all == {T.queries[q][p] : p \in DOMAIN T.queries[q]}
    IN /\ asked' = IF dbType \in T.databases /\ where # {} /\ ValidateLeadingCol(where)
                   THEN [accepted |-> TRUE, given |-> where, cols |-> all] ELSE Refused
       /\ UNCHANGED <<table, dbType, rows, entity, pages, confirmed>>

-------------------------------------------------------------------------------
(* Pages *)

\* Mutant of CalcPageStartRecord: a page begins with the last row of the one before.
CalcPageOverlapping(pageNum, pageSize, totalCount, db) ==
    [start |-> IF pageNum = 1 THEN 0 ELSE (pageNum - 1) * pageSize - 1, end |-> pageSize,
     totalPage |-> (totalCount + pageSize - 1) \div pageSize, enable |-> totalCount > 0]

\* The window of a page: an offset and a count on MySQL, two inclusive row numbers
\* elsewhere; no query without rows, or past the last one.
CalcPageStartRecord(pageNum, pageSize, totalCount, db) ==
    LET start == (pageNum - 1) * pageSize + (IF db = "MYSQL" THEN 0 ELSE 1)
        end == IF db = "MYSQL" THEN pageSize ELSE start + pageSize - 1
        total == totalCount \div pageSize + (IF totalCount % pageSize # 0 THEN 1 ELSE 0)
    IN CASE totalCount = 0 -> [start |-> 0, end |-> 0, totalPage |-> 0, enable |-> FALSE]
         [] totalCount # 0 /\ start > totalCount ->
              [start |-> pageNum, end |-> pageSize, totalPage |-> total, enable |-> FALSE]
         [] OTHER -> [start |-> start, end |-> IF end > totalCount THEN totalCount ELSE end,
                      totalPage |-> total, enable |-> TRUE]

\* FindByCondition with a page: it counts, ...
Count ==
    /\ ~pages.done /\ pages.total < 0
    /\ \E size \in IF pages.page = 0 THEN 1..MaxSize ELSE {pages.size} :
         pages' = [pages EXCEPT !.size = size, !.page = @ + 1, !.total = Len(rows),
                              !.dirty = pages.page # 0 /\ @]
    /\ UNCHANGED <<table, dbType, rows, entity, asked, confirmed>>

\* ... then reads the page, with Limit and Offset on every database.
Fetch ==
    LET p == CalcPageStartRecord(pages.page, pages.size, pages.total, dbType)
        last == p.start + pages.size
        got == [i \in 1..(IF last < Len(rows) THEN last ELSE Len(rows)) |-> i]
    IN /\ pages.total >= 0
       /\ pages' = [pages EXCEPT !.total = -1, !.done = pages.page >= p.totalPage,
            !.got = IF p.enable THEN @ \o SubSeq(got, p.start + 1, Len(got)) ELSE @]
       /\ UNCHANGED <<table, dbType, rows, entity, asked, confirmed>>

Edits ==
    \E c \in Clients :
       \/ \E i \in 1..MaxRows :
            FindByPrimaryKey(c, i) \/ \E cols \in SUBSET KeyCols : Construct(c, i, cols)
       \/ \E all \in BOOLEAN : Update(c, all)

\* Queries by one column, by all and by none, and by name with every mask.
Queries ==
    \/ \E nz \in {{col} : col \in T.cols} \cup {{}, T.cols} : FindByStruct(nz)
    \/ \E q \in DOMAIN T.queries : \E mask \in SUBSET DOMAIN T.queries[q] : FindByCustomerRule(q, mask)

Pages == Count \/ Fetch

DaoNext == (\E c \in Clients : Insert(c)) \/ Edits \/ Queries \/ Pages

DaoSpec == DaoInit /\ [][DaoNext]_daoVars

-------------------------------------------------------------------------------
\* An update a client was told of (RowsAffected) changed one row, and on a table
\* with an optimistic lock stays: no other client overwrites it with an entity it
\* loaded before, or made itself (UpdateByPrimaryKey, "the version must be loaded").
UpdatesLand ==
    /\ \A i, j \in DOMAIN confirmed : i # j => confirmed[i] \cap confirmed[j] = {}
    /\ T.lock # {} => \A i \in DOMAIN rows : confirmed[i] \subseteq rows[i].hist

\* No query reads the whole table: each one that FindByStruct or a named query
\* accepts compares the first column of the primary key or of an index of the
\* struct, and drops no column that was given (the checks, the roles and the
\* leading columns are generated apart from each other).
QueriesUseIndexes ==
    asked.accepted =>
        /\ asked.given \subseteq asked.cols
        /\ \E ix \in {T.pk} \cup T.indexes : ix # <<>> /\ Head(ix) \in asked.cols

\* A walk over the pages of FindByCondition on MySQL, which no insert and no update
\* disturbs, returns every row once and in order, for every page size.
PagesPartition ==
    pages.done /\ ~pages.dirty /\ dbType = "MYSQL" => pages.got = [i \in DOMAIN rows |-> i]

\* No confirmed update of a table with a version is lost, accepted queries use an
\* index, and the pages of a walk are all rows, each once (UpdateByPrimaryKey,
\* FindByStruct, ValidateLeadingCol, FindByCondition).
DaoSound == UpdatesLand /\ QueriesUseIndexes /\ PagesPartition
===============================================================================
