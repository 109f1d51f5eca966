--------------------------- MODULE GeneratedTables ---------------------------
(***************************************************************************)
(* What gen-go-db wrote for the six tables of its repository package, one  *)
(* definition for each artefact of a table, because the artefacts must     *)
(* agree with each other: the struct and its tags (the columns, which      *)
(* Clone copies, the primary key and the indexes by priority), the role    *)
(* ListZeroValueCols gives each column, the columns FindByStruct accepts   *)
(* as the use of an index, those the updates and FindByPrimaryKey require  *)
(* and the leading columns that named queries are checked against.         *)
(***************************************************************************)
EXTENDS Integers, Sequences

\* The columns of four of the tables.
StudentCols ==
    {"tenant_id", "student_no", "name", "address", "phone", "class_id", "card_no", "score",
     "enroll_date", "is_graduate", "jpa_version", "create_time", "last_update_time"}
Special == {"jpa_version", "create_time", "last_update_time"}
SchoolIndexes == {<<"name", "address">>, <<"phone">>, <<"class_id">>, <<"card_no">>}
SchoolIndexed == {"name", "address", "phone", "class_id", "card_no"}

Roles(primary, index, special, plain) ==
    [primary |-> primary, index |-> index, special |-> special, plain |-> plain]

-------------------------------------------------------------------------------
TmTeacherStruct ==
    [cols |-> {"id", "salary", "time_pointer", "bool_test"} \cup SchoolIndexed \cup Special,
     pk |-> <<"id">>, indexes |-> SchoolIndexes, lock |-> {"jpa_version"}]
TmTeacherListZeroValueCols ==
    Roles({"id"}, SchoolIndexed, Special, {"salary", "time_pointer", "bool_test"})
TmTeacherFindByStruct == {"id", "class_id", "name", "card_no", "phone"}
TmTeacherUpdateByPrimaryKey == [key |-> {"id"}, valid |-> {"jpa_version"}]
TmTeacherFindByPrimaryKey == {"id"}
TmTeacherIndexLeadingCols == {"id", "class_id", "name", "card_no", "phone"}

\* The named queries: the column each parameter is compared with, all joined by AND.
TmTeacherConditionMap ==
    [FindByNameNadAddress |-> [Name |-> "name", Address |-> "address"],
     FindByPhone |-> [Phone |-> "phone"]]

\* InitTmTeacherNamingSql registers the statements of MySQL alone.
TmTeacherNamingSql == {"MYSQL"}

-------------------------------------------------------------------------------
\* The plain columns between ORDER_ID and RETRIEVAL_REFERENCE_NUMBER, and after
\* MERCHANT_ID.
Tbl3dsOrderCols ==
    {"GATEWAY_SERVICE_KEY", "GLOBAL_TRACE_NO", "PAN", "PROCESSING_CODE", "ORDER_AMOUNT",
     "TRANSACTION_AMOUNT", "BILLING_AMOUNT", "TRANSMISSION_DATETIME", "CONVERSION_RATE_BILLING",
     "STAN", "LOCAL_TIME", "LOCAL_DATE", "MCC", "ACQUIRING_INST_COUNTRY_CODE", "POS_ENTRY_MODE",
     "POS_CONDITION_CODE", "POS_PIN_CAPTURE_CODE", "ACQUIRING_INSTITUTION"}
Tbl3dsCardCols ==
    {"CARD_ACCEPTOR_LOCATION", "ORDER_CURRENCY", "TRANSACTION_CURRENCY", "BILLING_CURRENCY",
     "ADDITIONAL_POS_DATA", "CARD_TYPE", "DCC_FLAG", "KEY_DATETIME", "DEVICE_TYPE",
     "INTERFACE_VERSION", "IP", "RISK_SERVICE_FLAG", "PAYMENT_TYPE", "CARDHOLDER_COUNTRY",
     "CARDHOLDER_ADDRESS", "CARDHOLDER_NAME", "CARDHOLDER_STATE", "CARDHOLDER_CITY",
     "CARDHOLDER_ZIP_CODE", "CARDHOLDER_PHONE", "CARDHOLDER_EMAIL", "RESERVED_1", "RESERVED_2"}
Tbl3dsRequestStruct ==
    [cols |-> {"ID", "CLUSTER_ID", "TRANSACTION_TYPE", "ORDER_ID", "RETRIEVAL_REFERENCE_NUMBER",
               "TERMINAL_ID", "MERCHANT_ID", "INSERT_TIMESTAMP", "INSERT_USER"}
                 \cup Tbl3dsOrderCols \cup Tbl3dsCardCols,
     pk |-> <<"ID", "CLUSTER_ID">>,
     indexes |-> {<<"RETRIEVAL_REFERENCE_NUMBER", "MERCHANT_ID", "TRANSACTION_TYPE">>,
                  <<"ORDER_ID", "MERCHANT_ID">>, <<"INSERT_TIMESTAMP">>},
     lock |-> {}]
Tbl3dsRequestListZeroValueCols ==
    Roles({"ID", "CLUSTER_ID"},
          {"TRANSACTION_TYPE", "ORDER_ID", "RETRIEVAL_REFERENCE_NUMBER", "MERCHANT_ID",
           "INSERT_TIMESTAMP"},
          {}, {"TERMINAL_ID", "INSERT_USER"} \cup Tbl3dsOrderCols \cup Tbl3dsCardCols)
Tbl3dsRequestFindByStruct == {"ID", "INSERT_TIMESTAMP", "ORDER_ID", "RETRIEVAL_REFERENCE_NUMBER"}
Tbl3dsRequestUpdateByPrimaryKey == [key |-> {"ID", "CLUSTER_ID"}, valid |-> {}]
Tbl3dsRequestFindByPrimaryKey == {"ID", "CLUSTER_ID"}
Tbl3dsRequestIndexLeadingCols ==
    {"ID", "INSERT_TIMESTAMP", "ORDER_ID", "RETRIEVAL_REFERENCE_NUMBER"}
Tbl3dsRequestConditionMap == [Xxxxx |-> [RRN |-> "RETRIEVAL_REFERENCE_NUMBER"]]
Tbl3dsRequestNamingSql == {"MYSQL"}

-------------------------------------------------------------------------------
TmStudentStruct ==
    [cols |-> StudentCols, pk |-> <<"tenant_id", "student_no">>, indexes |-> SchoolIndexes, lock |-> {}]
TmStudentListZeroValueCols ==
    Roles({"tenant_id", "student_no"}, SchoolIndexed, Special, {"score", "enroll_date", "is_graduate"})
TmStudentFindByStruct == {"tenant_id", "card_no", "phone", "class_id", "name"}
TmStudentUpdateByPrimaryKey == [key |-> {"tenant_id", "student_no"}, valid |-> {}]
TmStudentFindByPrimaryKey == {"tenant_id", "student_no"}
TmStudentIndexLeadingCols == {"tenant_id", "card_no", "phone", "class_id", "name"}
TmStudentFindByCustomerRule == [q \in {} |-> 0]

TmNoIndexStruct ==
    [cols |-> StudentCols, pk |-> <<"tenant_id", "student_no">>, indexes |-> {}, lock |-> {}]
TmNoIndexListZeroValueCols ==
    Roles({"tenant_id", "student_no"}, {}, Special,
          SchoolIndexed \cup {"score", "enroll_date", "is_graduate"})
TmNoIndexFindByStruct == {"tenant_id"}
TmNoIndexUpdateByPrimaryKey == [key |-> {"tenant_id", "student_no"}, valid |-> {}]
TmNoIndexFindByPrimaryKey == {"tenant_id", "student_no"}
TmNoIndexIndexLeadingCols == {"tenant_id"}
TmNoIndexFindByCustomerRule == [q \in {} |-> 0]

\* A table without a primary key: what asks for the key is always refused.
TmNoPrimaryStruct == [cols |-> StudentCols, pk |-> <<>>, indexes |-> SchoolIndexes, lock |-> {}]
TmNoPrimaryListZeroValueCols ==
    Roles({}, SchoolIndexed, Special,
          {"tenant_id", "student_no", "score", "enroll_date", "is_graduate"})
TmNoPrimaryFindByStruct == {"card_no", "phone", "class_id", "name"}
TmNoPrimaryUpdateByPrimaryKey == [key |-> {}, valid |-> {}]
TmNoPrimaryFindByPrimaryKey == {}
TmNoPrimaryIndexLeadingCols == {"card_no", "phone", "class_id", "name"}
TmNoPrimaryFindByCustomerRule == [q \in {} |-> 0]

TmNoStruct == [cols |-> StudentCols, pk |-> <<>>, indexes |-> {}, lock |-> {}]
TmNoListZeroValueCols == Roles({}, {}, Special, StudentCols \ Special)
TmNoFindByStruct == {}
TmNoUpdateByPrimaryKey == [key |-> {}, valid |-> {}]
TmNoFindByPrimaryKey == {}
TmNoFindByCustomerRule == [q \in {} |-> 0]

-------------------------------------------------------------------------------
\* A table and its artefacts.
Table(struct, roles, used, update, find, leading, queries, databases) ==
    [cols |-> struct.cols, pk |-> struct.pk, indexes |-> struct.indexes, lock |-> struct.lock,
     roles |-> roles, used |-> used, update |-> update, find |-> find, leading |-> leading,
     queries |-> queries, databases |-> databases]

TmTeacher ==
    Table(TmTeacherStruct, TmTeacherListZeroValueCols, TmTeacherFindByStruct,
          TmTeacherUpdateByPrimaryKey, TmTeacherFindByPrimaryKey, TmTeacherIndexLeadingCols,
          TmTeacherConditionMap, TmTeacherNamingSql)
Tbl3dsRequest ==
    Table(Tbl3dsRequestStruct, Tbl3dsRequestListZeroValueCols, Tbl3dsRequestFindByStruct,
          Tbl3dsRequestUpdateByPrimaryKey, Tbl3dsRequestFindByPrimaryKey,
          Tbl3dsRequestIndexLeadingCols, Tbl3dsRequestConditionMap, Tbl3dsRequestNamingSql)
TmStudent ==
    Table(TmStudentStruct, TmStudentListZeroValueCols, TmStudentFindByStruct,
          TmStudentUpdateByPrimaryKey, TmStudentFindByPrimaryKey, TmStudentIndexLeadingCols,
          TmStudentFindByCustomerRule, {})
TmNoIndex ==
    Table(TmNoIndexStruct, TmNoIndexListZeroValueCols, TmNoIndexFindByStruct,
          TmNoIndexUpdateByPrimaryKey, TmNoIndexFindByPrimaryKey, TmNoIndexIndexLeadingCols,
          TmNoIndexFindByCustomerRule, {})
TmNoPrimary ==
    Table(TmNoPrimaryStruct, TmNoPrimaryListZeroValueCols, TmNoPrimaryFindByStruct,
          TmNoPrimaryUpdateByPrimaryKey, TmNoPrimaryFindByPrimaryKey, TmNoPrimaryIndexLeadingCols,
          TmNoPrimaryFindByCustomerRule, {})
TmNo ==
    Table(TmNoStruct, TmNoListZeroValueCols, TmNoFindByStruct, TmNoUpdateByPrimaryKey,
          TmNoFindByPrimaryKey, {}, TmNoFindByCustomerRule, {})

TableOf ==
    [tm_teacher |-> TmTeacher, tbl_3ds_request |-> Tbl3dsRequest, tm_student |-> TmStudent,
     tm_no_index |-> TmNoIndex, tm_no_primary |-> TmNoPrimary, tm_no |-> TmNo]
===============================================================================
