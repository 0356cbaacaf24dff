------------------------------ MODULE SpCatalog ------------------------------
(***************************************************************************)
(* Stored-procedure catalog inserts (src/sp/sp_catalog.cpp): adding a      *)
(* procedure row with its argument rows, the built-in procedures installed *)
(* at database creation, and the rows of procedure code.                   *)
(*                                                                         *)
(* Each call runs on one thread as a sequence of catalog operations, any   *)
(* of which may fail and jump to the error label; the model keeps every    *)
(* such step and its failure branch and abstracts the attribute values.   *)
(* Rows are told apart by the call that created them, so the leftovers of *)
(* a failed call are not confused with the rows of a later one.            *)
(***************************************************************************)
EXTENDS Integers, Sequences, FiniteSets

CONSTANTS
  UserProcs,   \* names of procedures added by CREATE PROCEDURE
  UserArgs,    \* their argument lists: sequences of <<data type, mode>>
  CodeIds,     \* rows of _db_stored_procedure_code
  MaxCalls     \* bound on the calls of sp_add_stored_procedure_internal

ASSUME CallsAssumption == MaxCalls \in Nat

\* Init names one code row, so there is one
ASSUME CodeAssumption == CodeIds # {}

\* every user procedure has an argument list of <<data type, mode>> pairs
ASSUME ArgsAssumption == UserArgs \in [UserProcs -> Seq(STRING \X STRING)]

\* the built-in procedures of sp_builtin_init, by name, with the
\* <<data type, mode>> of each argument in order
BuiltinDefs ==
  [enable    |-> << <<"INTEGER", "IN">> >>,
   disable   |-> << >>,
   put       |-> << <<"STRING", "IN">> >>,
   put_line  |-> << <<"STRING", "IN">> >>,
   new_line  |-> << >>,
   get_line  |-> << <<"STRING", "OUT">>, <<"INTEGER", "OUT">> >>,
   get_lines |-> << <<"STRING", "OUT">>, <<"INTEGER", "OUT">> >>]

\* the order in which sp_builtin_init pushes them
BuiltinOrder ==
  <<"enable", "disable", "put", "put_line", "new_line", "get_line", "get_lines">>

Names == DOMAIN BuiltinDefs \cup UserProcs

ArgsOf(p) == IF p \in DOMAIN BuiltinDefs THEN BuiltinDefs[p] ELSE UserArgs[p]

\* the data types sp_check_param_type_supported accepts in every mode
SupportedTypes ==
  {"INTEGER", "FLOAT", "DOUBLE", "STRING", "OBJECT", "SET", "MULTISET",
   "SEQUENCE", "TIME", "TIMESTAMP", "DATE", "MONETARY", "SHORT", "NUMERIC",
   "CHAR", "BIGINT", "DATETIME"}

\* sp_check_param_type_supported: a result set is only an OUT argument;
\* for it the function returns er_errid (), NO_ERROR with nothing pending
ParamTypeSupported(arg) ==
  \/ arg[1] \in SupportedTypes
  \/ arg[1] = "RESULTSET" /\ arg[2] = "OUT"

SpRowIds  == [name : Names, call : 1..MaxCalls]
\* an argument row: the procedure, the argument's position, the call
ArgRowIds ==
  UNION {[sp : {p}, idx : 0..(Len(ArgsOf(p)) - 1), call : 1..MaxCalls] : p \in Names}

VARIABLES
  sp_rows,     \* rows of _db_stored_procedure
  arg_rows,    \* rows of _db_stored_procedure_args
  linked,      \* argument rows whose sp_of names their procedure row
  code_rows,   \* rows of _db_stored_procedure_code
  saved,       \* the catalog at the latest SAVEPOINT_ADD_STORED_PROC of the
               \* transaction, NoSavepoint if it has none
  taken,       \* the running call has taken its savepoint
  au,          \* Au_disable
  au_save,     \* the value AU_DISABLE saved in the running call
  mop_list,    \* the mop_list block is allocated and not freed
  pc,          \* the step of the running call
  call,        \* the entry point called: "idle", "add", "install", "add_code", "edit_code"
  cur,         \* the procedure being added
  ncall,       \* calls of sp_add_stored_procedure_internal so far
  has_sp,      \* has_savepoint
  idx,         \* the loop index i
  installed,   \* sp_builtin_install has been called
  inst_k,      \* the built-in being installed
  ret,         \* the value returned
  before,      \* the catalog when the running call started
  code         \* the code row of the running code call

vars == <<sp_rows, arg_rows, linked, code_rows, saved, taken, au, au_save, mop_list,
          pc, call, cur, ncall, has_sp, idx, installed, inst_k, ret, before, code>>

Catalog == [sp |-> sp_rows, args |-> arg_rows, linked |-> linked, code |-> code_rows]

EmptyCatalog == [sp |-> {}, args |-> {}, linked |-> {}, code |-> {}]

NoSavepoint == [none |-> TRUE]

Catalogs == [sp : SUBSET SpRowIds, args : SUBSET ArgRowIds,
             linked : SUBSET ArgRowIds, code : SUBSET CodeIds]

Steps == {"idle", "find_class", "savepoint", "create_tmpl", "put_attrs",
          "create_seq", "arg_check", "arg_add", "arg_put", "put_rest", "finish",
          "flush", "link", "error", "ret", "install_ret"}

TypeOK ==
  /\ sp_rows \in SUBSET SpRowIds
  /\ arg_rows \in SUBSET ArgRowIds
  /\ linked \in SUBSET ArgRowIds
  /\ code_rows \in SUBSET CodeIds
  /\ saved \in Catalogs \cup {NoSavepoint}
  /\ taken \in BOOLEAN
  /\ au \in BOOLEAN /\ au_save \in BOOLEAN /\ mop_list \in BOOLEAN
  /\ pc \in Steps
  /\ call \in {"idle", "add", "install", "add_code", "edit_code"}
  /\ cur \in Names
  /\ ncall \in 0..MaxCalls
  /\ has_sp \in BOOLEAN
  /\ idx \in -1..Len(ArgsOf(cur))
  /\ installed \in BOOLEAN
  /\ inst_k \in 0..Len(BuiltinOrder)
  /\ ret \in {"NO_ERROR", "ERROR"}
  /\ code \in CodeIds

Init ==
  /\ sp_rows = {} /\ arg_rows = {} /\ linked = {} /\ code_rows = {}
  /\ saved = NoSavepoint /\ taken = FALSE
  /\ au = FALSE /\ au_save = FALSE
  /\ mop_list = FALSE
  /\ pc = "idle" /\ call = "idle"
  /\ cur = BuiltinOrder[1]
  /\ ncall = 0 /\ has_sp = FALSE /\ idx = 0
  /\ installed = FALSE /\ inst_k = 0
  /\ ret = "NO_ERROR"
  /\ before = EmptyCatalog
  /\ code = CHOOSE c \in CodeIds : TRUE

-----------------------------------------------------------------------------
(* sp_add_stored_procedure_internal (info, has_savepoint), lines 344-641 *)

CatalogVars == <<sp_rows, arg_rows, linked, code_rows>>
CallVars == <<call, cur, ncall, installed, inst_k, before, code>>

\* the argument row created for argument i of the running call
ArgRow(i) == [sp |-> cur, idx |-> i, call |-> ncall]

\* entering sp_add_stored_procedure_internal for procedure p
StartInternal(p, hs) ==
  /\ ncall < MaxCalls
  /\ cur' = p /\ has_sp' = hs /\ ncall' = ncall + 1 /\ idx' = 0
  /\ taken' = FALSE
  /\ pc' = "find_class"

\* a step that either succeeds or fails and goes to the error label,
\* changing nothing the model keeps (a template, a DB_VALUE or a set)
Step(from, to) ==
  /\ pc = from
  /\ pc' \in {to, "error"}
  /\ UNCHANGED <<CatalogVars, saved, taken, au, au_save, mop_list, CallVars, has_sp,
                 idx, ret>>

\* AU_DISABLE, then db_find_class (SP_CLASS_NAME), lines 354-363
FindClass ==
  /\ pc = "find_class"
  /\ au_save' = au /\ au' = TRUE
  /\ \/ pc' = "error"
     \/ has_sp /\ pc' = "savepoint"
     \/ ~has_sp /\ pc' = "create_tmpl"
  /\ UNCHANGED <<CatalogVars, saved, taken, mop_list, CallVars, has_sp, idx, ret>>

\* tran_system_savepoint, lines 365-373: on failure there is no
\* savepoint to go back to
Savepoint ==
  /\ pc = "savepoint"
  /\ \/ has_sp' = FALSE /\ pc' = "error" /\ UNCHANGED <<saved, taken>>
     \/ saved' = Catalog /\ taken' = TRUE /\ pc' = "create_tmpl"
        /\ UNCHANGED has_sp
  /\ UNCHANGED <<CatalogVars, au, au_save, mop_list, CallVars, idx, ret>>

\* dbt_create_object_internal, lines 375-381
CreateTemplate == Step("create_tmpl", "put_attrs")

\* the puts of unique_name, sp_name, sp_type, the return type (after
\* jsp_check_return_type_supported), pkg_name, is_system_generated and
\* directive, lines 383-457
PutAttributes == Step("put_attrs", "create_seq")

\* set_create_sequence, then the unchecked malloc of mop_list, lines 459-468
CreateArgSequence ==
  /\ pc = "create_seq"
  /\ \/ pc' = "error" /\ UNCHANGED mop_list
     \/ mop_list' = TRUE /\ pc' = "arg_check"
  /\ UNCHANGED <<CatalogVars, saved, taken, au, au_save, CallVars, has_sp, idx, ret>>

\* the loop over info.args, lines 470-479: sp_check_param_type_supported
ArgCheck ==
  /\ pc = "arg_check"
  /\ idx < Len(ArgsOf(cur))
  /\ \/ ParamTypeSupported(ArgsOf(cur)[idx + 1]) /\ pc' = "arg_add"
     \/ ~ParamTypeSupported(ArgsOf(cur)[idx + 1]) /\ pc' = "error"
  /\ UNCHANGED <<CatalogVars, saved, taken, au, au_save, mop_list, CallVars, has_sp,
                 idx, ret>>

\* the loop ends once every argument is added; PutRest continues with the
\* put of the args sequence, lines 498-505
ArgsDone ==
  /\ pc = "arg_check"
  /\ idx = Len(ArgsOf(cur))
  /\ pc' = "put_rest"
  /\ UNCHANGED <<CatalogVars, saved, taken, au, au_save, mop_list, CallVars, has_sp,
                 idx, ret>>

\* sp_add_stored_procedure_argument, lines 481-487 and 643-767: the row is
\* created and flushed, or a step fails and nothing is left (the template
\* is aborted, a row whose flush failed is deleted)
ArgAdd ==
  /\ pc = "arg_add"
  /\ \/ arg_rows' = arg_rows \cup {ArgRow(idx)} /\ pc' = "arg_put"
     \/ pc' = "error" /\ UNCHANGED arg_rows
  /\ UNCHANGED <<sp_rows, linked, code_rows, saved, taken, au, au_save, mop_list,
                 CallVars, has_sp, idx, ret>>

\* set_put_element (param, i++, &v), lines 489-496
ArgPut ==
  /\ pc = "arg_put"
  /\ \/ idx' = idx + 1 /\ pc' = "arg_check"
     \/ pc' = "error" /\ UNCHANGED idx
  /\ UNCHANGED <<CatalogVars, saved, taken, au, au_save, mop_list, CallVars, has_sp, ret>>

\* the puts of args, arg_count, lang, target_class, target_method, owner
\* and comment, lines 498-557
PutRest == Step("put_rest", "finish")

\* dbt_finish_object, lines 559-566
FinishObject == Step("finish", "flush")

\* mutant: the reverse loop starts at i instead of i - 1
FlushObjectKeepIndex ==
  /\ pc = "flush"
  /\ \/ /\ \A r \in sp_rows : r.name # cur
        /\ sp_rows' = sp_rows \cup {[name |-> cur, call |-> ncall]}
        /\ pc' = "link"
        /\ UNCHANGED idx
     \/ pc' = "error" /\ UNCHANGED <<sp_rows, idx>>
  /\ UNCHANGED <<arg_rows, linked, code_rows, saved, taken, au, au_save, mop_list,
                 CallVars, has_sp, ret>>

\* locator_flush_instance of the procedure row, lines 568-575; a failed
\* flush (a second row with the same unique_name among its causes)
\* deletes the object; on success the reverse loop starts at i - 1
\* (line 578)
FlushObject ==
  /\ pc = "flush"
  /\ \/ /\ \A r \in sp_rows : r.name # cur
        /\ sp_rows' = sp_rows \cup {[name |-> cur, call |-> ncall]}
        /\ idx' = idx - 1
        /\ pc' = "link"
     \/ pc' = "error" /\ UNCHANGED <<sp_rows, idx>>
  /\ UNCHANGED <<arg_rows, linked, code_rows, saved, taken, au, au_save, mop_list,
                 CallVars, has_sp, ret>>

\* one round of the reverse loop, lines 577-613: the argument row gets
\* sp_of; dbt_edit_object, the put or dbt_finish_object may fail, and a
\* failed flush deletes the argument row
LinkArg ==
  /\ pc = "link"
  /\ idx >= 0
  /\ \/ linked' = linked \cup {ArgRow(idx)} /\ idx' = idx - 1
        /\ UNCHANGED <<arg_rows, pc>>
     \/ pc' = "error" /\ UNCHANGED <<arg_rows, linked, idx>>
     \/ arg_rows' = arg_rows \ {ArgRow(idx)} /\ pc' = "error"
        /\ UNCHANGED <<linked, idx>>
  /\ UNCHANGED <<sp_rows, code_rows, saved, taken, au, au_save, mop_list, CallVars,
                 has_sp, ret>>

\* mutant: the success path returns without AU_ENABLE
LinkDoneNoAuEnable ==
  /\ pc = "link"
  /\ idx < 0
  /\ mop_list' = FALSE
  /\ ret' = "NO_ERROR" /\ pc' = "ret"
  /\ UNCHANGED <<CatalogVars, saved, taken, au, au_save, CallVars, has_sp, idx>>

\* the loop ends: free (mop_list), AU_ENABLE, NO_ERROR, lines 614-619
LinkDone ==
  /\ pc = "link"
  /\ idx < 0
  /\ mop_list' = FALSE
  /\ au' = au_save
  /\ ret' = "NO_ERROR" /\ pc' = "ret"
  /\ UNCHANGED <<CatalogVars, saved, taken, au_save, CallVars, has_sp, idx>>

\* mutant: the error label does not go back to the savepoint
ErrorPathNoRollback ==
  /\ pc = "error"
  /\ au' = au_save
  /\ ret' = "ERROR" /\ pc' = "ret"
  /\ UNCHANGED <<CatalogVars, saved, taken, au_save, mop_list, CallVars, has_sp, idx>>

\* the error label, lines 621-640: the sequence is freed, the template
\* aborted, AU_ENABLE; mop_list is not freed.  With has_savepoint the
\* transaction goes back to the latest savepoint of that name, taken by
\* this call or, if it failed before line 367, by an earlier one; with
\* none the abort does nothing
ErrorPath ==
  /\ pc = "error"
  /\ \/ /\ has_sp /\ saved # NoSavepoint
        /\ sp_rows' = saved.sp /\ arg_rows' = saved.args
        /\ linked' = saved.linked /\ code_rows' = saved.code
     \/ (~has_sp \/ saved = NoSavepoint) /\ UNCHANGED CatalogVars
  /\ au' = au_save
  /\ ret' = "ERROR" /\ pc' = "ret"
  /\ UNCHANGED <<saved, taken, au_save, mop_list, CallVars, has_sp, idx>>

-----------------------------------------------------------------------------
(* Entry points *)

\* sp_add_stored_procedure (info), lines 338-342: with a savepoint
AddStoredProcedure(p) ==
  /\ pc = "idle"
  /\ call' = "add" /\ before' = Catalog
  /\ StartInternal(p, TRUE)
  /\ UNCHANGED <<CatalogVars, saved, au, au_save, mop_list, installed, inst_k,
                 ret, code>>

\* sp_builtin_install, lines 285-297: sp_builtin_init, then every built-in
\* is added without a savepoint; called once, when the database is created
BuiltinInstall ==
  /\ pc = "idle"
  /\ ~installed
  /\ ncall + Len(BuiltinOrder) <= MaxCalls
  /\ installed' = TRUE /\ call' = "install" /\ inst_k' = 1 /\ before' = Catalog
  /\ StartInternal(BuiltinOrder[1], FALSE)
  /\ UNCHANGED <<CatalogVars, saved, au, au_save, mop_list, ret, code>>

\* the loop goes on whatever the call returned, lines 290-294
InstallNext ==
  /\ pc = "ret" /\ call = "install"
  /\ inst_k < Len(BuiltinOrder)
  /\ inst_k' = inst_k + 1
  /\ StartInternal(BuiltinOrder[inst_k + 1], FALSE)
  /\ UNCHANGED <<CatalogVars, saved, au, au_save, mop_list, call, installed,
                 ret, before, code>>

\* return error, line 296: the value of the last call
InstallDone ==
  /\ pc = "ret" /\ call = "install"
  /\ inst_k = Len(BuiltinOrder)
  /\ pc' = "install_ret"
  /\ UNCHANGED <<CatalogVars, saved, taken, au, au_save, mop_list, CallVars, has_sp,
                 idx, ret>>

\* sp_add_stored_procedure_code, lines 769-884: every step may fail; a
\* row whose flush failed is deleted again
AddStoredProcedureCode(c) ==
  /\ pc = "idle"
  /\ \/ code_rows' = code_rows \cup {c} /\ ret' = "NO_ERROR"
     \/ UNCHANGED code_rows /\ ret' = "ERROR"
  /\ call' = "add_code" /\ code' = c /\ before' = Catalog /\ pc' = "ret"
  /\ UNCHANGED <<sp_rows, arg_rows, linked, saved, taken, au, au_save, mop_list, cur,
                 ncall, installed, inst_k, has_sp, idx>>

\* sp_edit_stored_procedure_code, lines 886-961: dbt_edit_object, a put or
\* dbt_finish_object may fail and leave the row; a failed flush calls
\* obj_delete on the object being edited
EditStoredProcedureCode(c) ==
  /\ pc = "idle"
  /\ c \in code_rows
  /\ \/ ret' = "NO_ERROR" /\ UNCHANGED code_rows
     \/ ret' = "ERROR" /\ UNCHANGED code_rows
     \/ ret' = "ERROR" /\ code_rows' = code_rows \ {c}
  /\ call' = "edit_code" /\ code' = c /\ before' = Catalog /\ pc' = "ret"
  /\ UNCHANGED <<sp_rows, arg_rows, linked, saved, taken, au, au_save, mop_list, cur,
                 ncall, installed, inst_k, has_sp, idx>>

\* the transaction of the calls commits, which drops its savepoints
TranCommit ==
  /\ pc = "idle"
  /\ saved' = NoSavepoint
  /\ UNCHANGED <<CatalogVars, taken, au, au_save, mop_list, pc, CallVars,
                 has_sp, idx, ret>>

\* the caller gets the value returned
Return ==
  \/ pc = "ret" /\ call \in {"add", "add_code", "edit_code"}
  \/ pc = "install_ret"

ReturnToCaller ==
  /\ Return
  /\ pc' = "idle" /\ call' = "idle"
  /\ UNCHANGED <<CatalogVars, saved, taken, au, au_save, mop_list, cur, ncall, has_sp,
                 idx, installed, inst_k, ret, before, code>>

Next ==
  \/ FindClass \/ Savepoint \/ CreateTemplate \/ PutAttributes
  \/ CreateArgSequence \/ ArgCheck \/ ArgsDone \/ ArgAdd \/ ArgPut
  \/ PutRest \/ FinishObject \/ FlushObject \/ LinkArg \/ LinkDone
  \/ ErrorPath
  \/ \E p \in UserProcs : AddStoredProcedure(p)
  \/ BuiltinInstall \/ InstallNext \/ InstallDone
  \/ \E c \in CodeIds : AddStoredProcedureCode(c) \/ EditStoredProcedureCode(c)
  \/ ReturnToCaller \/ TranCommit

Spec == Init /\ [][Next]_vars

-----------------------------------------------------------------------------
(* Properties *)

\* procedure p was added by call n: its row exists and so does each of its
\* argument rows, with sp_of set
FullyAdded(p, n) ==
  /\ [name |-> p, call |-> n] \in sp_rows
  /\ \A i \in 0..(Len(ArgsOf(p)) - 1) :
       [sp |-> p, idx |-> i, call |-> n] \in arg_rows \cap linked

\* sp_add_stored_procedure_internal is all or nothing once it holds its
\* savepoint: NO_ERROR means the procedure row and every argument row
\* linked to it are in the catalog, and an error after the savepoint is
\* taken leaves the catalog as it was before the call, whichever of the
\* later steps failed.
AddAllOrNothing ==
  /\ pc = "ret" /\ call \in {"add", "install"} /\ ret = "NO_ERROR"
       => FullyAdded(cur, ncall)
  /\ pc = "ret" /\ call = "add" /\ ret = "ERROR" /\ taken
       => Catalog = before

\* A failed sp_add_stored_procedure never removes rows that were in the
\* catalog before it (spec: catalog failures are returned locally).
FailedAddKeepsCatalog ==
  pc = "ret" /\ call = "add" /\ ret = "ERROR" =>
    /\ before.sp \subseteq sp_rows
    /\ before.args \subseteq arg_rows
    /\ before.code \subseteq code_rows

\* Every return restores the authorization state AU_DISABLE saved, on the
\* success path and on the error label alike.
AuRestored ==
  pc = "idle" => au = FALSE

\* sp_builtin_install returns NO_ERROR only if every built-in procedure is
\* in the catalog (its assert (error == NO_ERROR) after each call).
InstallReportsFailure ==
  pc = "install_ret" /\ ret = "NO_ERROR" =>
    \A k \in 1..Len(BuiltinOrder) : \E n \in 1..MaxCalls : FullyAdded(BuiltinOrder[k], n)

\* The mop_list block malloc'ed for the argument objects is freed on
\* every path out of sp_add_stored_procedure_internal.
MopListFreed ==
  pc = "idle" => ~mop_list

\* A failed sp_edit_stored_procedure_code leaves the code row it was
\* editing in the catalog (spec: catalog failures are returned to the
\* caller and change nothing else).
EditFailureKeepsRow ==
  pc = "ret" /\ call = "edit_code" /\ ret = "ERROR" => code \in code_rows

=============================================================================
