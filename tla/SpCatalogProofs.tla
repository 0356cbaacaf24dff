--------------------------- MODULE SpCatalogProofs ---------------------------
(***************************************************************************)
(* Proofs about the stored-procedure catalog inserts of SpCatalog, for     *)
(* every set of user procedures and argument lists and every bound on the *)
(* calls.                                                                  *)
(***************************************************************************)
EXTENDS SpCatalog, TLAPS

\* the argument count of the procedure being added
NArgs == Len(ArgsOf(cur))

\* argument rows 0 .. k - 1 of the running call were created
ArgsCreated(k) == \A i \in 0..(k - 1) : ArgRow(i) \in arg_rows

\* the steps of sp_add_stored_procedure_internal before the argument loop
PreludeSteps == {"find_class", "savepoint", "create_tmpl", "put_attrs", "create_seq"}

\* the steps during which a call of sp_add_stored_procedure_internal runs
InternalSteps == Steps \ {"idle", "ret", "install_ret"}

(***************************************************************************)
(* The inductive invariant.  AuRestored and AddAllOrNothing are not        *)
(* inductive alone:                                                        *)
(*   - the error label restores au from au_save, so au_save must be known  *)
(*     to be FALSE whenever a call runs;                                   *)
(*   - a success return needs every argument row created and linked, which *)
(*     is built up one loop round at a time: the rows 0 .. idx - 1 exist   *)
(*     in the forward loop, all of them from put_rest on, and in the      *)
(*     reverse loop the rows above idx are linked;                         *)
(*   - a failed add goes back to the savepoint, which holds the catalog of *)
(*     the start of the call only because nothing changes the catalog     *)
(*     between the entry and tran_system_savepoint.                        *)
(***************************************************************************)
\* the call being run: its entry point, its count and its starting catalog
CallInv ==
  /\ before \in Catalogs
  /\ pc = "idle" => call = "idle"
  /\ pc \in InternalSteps => ncall \in 1..MaxCalls

\* the authorization state saved by AU_DISABLE is the one of an idle thread
AuInv ==
  /\ au_save = FALSE
  /\ pc \in {"idle", "find_class", "ret", "install_ret"} => au = FALSE

\* the savepoint of an add holds the catalog of the start of the call
SavepointInv ==
  /\ pc \in {"find_class", "savepoint"} => ~taken
  /\ pc = "savepoint" => has_sp
  /\ taken => has_sp
  /\ call = "add" /\ pc \in {"find_class", "savepoint"} => Catalog = before
  /\ call = "add" /\ taken => saved = before

\* the argument rows of the running call, built up by the two loops
ArgsInv ==
  /\ pc \in PreludeSteps => idx = 0
  /\ pc \in {"arg_check", "arg_add"} => idx >= 0 /\ ArgsCreated(idx)
  /\ pc = "arg_add" => idx < NArgs
  /\ pc = "arg_put" => idx \in 0..(NArgs - 1) /\ ArgsCreated(idx + 1)
  /\ pc \in {"put_rest", "finish", "flush"} => idx = NArgs /\ ArgsCreated(NArgs)
  /\ pc = "link" =>
       /\ [name |-> cur, call |-> ncall] \in sp_rows
       /\ idx < NArgs
       /\ ArgsCreated(NArgs)
       /\ \A i \in (idx + 1)..(NArgs - 1) : ArgRow(i) \in linked

IInv == TypeOK /\ CallInv /\ AuInv /\ SavepointInv /\ ArgsInv /\ AddAllOrNothing

-----------------------------------------------------------------------------
(* Facts about the constants *)

\* the built-in table: seven procedures, each named in the table of
\* argument lists
LEMMA BuiltinFacts ==
  /\ Len(BuiltinOrder) = 7
  /\ \A k \in 1..7 : BuiltinOrder[k] \in Names
  <1>1. Len(BuiltinOrder) = 7
    BY DEF BuiltinOrder
  <1>2. \A k \in 1..7 : BuiltinOrder[k] \in Names
    BY DEF BuiltinOrder, Names, BuiltinDefs
  <1>. QED  BY <1>1, <1>2

\* the argument count of a procedure is a natural number
LEMMA ArgCountNat ==
  ASSUME NEW p \in Names
  PROVE  Len(ArgsOf(p)) \in Nat
  <1>1. CASE p \in DOMAIN BuiltinDefs
    BY <1>1 DEF ArgsOf, BuiltinDefs
  <1>2. CASE p \notin DOMAIN BuiltinDefs
    <2>1. UserArgs[p] \in Seq(STRING \X STRING)
      BY <1>2, ArgsAssumption DEF Names
    <2>. QED  BY <1>2, <2>1 DEF ArgsOf
  <1>. QED  BY <1>1, <1>2

\* the row of argument i of call n of procedure p is an argument row
LEMMA ArgRowId ==
  ASSUME NEW p \in Names, NEW i \in 0..(Len(ArgsOf(p)) - 1), NEW n \in 1..MaxCalls
  PROVE  [sp |-> p, idx |-> i, call |-> n] \in ArgRowIds
  BY DEF ArgRowIds

\* a catalog is never the marker of a missing savepoint
LEMMA CatalogNotNone ==
  ASSUME NEW c \in Catalogs
  PROVE  c # NoSavepoint
  BY DEF Catalogs, NoSavepoint

-----------------------------------------------------------------------------
(* The initial state *)

LEMMA InitIInv == Init => IInv
  <1> SUFFICES ASSUME Init PROVE IInv  OBVIOUS
  <1>1. cur \in Names /\ code \in CodeIds /\ before \in Catalogs
    BY BuiltinFacts, CodeAssumption DEF Init, Catalogs, EmptyCatalog
  <1>2. TypeOK
    <2>1. idx \in -1..Len(ArgsOf(cur))
      BY <1>1, ArgCountNat DEF Init
    <2>2. inst_k \in 0..Len(BuiltinOrder) /\ ncall \in 0..MaxCalls
      BY BuiltinFacts, CallsAssumption DEF Init
    <2>3. saved \in Catalogs \cup {NoSavepoint} /\ pc \in Steps
      BY DEF Init, Steps
    <2>. QED  BY <1>1, <2>1, <2>2, <2>3 DEF Init, TypeOK
  <1>. QED
    BY <1>1, <1>2 DEF Init, IInv, CallInv, AuInv, SavepointInv, ArgsInv, InternalSteps,
              PreludeSteps, AddAllOrNothing

-----------------------------------------------------------------------------
(* Each action preserves IInv *)

\* the row of argument i of the running call is an argument row
LEMMA ArgRowType ==
  ASSUME TypeOK, ncall \in 1..MaxCalls, NEW i \in 0..(NArgs - 1)
  PROVE  ArgRow(i) \in ArgRowIds
  BY ArgRowId DEF ArgRow, NArgs, TypeOK

\* the catalog of a well-typed state is a catalog
LEMMA CatalogType ==
  ASSUME TypeOK
  PROVE  Catalog \in Catalogs
  BY DEF TypeOK, Catalog, Catalogs


\* dbt_create_object_internal
LEMMA CreateTemplateIInv ==
  ASSUME IInv, CreateTemplate
  PROVE  IInv'
  <1>1. TypeOK'
    BY DEF IInv, CreateTemplate, Step, TypeOK, Steps, CatalogVars, CallVars
  <1>2. CallInv'
    BY DEF IInv, CreateTemplate, Step, TypeOK, CallInv, InternalSteps, Steps, CatalogVars, CallVars
  <1>3. AuInv'
    BY DEF IInv, CreateTemplate, Step, AuInv, CatalogVars, CallVars
  <1>4. SavepointInv'
    BY DEF IInv, CreateTemplate, Step, SavepointInv, Catalog, CatalogVars, CallVars
  <1>5. ArgsInv'
    BY DEF IInv, CreateTemplate, Step, TypeOK, ArgsInv, PreludeSteps, ArgsCreated, ArgRow, NArgs, CatalogVars, CallVars
  <1>6. AddAllOrNothing'
    BY DEF IInv, CreateTemplate, Step, AddAllOrNothing, FullyAdded, Catalog, CatalogVars, CallVars
  <1>. QED  BY <1>1, <1>2, <1>3, <1>4, <1>5, <1>6 DEF IInv

\* the puts of the procedure attributes
LEMMA PutAttributesIInv ==
  ASSUME IInv, PutAttributes
  PROVE  IInv'
  <1>1. TypeOK'
    BY DEF IInv, PutAttributes, Step, TypeOK, Steps, CatalogVars, CallVars
  <1>2. CallInv'
    BY DEF IInv, PutAttributes, Step, TypeOK, CallInv, InternalSteps, Steps, CatalogVars, CallVars
  <1>3. AuInv'
    BY DEF IInv, PutAttributes, Step, AuInv, CatalogVars, CallVars
  <1>4. SavepointInv'
    BY DEF IInv, PutAttributes, Step, SavepointInv, Catalog, CatalogVars, CallVars
  <1>5. ArgsInv'
    BY DEF IInv, PutAttributes, Step, TypeOK, ArgsInv, PreludeSteps, ArgsCreated, ArgRow, NArgs, CatalogVars, CallVars
  <1>6. AddAllOrNothing'
    BY DEF IInv, PutAttributes, Step, AddAllOrNothing, FullyAdded, Catalog, CatalogVars, CallVars
  <1>. QED  BY <1>1, <1>2, <1>3, <1>4, <1>5, <1>6 DEF IInv

\* AU_DISABLE and db_find_class
LEMMA FindClassIInv ==
  ASSUME IInv, FindClass
  PROVE  IInv'
  <1>1. TypeOK'
    BY DEF IInv, FindClass, TypeOK, Steps, CatalogVars, CallVars
  <1>2. CallInv'
    BY DEF IInv, FindClass, TypeOK, CallInv, InternalSteps, Steps, CatalogVars, CallVars
  <1>3. AuInv'
    BY DEF IInv, FindClass, AuInv, CatalogVars, CallVars
  <1>4. SavepointInv'
    BY DEF IInv, FindClass, SavepointInv, Catalog, CatalogVars, CallVars
  <1>5. ArgsInv'
    BY DEF IInv, FindClass, TypeOK, ArgsInv, PreludeSteps, ArgsCreated, ArgRow, NArgs, CatalogVars, CallVars
  <1>6. AddAllOrNothing'
    BY DEF IInv, FindClass, AddAllOrNothing, FullyAdded, Catalog, CatalogVars, CallVars
  <1>. QED  BY <1>1, <1>2, <1>3, <1>4, <1>5, <1>6 DEF IInv

\* tran_system_savepoint
LEMMA SavepointIInv ==
  ASSUME IInv, Savepoint
  PROVE  IInv'
  <1>1. TypeOK'
    <2>1. saved' \in Catalogs \cup {NoSavepoint} /\ taken' \in BOOLEAN
          /\ pc' \in Steps /\ has_sp' \in BOOLEAN
      BY CatalogType DEF IInv, Savepoint, TypeOK, Steps
    <2>. QED  BY <2>1 DEF IInv, Savepoint, TypeOK, CatalogVars, CallVars
  <1>2. CallInv'
    BY DEF IInv, Savepoint, TypeOK, CallInv, InternalSteps, Steps, CatalogVars, CallVars
  <1>3. AuInv'
    BY DEF IInv, Savepoint, AuInv, CatalogVars, CallVars
  <1>4. SavepointInv'
    <2>1. CASE has_sp' = FALSE /\ pc' = "error" /\ UNCHANGED <<saved, taken>>
      BY <2>1 DEF IInv, Savepoint, SavepointInv, CatalogVars, CallVars
    <2>2. CASE saved' = Catalog /\ taken' = TRUE /\ pc' = "create_tmpl"
               /\ UNCHANGED has_sp
      BY <2>2 DEF IInv, Savepoint, SavepointInv, Catalog, CatalogVars, CallVars
    <2>. QED  BY <2>1, <2>2 DEF Savepoint
  <1>5. ArgsInv'
    BY DEF IInv, Savepoint, TypeOK, ArgsInv, PreludeSteps, ArgsCreated, ArgRow, NArgs, CatalogVars, CallVars
  <1>6. AddAllOrNothing'
    BY DEF IInv, Savepoint, AddAllOrNothing, FullyAdded, Catalog, CatalogVars, CallVars
  <1>. QED  BY <1>1, <1>2, <1>3, <1>4, <1>5, <1>6 DEF IInv

\* set_create_sequence and the malloc of mop_list
LEMMA CreateArgSequenceIInv ==
  ASSUME IInv, CreateArgSequence
  PROVE  IInv'
  <1>1. TypeOK'
    <2>1. mop_list' \in BOOLEAN
      BY DEF IInv, TypeOK, CreateArgSequence
    <2>2. pc' \in Steps
      BY DEF CreateArgSequence, Steps
    <2>. QED
      BY <2>1, <2>2 DEF IInv, CreateArgSequence, TypeOK, CatalogVars, CallVars
  <1>2. CallInv'
    BY DEF IInv, CreateArgSequence, TypeOK, CallInv, InternalSteps, Steps, CatalogVars, CallVars
  <1>3. AuInv'
    BY DEF IInv, CreateArgSequence, AuInv, CatalogVars, CallVars
  <1>4. SavepointInv'
    BY DEF IInv, CreateArgSequence, SavepointInv, Catalog, CatalogVars, CallVars
  <1>5. ArgsInv'
    BY DEF IInv, CreateArgSequence, TypeOK, ArgsInv, PreludeSteps, ArgsCreated, ArgRow, NArgs, CatalogVars, CallVars
  <1>6. AddAllOrNothing'
    BY DEF IInv, CreateArgSequence, AddAllOrNothing, FullyAdded, Catalog, CatalogVars, CallVars
  <1>. QED  BY <1>1, <1>2, <1>3, <1>4, <1>5, <1>6 DEF IInv

\* sp_check_param_type_supported
LEMMA ArgCheckIInv ==
  ASSUME IInv, ArgCheck
  PROVE  IInv'
  <1>1. TypeOK'
    BY DEF IInv, ArgCheck, TypeOK, Steps, CatalogVars, CallVars
  <1>2. CallInv'
    BY DEF IInv, ArgCheck, TypeOK, CallInv, InternalSteps, Steps, CatalogVars, CallVars
  <1>3. AuInv'
    BY DEF IInv, ArgCheck, AuInv, CatalogVars, CallVars
  <1>4. SavepointInv'
    BY DEF IInv, ArgCheck, SavepointInv, Catalog, CatalogVars, CallVars
  <1>5. ArgsInv'
    BY DEF IInv, ArgCheck, TypeOK, ArgsInv, PreludeSteps, ArgsCreated, ArgRow, NArgs, CatalogVars, CallVars
  <1>6. AddAllOrNothing'
    BY DEF IInv, ArgCheck, AddAllOrNothing, FullyAdded, Catalog, CatalogVars, CallVars
  <1>. QED  BY <1>1, <1>2, <1>3, <1>4, <1>5, <1>6 DEF IInv

\* the end of the forward loop
LEMMA ArgsDoneIInv ==
  ASSUME IInv, ArgsDone
  PROVE  IInv'
  <1>1. TypeOK'
    BY DEF IInv, ArgsDone, TypeOK, Steps, CatalogVars, CallVars
  <1>2. CallInv'
    BY DEF IInv, ArgsDone, TypeOK, CallInv, InternalSteps, Steps, CatalogVars, CallVars
  <1>3. AuInv'
    BY DEF IInv, ArgsDone, AuInv, CatalogVars, CallVars
  <1>4. SavepointInv'
    BY DEF IInv, ArgsDone, SavepointInv, Catalog, CatalogVars, CallVars
  <1>5. ArgsInv'
    BY DEF IInv, ArgsDone, TypeOK, ArgsInv, PreludeSteps, ArgsCreated, ArgRow, NArgs, CatalogVars, CallVars
  <1>6. AddAllOrNothing'
    BY DEF IInv, ArgsDone, AddAllOrNothing, FullyAdded, Catalog, CatalogVars, CallVars
  <1>. QED  BY <1>1, <1>2, <1>3, <1>4, <1>5, <1>6 DEF IInv

\* sp_add_stored_procedure_argument
LEMMA ArgAddIInv ==
  ASSUME IInv, ArgAdd
  PROVE  IInv'
  <1>1. TypeOK'
    BY ArgRowType DEF IInv, ArgAdd, TypeOK, Steps, CatalogVars, CallVars, CallInv, InternalSteps, ArgsInv, NArgs
  <1>2. CallInv'
    BY DEF IInv, ArgAdd, TypeOK, CallInv, InternalSteps, Steps, CatalogVars, CallVars
  <1>3. AuInv'
    BY DEF IInv, ArgAdd, AuInv, CatalogVars, CallVars
  <1>4. SavepointInv'
    BY DEF IInv, ArgAdd, SavepointInv, Catalog, CatalogVars, CallVars
  <1>5. ArgsInv'
    BY DEF IInv, ArgAdd, TypeOK, ArgsInv, PreludeSteps, ArgsCreated, ArgRow, NArgs, CatalogVars, CallVars
  <1>6. AddAllOrNothing'
    BY DEF IInv, ArgAdd, AddAllOrNothing, FullyAdded, Catalog, CatalogVars, CallVars
  <1>. QED  BY <1>1, <1>2, <1>3, <1>4, <1>5, <1>6 DEF IInv

\* set_put_element
LEMMA ArgPutIInv ==
  ASSUME IInv, ArgPut
  PROVE  IInv'
  <1>1. TypeOK'
    BY DEF IInv, ArgPut, TypeOK, Steps, CatalogVars, CallVars, ArgsInv, NArgs
  <1>2. CallInv'
    BY DEF IInv, ArgPut, TypeOK, CallInv, InternalSteps, Steps, CatalogVars, CallVars
  <1>3. AuInv'
    BY DEF IInv, ArgPut, AuInv, CatalogVars, CallVars
  <1>4. SavepointInv'
    BY DEF IInv, ArgPut, SavepointInv, Catalog, CatalogVars, CallVars
  <1>5. ArgsInv'
    BY DEF IInv, ArgPut, TypeOK, ArgsInv, PreludeSteps, ArgsCreated, ArgRow, NArgs, CatalogVars, CallVars
  <1>6. AddAllOrNothing'
    BY DEF IInv, ArgPut, AddAllOrNothing, FullyAdded, Catalog, CatalogVars, CallVars
  <1>. QED  BY <1>1, <1>2, <1>3, <1>4, <1>5, <1>6 DEF IInv

\* the puts after the loop
LEMMA PutRestIInv ==
  ASSUME IInv, PutRest
  PROVE  IInv'
  <1>1. TypeOK'
    BY DEF IInv, PutRest, Step, TypeOK, Steps, CatalogVars, CallVars
  <1>2. CallInv'
    BY DEF IInv, PutRest, Step, TypeOK, CallInv, InternalSteps, Steps, CatalogVars, CallVars
  <1>3. AuInv'
    BY DEF IInv, PutRest, Step, AuInv, CatalogVars, CallVars
  <1>4. SavepointInv'
    BY DEF IInv, PutRest, Step, SavepointInv, Catalog, CatalogVars, CallVars
  <1>5. ArgsInv'
    BY DEF IInv, PutRest, Step, TypeOK, ArgsInv, PreludeSteps, ArgsCreated, ArgRow, NArgs, CatalogVars, CallVars
  <1>6. AddAllOrNothing'
    BY DEF IInv, PutRest, Step, AddAllOrNothing, FullyAdded, Catalog, CatalogVars, CallVars
  <1>. QED  BY <1>1, <1>2, <1>3, <1>4, <1>5, <1>6 DEF IInv

\* dbt_finish_object
LEMMA FinishObjectIInv ==
  ASSUME IInv, FinishObject
  PROVE  IInv'
  <1>1. TypeOK'
    BY DEF IInv, FinishObject, Step, TypeOK, Steps, CatalogVars, CallVars
  <1>2. CallInv'
    BY DEF IInv, FinishObject, Step, TypeOK, CallInv, InternalSteps, Steps, CatalogVars, CallVars
  <1>3. AuInv'
    BY DEF IInv, FinishObject, Step, AuInv, CatalogVars, CallVars
  <1>4. SavepointInv'
    BY DEF IInv, FinishObject, Step, SavepointInv, Catalog, CatalogVars, CallVars
  <1>5. ArgsInv'
    BY DEF IInv, FinishObject, Step, TypeOK, ArgsInv, PreludeSteps, ArgsCreated, ArgRow, NArgs, CatalogVars, CallVars
  <1>6. AddAllOrNothing'
    BY DEF IInv, FinishObject, Step, AddAllOrNothing, FullyAdded, Catalog, CatalogVars, CallVars
  <1>. QED  BY <1>1, <1>2, <1>3, <1>4, <1>5, <1>6 DEF IInv

\* locator_flush_instance of the procedure row
LEMMA FlushObjectIInv ==
  ASSUME IInv, FlushObject
  PROVE  IInv'
  <1>1. TypeOK'
    BY DEF IInv, FlushObject, TypeOK, Steps, CatalogVars, CallVars, ArgsInv, NArgs, SpRowIds, CallInv, InternalSteps
  <1>2. CallInv'
    BY DEF IInv, FlushObject, TypeOK, CallInv, InternalSteps, Steps, CatalogVars, CallVars
  <1>3. AuInv'
    BY DEF IInv, FlushObject, AuInv, CatalogVars, CallVars
  <1>4. SavepointInv'
    BY DEF IInv, FlushObject, SavepointInv, Catalog, CatalogVars, CallVars
  <1>5. ArgsInv'
    BY DEF IInv, FlushObject, TypeOK, ArgsInv, PreludeSteps, ArgsCreated, ArgRow, NArgs, CatalogVars, CallVars
  <1>6. AddAllOrNothing'
    BY DEF IInv, FlushObject, AddAllOrNothing, FullyAdded, Catalog, CatalogVars, CallVars
  <1>. QED  BY <1>1, <1>2, <1>3, <1>4, <1>5, <1>6 DEF IInv

\* one round of the reverse loop
LEMMA LinkArgIInv ==
  ASSUME IInv, LinkArg
  PROVE  IInv'
  <1>1. TypeOK'
    <2>1. idx \in 0..NArgs /\ idx - 1 \in -1..Len(ArgsOf(cur))
      BY DEF IInv, LinkArg, TypeOK, ArgsInv, NArgs
    <2>2. arg_rows' \in SUBSET ArgRowIds /\ linked' \in SUBSET ArgRowIds
      BY ArgRowType, <2>1 DEF IInv, LinkArg, TypeOK, CallInv, InternalSteps, Steps,
                             ArgsInv, NArgs
    <2>. QED
      BY <2>1, <2>2 DEF IInv, LinkArg, TypeOK, Steps, CatalogVars, CallVars
  <1>2. CallInv'
    BY DEF IInv, LinkArg, TypeOK, CallInv, InternalSteps, Steps, CatalogVars, CallVars
  <1>3. AuInv'
    BY DEF IInv, LinkArg, AuInv, CatalogVars, CallVars
  <1>4. SavepointInv'
    BY DEF IInv, LinkArg, SavepointInv, Catalog, CatalogVars, CallVars
  <1>5. ArgsInv'
    BY DEF IInv, LinkArg, TypeOK, ArgsInv, PreludeSteps, ArgsCreated, ArgRow, NArgs, CatalogVars, CallVars
  <1>6. AddAllOrNothing'
    BY DEF IInv, LinkArg, AddAllOrNothing, FullyAdded, Catalog, CatalogVars, CallVars
  <1>. QED  BY <1>1, <1>2, <1>3, <1>4, <1>5, <1>6 DEF IInv

\* the success return
LEMMA LinkDoneIInv ==
  ASSUME IInv, LinkDone
  PROVE  IInv'
  <1>1. TypeOK'
    BY DEF IInv, LinkDone, TypeOK, Steps, CatalogVars, CallVars
  <1>2. CallInv'
    BY DEF IInv, LinkDone, TypeOK, CallInv, InternalSteps, Steps, CatalogVars, CallVars
  <1>3. AuInv'
    BY DEF IInv, LinkDone, AuInv, CatalogVars, CallVars
  <1>4. SavepointInv'
    BY DEF IInv, LinkDone, SavepointInv, Catalog, CatalogVars, CallVars
  <1>5. ArgsInv'
    BY DEF IInv, LinkDone, TypeOK, ArgsInv, PreludeSteps, ArgsCreated, ArgRow, NArgs, CatalogVars, CallVars
  <1>6. AddAllOrNothing'
    <2>1. idx = -1
      BY DEF IInv, LinkDone, TypeOK
    <2>2. FullyAdded(cur, ncall)
      BY <2>1 DEF IInv, LinkDone, ArgsInv, ArgsCreated, ArgRow, NArgs, FullyAdded
    <2>. QED
      BY <2>2 DEF LinkDone, AddAllOrNothing, FullyAdded, CatalogVars, CallVars
  <1>. QED  BY <1>1, <1>2, <1>3, <1>4, <1>5, <1>6 DEF IInv

\* the error label
LEMMA ErrorPathIInv ==
  ASSUME IInv, ErrorPath
  PROVE  IInv'
  <1>1. TypeOK'
    BY DEF IInv, ErrorPath, TypeOK, Steps, CatalogVars, CallVars, Catalogs
  <1>2. CallInv'
    BY DEF IInv, ErrorPath, TypeOK, CallInv, InternalSteps, Steps, CatalogVars, CallVars
  <1>3. AuInv'
    BY DEF IInv, ErrorPath, AuInv, CatalogVars, CallVars
  <1>4. SavepointInv'
    BY DEF IInv, ErrorPath, SavepointInv, Catalog, CatalogVars, CallVars
  <1>5. ArgsInv'
    BY DEF IInv, ErrorPath, TypeOK, ArgsInv, PreludeSteps, ArgsCreated, ArgRow, NArgs, CatalogVars, CallVars
  <1>6. AddAllOrNothing'
    <2>1. ret' = "ERROR" /\ UNCHANGED <<taken, CallVars>>
      BY DEF ErrorPath
    <2>2. ASSUME call = "add", taken
          PROVE  Catalog' = before
      <3>1. has_sp /\ saved = before /\ before \in Catalogs
        BY <2>2 DEF IInv, SavepointInv, CallInv
      <3>2. saved # NoSavepoint
        BY <3>1, CatalogNotNone
      <3>3. sp_rows' = saved.sp /\ arg_rows' = saved.args
            /\ linked' = saved.linked /\ code_rows' = saved.code
        BY <3>1, <3>2 DEF ErrorPath
      <3>. QED  BY <3>1, <3>3 DEF Catalog, Catalogs
    <2>. QED
      BY <2>1, <2>2 DEF AddAllOrNothing, CallVars
  <1>. QED  BY <1>1, <1>2, <1>3, <1>4, <1>5, <1>6 DEF IInv

\* sp_add_stored_procedure
LEMMA AddStoredProcedureIInv ==
  ASSUME IInv, NEW p \in UserProcs, AddStoredProcedure(p)
  PROVE  IInv'
  <1>1. TypeOK'
    <2>1. cur' \in Names /\ ncall' \in 0..MaxCalls
      BY CallsAssumption DEF IInv, AddStoredProcedure, StartInternal, TypeOK, Names
    <2>2. Len(ArgsOf(cur')) \in Nat
      BY <2>1, ArgCountNat
    <2>3. idx' \in -1..Len(ArgsOf(cur')) /\ pc' \in Steps
      BY <2>2 DEF AddStoredProcedure, StartInternal, Steps
    <2>. QED
      BY <2>1, <2>3 DEF IInv, AddStoredProcedure, StartInternal, TypeOK,
                       CatalogVars, CallVars
  <1>2. CallInv'
    BY CatalogType, CallsAssumption DEF IInv, AddStoredProcedure, StartInternal, TypeOK, CallInv, InternalSteps, Steps, CatalogVars, CallVars
  <1>3. AuInv'
    BY DEF IInv, AddStoredProcedure, StartInternal, AuInv, CatalogVars, CallVars
  <1>4. SavepointInv'
    BY DEF IInv, AddStoredProcedure, StartInternal, SavepointInv, Catalog, CatalogVars, CallVars
  <1>5. ArgsInv'
    BY DEF IInv, AddStoredProcedure, StartInternal, TypeOK, ArgsInv, PreludeSteps, ArgsCreated, ArgRow, NArgs, CatalogVars, CallVars
  <1>6. AddAllOrNothing'
    BY DEF IInv, AddStoredProcedure, StartInternal, AddAllOrNothing, FullyAdded, Catalog, CatalogVars, CallVars
  <1>. QED  BY <1>1, <1>2, <1>3, <1>4, <1>5, <1>6 DEF IInv

\* sp_builtin_install
LEMMA BuiltinInstallIInv ==
  ASSUME IInv, BuiltinInstall
  PROVE  IInv'
  <1>1. TypeOK'
    <2>1. cur' \in Names /\ ncall' \in 0..MaxCalls /\ inst_k' \in 0..Len(BuiltinOrder)
      BY BuiltinFacts, CallsAssumption DEF IInv, BuiltinInstall, StartInternal, TypeOK
    <2>2. Len(ArgsOf(cur')) \in Nat
      BY <2>1, ArgCountNat
    <2>3. idx' \in -1..Len(ArgsOf(cur')) /\ pc' \in Steps
      BY <2>2 DEF BuiltinInstall, StartInternal, Steps
    <2>. QED
      BY <2>1, <2>3 DEF IInv, BuiltinInstall, StartInternal, TypeOK,
                       CatalogVars, CallVars
  <1>2. CallInv'
    BY CatalogType, CallsAssumption DEF IInv, BuiltinInstall, StartInternal, TypeOK, CallInv, InternalSteps, Steps, CatalogVars, CallVars
  <1>3. AuInv'
    BY DEF IInv, BuiltinInstall, StartInternal, AuInv, CatalogVars, CallVars
  <1>4. SavepointInv'
    BY DEF IInv, BuiltinInstall, StartInternal, SavepointInv, Catalog, CatalogVars, CallVars
  <1>5. ArgsInv'
    BY DEF IInv, BuiltinInstall, StartInternal, TypeOK, ArgsInv, PreludeSteps, ArgsCreated, ArgRow, NArgs, CatalogVars, CallVars
  <1>6. AddAllOrNothing'
    BY DEF IInv, BuiltinInstall, StartInternal, AddAllOrNothing, FullyAdded, Catalog, CatalogVars, CallVars
  <1>. QED  BY <1>1, <1>2, <1>3, <1>4, <1>5, <1>6 DEF IInv

\* the next round of the install loop
LEMMA InstallNextIInv ==
  ASSUME IInv, InstallNext
  PROVE  IInv'
  <1>1. TypeOK'
    <2>1. cur' \in Names /\ ncall' \in 0..MaxCalls /\ inst_k' \in 0..Len(BuiltinOrder)
      BY BuiltinFacts, CallsAssumption DEF IInv, InstallNext, StartInternal, TypeOK
    <2>2. Len(ArgsOf(cur')) \in Nat
      BY <2>1, ArgCountNat
    <2>3. idx' \in -1..Len(ArgsOf(cur')) /\ pc' \in Steps
      BY <2>2 DEF InstallNext, StartInternal, Steps
    <2>. QED
      BY <2>1, <2>3 DEF IInv, InstallNext, StartInternal, TypeOK,
                       CatalogVars, CallVars
  <1>2. CallInv'
    BY CallsAssumption DEF IInv, InstallNext, StartInternal, TypeOK, CallInv, InternalSteps, Steps, CatalogVars, CallVars
  <1>3. AuInv'
    BY DEF IInv, InstallNext, StartInternal, AuInv, CatalogVars, CallVars
  <1>4. SavepointInv'
    BY DEF IInv, InstallNext, StartInternal, SavepointInv, Catalog, CatalogVars, CallVars
  <1>5. ArgsInv'
    BY DEF IInv, InstallNext, StartInternal, TypeOK, ArgsInv, PreludeSteps, ArgsCreated, ArgRow, NArgs, CatalogVars, CallVars
  <1>6. AddAllOrNothing'
    BY DEF IInv, InstallNext, StartInternal, AddAllOrNothing, FullyAdded, Catalog, CatalogVars, CallVars
  <1>. QED  BY <1>1, <1>2, <1>3, <1>4, <1>5, <1>6 DEF IInv

\* the end of the install loop
LEMMA InstallDoneIInv ==
  ASSUME IInv, InstallDone
  PROVE  IInv'
  <1>1. TypeOK'
    BY DEF IInv, InstallDone, TypeOK, Steps, CatalogVars, CallVars
  <1>2. CallInv'
    BY DEF IInv, InstallDone, TypeOK, CallInv, InternalSteps, Steps, CatalogVars, CallVars
  <1>3. AuInv'
    BY DEF IInv, InstallDone, AuInv, CatalogVars, CallVars
  <1>4. SavepointInv'
    BY DEF IInv, InstallDone, SavepointInv, Catalog, CatalogVars, CallVars
  <1>5. ArgsInv'
    BY DEF IInv, InstallDone, TypeOK, ArgsInv, PreludeSteps, ArgsCreated, ArgRow, NArgs, CatalogVars, CallVars
  <1>6. AddAllOrNothing'
    BY DEF IInv, InstallDone, AddAllOrNothing, FullyAdded, Catalog, CatalogVars, CallVars
  <1>. QED  BY <1>1, <1>2, <1>3, <1>4, <1>5, <1>6 DEF IInv

\* sp_add_stored_procedure_code
LEMMA AddStoredProcedureCodeIInv ==
  ASSUME IInv, NEW c \in CodeIds, AddStoredProcedureCode(c)
  PROVE  IInv'
  <1>1. TypeOK'
    BY DEF IInv, AddStoredProcedureCode, TypeOK, Steps, CatalogVars, CallVars
  <1>2. CallInv'
    BY CatalogType DEF IInv, AddStoredProcedureCode, TypeOK, CallInv, InternalSteps, Steps, CatalogVars, CallVars
  <1>3. AuInv'
    BY DEF IInv, AddStoredProcedureCode, AuInv, CatalogVars, CallVars
  <1>4. SavepointInv'
    BY DEF IInv, AddStoredProcedureCode, SavepointInv, Catalog, CatalogVars, CallVars
  <1>5. ArgsInv'
    BY DEF IInv, AddStoredProcedureCode, TypeOK, ArgsInv, PreludeSteps, ArgsCreated, ArgRow, NArgs, CatalogVars, CallVars
  <1>6. AddAllOrNothing'
    BY DEF IInv, AddStoredProcedureCode, AddAllOrNothing, FullyAdded, Catalog, CatalogVars, CallVars
  <1>. QED  BY <1>1, <1>2, <1>3, <1>4, <1>5, <1>6 DEF IInv

\* sp_edit_stored_procedure_code
LEMMA EditStoredProcedureCodeIInv ==
  ASSUME IInv, NEW c \in CodeIds, EditStoredProcedureCode(c)
  PROVE  IInv'
  <1>1. TypeOK'
    BY DEF IInv, EditStoredProcedureCode, TypeOK, Steps, CatalogVars, CallVars
  <1>2. CallInv'
    BY CatalogType DEF IInv, EditStoredProcedureCode, TypeOK, CallInv, InternalSteps, Steps, CatalogVars, CallVars
  <1>3. AuInv'
    BY DEF IInv, EditStoredProcedureCode, AuInv, CatalogVars, CallVars
  <1>4. SavepointInv'
    BY DEF IInv, EditStoredProcedureCode, SavepointInv, Catalog, CatalogVars, CallVars
  <1>5. ArgsInv'
    BY DEF IInv, EditStoredProcedureCode, TypeOK, ArgsInv, PreludeSteps, ArgsCreated, ArgRow, NArgs, CatalogVars, CallVars
  <1>6. AddAllOrNothing'
    BY DEF IInv, EditStoredProcedureCode, AddAllOrNothing, FullyAdded, Catalog, CatalogVars, CallVars
  <1>. QED  BY <1>1, <1>2, <1>3, <1>4, <1>5, <1>6 DEF IInv

\* the commit of the transaction
LEMMA TranCommitIInv ==
  ASSUME IInv, TranCommit
  PROVE  IInv'
  <1>1. TypeOK'
    BY DEF IInv, TranCommit, TypeOK, Steps, CatalogVars, CallVars
  <1>2. CallInv'
    BY DEF IInv, TranCommit, TypeOK, CallInv, InternalSteps, Steps, CatalogVars, CallVars
  <1>3. AuInv'
    BY DEF IInv, TranCommit, AuInv, CatalogVars, CallVars
  <1>4. SavepointInv'
    BY DEF IInv, TranCommit, SavepointInv, Catalog, CatalogVars, CallVars, CallInv
  <1>5. ArgsInv'
    BY DEF IInv, TranCommit, TypeOK, ArgsInv, PreludeSteps, ArgsCreated, ArgRow, NArgs, CatalogVars, CallVars
  <1>6. AddAllOrNothing'
    BY DEF IInv, TranCommit, AddAllOrNothing, FullyAdded, Catalog, CatalogVars, CallVars
  <1>. QED  BY <1>1, <1>2, <1>3, <1>4, <1>5, <1>6 DEF IInv

\* the return to the caller
LEMMA ReturnToCallerIInv ==
  ASSUME IInv, ReturnToCaller
  PROVE  IInv'
  <1>1. TypeOK'
    BY DEF IInv, ReturnToCaller, Return, TypeOK, Steps, CatalogVars, CallVars
  <1>2. CallInv'
    BY DEF IInv, ReturnToCaller, Return, TypeOK, CallInv, InternalSteps, Steps, CatalogVars, CallVars
  <1>3. AuInv'
    BY DEF IInv, ReturnToCaller, Return, AuInv, CatalogVars, CallVars
  <1>4. SavepointInv'
    BY DEF IInv, ReturnToCaller, Return, SavepointInv, Catalog, CatalogVars, CallVars
  <1>5. ArgsInv'
    BY DEF IInv, ReturnToCaller, Return, TypeOK, ArgsInv, PreludeSteps, ArgsCreated, ArgRow, NArgs, CatalogVars, CallVars
  <1>6. AddAllOrNothing'
    BY DEF IInv, ReturnToCaller, Return, AddAllOrNothing, FullyAdded, Catalog, CatalogVars, CallVars
  <1>. QED  BY <1>1, <1>2, <1>3, <1>4, <1>5, <1>6 DEF IInv

\* a stuttering step
LEMMA StutterIInv ==
  ASSUME IInv, UNCHANGED vars
  PROVE  IInv'
  <1>1. TypeOK'
    BY DEF IInv, vars, TypeOK
  <1>2. CallInv' /\ AuInv' /\ SavepointInv'
    BY DEF IInv, vars, CallInv, InternalSteps, AuInv, SavepointInv, Catalog
  <1>3. ArgsInv'
    BY DEF IInv, vars, ArgsInv, PreludeSteps, ArgsCreated, ArgRow, NArgs
  <1>4. AddAllOrNothing'
    BY DEF IInv, vars, AddAllOrNothing, FullyAdded, Catalog
  <1>. QED  BY <1>1, <1>2, <1>3, <1>4 DEF IInv

LEMMA NextIInv == IInv /\ [Next]_vars => IInv'
  <1> SUFFICES ASSUME IInv, [Next]_vars PROVE IInv'  OBVIOUS
  <1>1. CASE CreateTemplate \/ PutAttributes \/ PutRest \/ FinishObject
    BY <1>1, CreateTemplateIInv, PutAttributesIInv, PutRestIInv, FinishObjectIInv
  <1>2. CASE FindClass \/ Savepoint \/ CreateArgSequence
    BY <1>2, FindClassIInv, SavepointIInv, CreateArgSequenceIInv
  <1>3. CASE ArgCheck \/ ArgsDone \/ ArgAdd \/ ArgPut
    BY <1>3, ArgCheckIInv, ArgsDoneIInv, ArgAddIInv, ArgPutIInv
  <1>4. CASE FlushObject \/ LinkArg \/ LinkDone \/ ErrorPath
    BY <1>4, FlushObjectIInv, LinkArgIInv, LinkDoneIInv, ErrorPathIInv
  <1>5. CASE \E p \in UserProcs : AddStoredProcedure(p)
    BY <1>5, AddStoredProcedureIInv
  <1>6. CASE BuiltinInstall \/ InstallNext \/ InstallDone
    BY <1>6, BuiltinInstallIInv, InstallNextIInv, InstallDoneIInv
  <1>7. CASE \E c \in CodeIds : AddStoredProcedureCode(c) \/ EditStoredProcedureCode(c)
    BY <1>7, AddStoredProcedureCodeIInv, EditStoredProcedureCodeIInv
  <1>8. CASE ReturnToCaller \/ TranCommit
    BY <1>8, ReturnToCallerIInv, TranCommitIInv
  <1>9. CASE UNCHANGED vars
    BY <1>9, StutterIInv
  <1>. QED  BY <1>1, <1>2, <1>3, <1>4, <1>5, <1>6, <1>7, <1>8, <1>9 DEF Next

LEMMA SpecIInv == Spec => []IInv
  BY InitIInv, NextIInv, PTL DEF Spec

-----------------------------------------------------------------------------
(* Theorems *)

\* Every reachable state of the catalog calls is well typed: the rows are
\* rows of the catalog's classes, a savepoint holds a catalog, and the
\* loop index stays within the argument list of the procedure being added.
THEOREM CatalogTypeCorrect == Spec => []TypeOK
  BY SpecIInv, PTL DEF IInv

\* Whichever entry point ran and whichever of its steps failed, the
\* authorization state is back on (Au_disable FALSE) when the call has
\* returned: AU_DISABLE saves it in a thread that holds it off, and the
\* success return and the error label both restore the saved value.
THEOREM AuRestoredInvariant == Spec => []AuRestored
  <1>1. IInv => AuRestored
    BY DEF IInv, AuInv, AuRestored
  <1>. QED  BY <1>1, SpecIInv, PTL

\* sp_add_stored_procedure_internal is all or nothing once it holds its
\* savepoint: for every set of procedures and argument lists, a NO_ERROR
\* return leaves the procedure row and all its argument rows linked, and
\* a failure after the savepoint leaves the catalog as it was.
THEOREM AllOrNothingInvariant == Spec => []AddAllOrNothing
  BY SpecIInv, PTL DEF IInv

=============================================================================
