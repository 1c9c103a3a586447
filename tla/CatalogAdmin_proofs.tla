------------------------ MODULE CatalogAdmin_proofs ------------------------
(***************************************************************************)
(* For any catalog, and any number of calls of the admin and orders of the *)
(* resellers: references hold (ReferencesHold of CatalogAdmin), a form     *)
(* stores its rows once and is not closed before (RowsStoredOnce,          *)
(* FormIsKept), and a call changes what it names (TitleIsWhatChanges).     *)
(*                                                                         *)
(* A handler looks and writes in different statements, so what it saw is   *)
(* not an argument; the condition each foreign key puts on the write is.   *)
(* The rest of the invariant is about what a call captured when it was     *)
(* sent: the product it names, wherever its handler needs one, is a        *)
(* product, although the dialog it came from may be closed by then.        *)
(*                                                                         *)
(* The second part keeps book of the rows of each form: those stored and   *)
(* those its saves in flight may still store are no more than it was       *)
(* submitted with (BookInv), unless it was submitted again.                *)
(***************************************************************************)
EXTENDS CatalogAdmin, TLAPS

TableType ==
  /\ product \in [Products -> [there : {"unborn", "there", "gone"},
                               category : Categories \cup {None}, active : BOOLEAN]]
  /\ variant \in [Variants -> [of : Products \cup {None}, months : Int]]
  /\ category \in [Categories -> {"unborn", "there", "gone"}]

FormType ==
  form \in [open : BOOLEAN, product : Products \cup {None, New},
            category : Categories \cup {None}, rows : Seq(Int)]

DialogType ==
  /\ target \in Products \cup {None}
  /\ manager \in [open : BOOLEAN, product : Products \cup {None},
                  list : SUBSET Variants, editing : Variants \cup {None, New}]
  /\ manager.open => manager.product \in Products
  /\ catForm \in Categories \cup {None, New}

CallType ==
  [op : {"save", "delete", "open", "variant", "unvariant", "relist", "category", "uncategory"},
   product : Products \cup {None, New}, variant : Variants \cup {None, New},
   category : Categories \cup {None, New},
   at : {"sent", "rows", "deactivate", "remove"}, rows : Seq(Int), form : Int]

\* What the handler of a call relies on, whatever became of its dialog.
Captured(c) ==
  /\ c \in CallType
  /\ c.op \in {"delete", "open", "variant", "unvariant", "relist"} => c.product \in Products
  /\ c.at = "rows" => c.product \in Products /\ c.rows # <<>>
  /\ c.op = "variant" => c.rows # <<>> /\ c.variant \in Variants \cup {New}
  /\ c.op = "unvariant" => c.variant \in Variants

CallInv ==
  /\ \A c \in calls : Captured(c)
  /\ (\E c \in calls : c.op = "open") => manager.product \in Products

Typed == TableType /\ FormType /\ DialogType /\ CallInv /\ opened \in Int

Inv == Typed /\ ReferencesHold

-----------------------------------------------------------------------------

LEMMA Sentinels ==
  /\ None \notin Products /\ None \notin Variants /\ None \notin Categories
  /\ New \notin Products /\ New \notin Variants /\ New # None
  /\ Products \cap Variants = {}
BY Zenon, CatalogAdminAssumption

LEMMA SameTables == ReferencesHold /\ UNCHANGED tables => ReferencesHold'
BY DEF ReferencesHold, tables, There

LEMMA SameTableType == TableType /\ UNCHANGED tables => TableType'
BY DEF TableType, tables

\* Calls that end, or become another, leave what the others captured.
LEMMA EndInv == ASSUME CallInv, NEW c, End(c), UNCHANGED manager PROVE CallInv'
BY DEF CallInv, End

LEMMA SendInv ==
  ASSUME CallInv, NEW c, Send(c), Captured(c), c.op # "open", UNCHANGED manager
  PROVE  CallInv'
BY DEF CallInv, Send

LEMMA BecomeInv ==
  ASSUME CallInv, NEW c \in calls, NEW d, Become(c, d), Captured(d), d.op # "open",
         manager'.product = manager.product
  PROVE  CallInv'
BY DEF CallInv, Become

\* Whatever a dialog puts in a blank call, the rest of it is typed.
LEMMA NoCallType ==
  NoCall \in [op : {""}, product : {None}, variant : {None}, category : {None},
              at : {"sent"}, rows : Seq(Int), form : Int]
<1>1. <<>> \in Seq(Int) /\ 0 \in Int
  OBVIOUS
<1>2. QED  BY <1>1 DEF NoCall

LEMMA InitInv == Init => Inv
<1> SUFFICES ASSUME Init PROVE Inv  OBVIOUS
<1>0. /\ FirstProduct \in FirstProducts /\ FirstProducts \subseteq Products
      /\ FirstVariant \in Variants /\ FirstCategory \in Categories
  BY Zenon, CatalogAdminAssumption
<1>1. product \in [Products -> [there : {"unborn", "there", "gone"},
                                category : Categories \cup {None}, active : BOOLEAN]]
  BY <1>0 DEF Init, Unborn
<1>2. variant \in [Variants -> [of : Products \cup {None}, months : Int]]
  BY <1>0 DEF Init, Free
<1>3. category \in [Categories -> {"unborn", "there", "gone"}]
  BY DEF Init
<1>4. FormType
  BY DEF Init, FormType, Closed
<1>5. DialogType
  BY DEF Init, DialogType
<1>6. CallInv /\ opened \in Int
  BY DEF Init, CallInv
<1>7. \A p \in Products : There(p) /\ product[p].category # None =>
        category[product[p].category] = "there"
  BY <1>0, Sentinels DEF Init, There, Unborn
<1>8. \A v \in Variants : variant[v].of # None => There(variant[v].of)
  BY <1>0, Sentinels DEF Init, There, Free
<1>9. ordered = {}
  BY DEF Init
<1>10. QED
  BY <1>1, <1>2, <1>3, <1>4, <1>5, <1>6, <1>7, <1>8, <1>9
  DEF Inv, Typed, TableType, ReferencesHold

-----------------------------------------------------------------------------
(* What the admin does changes no table. *)

LEMMA FormStep ==
  ASSUME Inv,
         \/ \E p \in KnownProducts \cup {New} : OpenForm(p)
         \/ \E c \in KnownCategories \cup {None} : ChooseCategory(c)
         \/ \E months \in {0, 1} : AddRow(months)
         \/ RemoveRow \/ CloseForm \/ Submit
  PROVE  Inv'
<1>0. Typed /\ ReferencesHold
  BY DEF Inv
<1>1. UNCHANGED <<tables, target, manager, catForm>>
  BY DEF OpenForm, ChooseCategory, AddRow, EditForm, RemoveRow, CloseForm, Submit, dialogs
<1>2. TableType' /\ ReferencesHold' /\ DialogType'
  BY <1>0, <1>1, SameTables, SameTableType DEF Typed, DialogType
<1>3. FormType' /\ CallInv' /\ opened' \in Int
  <2>1. CASE \E p \in KnownProducts \cup {New} : OpenForm(p)
    <3> PICK p \in KnownProducts \cup {New} : OpenForm(p)  BY <2>1
    <3>1. /\ form' = [open |-> TRUE, product |-> p, rows |-> <<>>,
                      category |-> IF p = New THEN None ELSE product[p].category]
          /\ opened' = opened + 1 /\ UNCHANGED <<calls, manager>>
      BY DEF OpenForm
    <3>2. (IF p = New THEN None ELSE product[p].category) \in Categories \cup {None}
      BY <1>0 DEF KnownProducts, Typed, TableType
    <3>3. p \in Products \cup {None, New}
      BY DEF KnownProducts
    <3>4. FormType'
      BY <3>1, <3>2, <3>3 DEF FormType
    <3>5. QED  BY <1>0, <3>1, <3>4 DEF Typed, CallInv
  <2>2. CASE \E c \in KnownCategories \cup {None} : ChooseCategory(c)
    <3> PICK c \in KnownCategories \cup {None} : ChooseCategory(c)  BY <2>2
    <3>1. form' = [form EXCEPT !.category = c] /\ UNCHANGED <<calls, manager, opened>>
      BY DEF ChooseCategory, EditForm
    <3>2. QED  BY <1>0, <3>1 DEF KnownCategories, Typed, FormType, CallInv
  <2>3. CASE \E months \in {0, 1} : AddRow(months)
    <3> PICK months \in {0, 1} : AddRow(months)  BY <2>3
    <3>1. form' = [form EXCEPT !.rows = Append(form.rows, months)]
          /\ UNCHANGED <<calls, manager, opened>>
      BY DEF AddRow, EditForm
    <3>2. Append(form.rows, months) \in Seq(Int)
      BY <1>0 DEF Typed, FormType
    <3>3. FormType'
      BY <1>0, <3>1, <3>2 DEF Typed, FormType
    <3>4. QED  BY <1>0, <3>1, <3>3 DEF Typed, CallInv
  <2>4. CASE RemoveRow
    <3>1. form.rows # <<>> /\ form' = [form EXCEPT !.rows = Tail(form.rows)]
          /\ UNCHANGED <<calls, manager, opened>>
      BY <2>4 DEF RemoveRow, EditForm
    <3>2. Tail(form.rows) \in Seq(Int)
      BY <1>0, <3>1 DEF Typed, FormType
    <3>3. FormType'
      BY <1>0, <3>1, <3>2 DEF Typed, FormType
    <3>4. QED  BY <1>0, <3>1, <3>3 DEF Typed, CallInv
  <2>5. CASE CloseForm
    BY <1>0, <2>5 DEF CloseForm, Closed, Typed, FormType, CallInv, history
  <2>6. CASE Submit
    <3> DEFINE c == [NoCall EXCEPT !.op = "save", !.product = form.product,
                            !.category = form.category, !.rows = form.rows, !.form = opened]
    <3>1. Send(c) /\ UNCHANGED <<form, manager, opened>>
      BY <2>6 DEF Submit, dialogs
    <3>2. /\ c \in CallType /\ c.op = "save" /\ c.at = "sent"
      BY <1>0, NoCallType DEF CallType, Typed, FormType
    <3>3. Captured(c)
      BY <3>2 DEF Captured
    <3> HIDE DEF c
    <3>4. CallInv'
      BY <1>0, <3>1, <3>2, <3>3, SendInv DEF Typed
    <3>5. QED  BY <1>0, <3>1, <3>4 DEF Typed, FormType
  <2>7. QED  BY <2>1, <2>2, <2>3, <2>4, <2>5, <2>6
<1>4. QED  BY <1>2, <1>3 DEF Inv, Typed

LEMMA DialogStep ==
  ASSUME Inv,
         \/ \E p \in KnownProducts : AskToDelete(p) \/ OpenManager(p)
         \/ KeepProduct \/ Delete \/ CloseManager \/ CancelEdit
         \/ \E v \in Variants \cup {New} : EditVariant(v)
         \/ \E months \in {0, 1} : SaveVariant(months)
         \/ \E v \in Variants : DeleteVariant(v)
  PROVE  Inv'
<1>0. Typed /\ ReferencesHold
  BY DEF Inv
<1>1. UNCHANGED <<tables, form, catForm, opened>>
  BY DEF AskToDelete, OpenManager, KeepProduct, Delete, CloseManager, CancelEdit, EditVariant,
         UseManager, SaveVariant, DeleteVariant, dialogs, history
<1>2. TableType' /\ ReferencesHold' /\ FormType' /\ opened' \in Int
  BY <1>0, <1>1, SameTables, SameTableType DEF Typed, FormType
<1>3. DialogType' /\ CallInv'
  <2>1. CASE \E p \in KnownProducts : AskToDelete(p)
    BY <1>0, <1>1, <2>1 DEF AskToDelete, KnownProducts, Typed, DialogType, CallInv
  <2>2. CASE \E p \in KnownProducts : OpenManager(p)
    <3> PICK p \in KnownProducts : OpenManager(p)  BY <2>2
    <3> DEFINE c == [NoCall EXCEPT !.op = "open", !.product = p]
    <3>1. /\ manager' = [manager EXCEPT !.product = p, !.editing = None]
          /\ Send(c) /\ UNCHANGED target
      BY DEF OpenManager
    <3>2. p \in Products
      BY DEF KnownProducts
    <3>3. c \in CallType /\ c.op = "open" /\ c.product = p /\ c.at = "sent"
      BY <3>2, NoCallType DEF CallType
    <3>4. Captured(c)
      BY <3>2, <3>3 DEF Captured
    <3> HIDE DEF c
    <3>5. DialogType'
      <4>1. manager' \in [open : BOOLEAN, product : Products \cup {None},
                          list : SUBSET Variants, editing : Variants \cup {None, New}]
        BY <1>0, <3>1, <3>2 DEF Typed, DialogType
      <4>2. manager'.product = p
        BY <1>0, <3>1 DEF Typed, DialogType
      <4>3. QED  BY <1>0, <1>1, <3>1, <3>2, <4>1, <4>2 DEF Typed, DialogType
    <3>6. manager'.product = p
      BY <1>0, <3>1 DEF Typed, DialogType
    <3>7. CallInv'
      BY <1>0, <3>1, <3>2, <3>4, <3>6 DEF Typed, CallInv, Send
    <3>8. QED  BY <3>5, <3>7
  <2>3. CASE KeepProduct
    BY <1>0, <1>1, <2>3 DEF KeepProduct, Typed, DialogType, CallInv
  <2>4. CASE Delete
    <3> DEFINE c == [NoCall EXCEPT !.op = "delete", !.product = target]
    <3>1. target # None /\ Send(c) /\ UNCHANGED <<target, manager>>
      BY <2>4 DEF Delete, dialogs
    <3>2. target \in Products
      BY <1>0, <3>1 DEF Typed, DialogType
    <3>3. c \in CallType /\ c.op = "delete" /\ c.product = target /\ c.at = "sent"
      BY <3>2, NoCallType DEF CallType
    <3>4. Captured(c)
      BY <3>2, <3>3 DEF Captured
    <3> HIDE DEF c
    <3>5. CallInv'
      BY <1>0, <3>1, <3>3, <3>4, SendInv DEF Typed
    <3>6. QED  BY <1>0, <1>1, <3>1, <3>5 DEF Typed, DialogType
  <2>5. CASE CloseManager \/ CancelEdit \/ \E v \in Variants \cup {New} : EditVariant(v)
    <3>1. PICK v \in Variants \cup {None, New} :
             /\ \/ manager' = [manager EXCEPT !.open = FALSE]
                \/ manager' = [manager EXCEPT !.editing = v]
             /\ UNCHANGED <<target, calls>>
      BY <2>5 DEF CloseManager, CancelEdit, EditVariant, UseManager
    <3>2. manager' \in [open : BOOLEAN, product : Products \cup {None},
                        list : SUBSET Variants, editing : Variants \cup {None, New}]
      BY <1>0, <3>1 DEF Typed, DialogType
    <3>3. manager'.product = manager.product /\ (manager'.open => manager.open)
      BY <1>0, <3>1 DEF Typed, DialogType
    <3>4. DialogType'
      BY <1>0, <1>1, <3>1, <3>2, <3>3 DEF Typed, DialogType
    <3>5. CallInv'
      BY <1>0, <3>1, <3>3 DEF Typed, CallInv
    <3>6. QED  BY <3>4, <3>5
  <2>6. CASE \E months \in {0, 1} : SaveVariant(months)
    <3> PICK months \in {0, 1} : SaveVariant(months)  BY <2>6
    <3> DEFINE c == [NoCall EXCEPT !.op = "variant", !.product = manager.product,
                            !.variant = manager.editing, !.rows = <<months>>]
    <3>1. /\ manager.open /\ manager.editing # None
          /\ Send(c) /\ UNCHANGED <<target, manager>>
      BY DEF SaveVariant, dialogs
    <3>2. manager.product \in Products /\ manager.editing \in Variants \cup {New}
      BY <1>0, <3>1 DEF Typed, DialogType
    <3>3. <<months>> \in Seq(Int) /\ <<months>> # <<>>
      OBVIOUS
    <3>4. /\ c.op = "variant" /\ c.product = manager.product /\ c.at = "sent"
          /\ c.variant = manager.editing /\ c.rows = <<months>>
      BY NoCallType
    <3>5. c \in CallType
      BY <3>2, <3>3, NoCallType DEF CallType
    <3>6. Captured(c)
      BY <3>2, <3>3, <3>4, <3>5 DEF Captured
    <3> HIDE DEF c
    <3>7. CallInv'
      BY <1>0, <3>1, <3>4, <3>6, SendInv DEF Typed
    <3>8. QED  BY <1>0, <1>1, <3>1, <3>7 DEF Typed, DialogType
  <2>7. CASE \E v \in Variants : DeleteVariant(v)
    <3> PICK v \in Variants : DeleteVariant(v)  BY <2>7
    <3> DEFINE c == [NoCall EXCEPT !.op = "unvariant", !.product = manager.product,
                            !.variant = v]
    <3>1. manager.open /\ Send(c) /\ UNCHANGED <<target, manager>>
      BY DEF DeleteVariant, dialogs
    <3>2. manager.product \in Products
      BY <1>0, <3>1 DEF Typed, DialogType
    <3>3. /\ c \in CallType /\ c.op = "unvariant" /\ c.product = manager.product
          /\ c.at = "sent" /\ c.variant = v
      BY <3>2, NoCallType DEF CallType
    <3>4. Captured(c)
      BY <3>2, <3>3 DEF Captured
    <3> HIDE DEF c
    <3>5. CallInv'
      BY <1>0, <3>1, <3>3, <3>4, SendInv DEF Typed
    <3>6. QED  BY <1>0, <1>1, <3>1, <3>5 DEF Typed, DialogType
  <2>8. QED  BY <2>1, <2>2, <2>3, <2>4, <2>5, <2>6, <2>7
<1>4. QED  BY <1>2, <1>3 DEF Inv, Typed

LEMMA CategoryStep ==
  ASSUME Inv,
         \/ \E c \in KnownCategories \cup {New} : OpenCategory(c)
         \/ \E c \in KnownCategories : DeleteCategory(c)
         \/ CloseCategory \/ SaveCategory
  PROVE  Inv'
<1>0. Typed /\ ReferencesHold
  BY DEF Inv
<1>1. UNCHANGED <<tables, form, target, manager, opened>>
  BY DEF OpenCategory, DeleteCategory, CloseCategory, SaveCategory, dialogs, history
<1>2. TableType' /\ ReferencesHold' /\ FormType' /\ opened' \in Int
  BY <1>0, <1>1, SameTables, SameTableType DEF Typed, FormType
<1>3. DialogType'
  BY <1>0, <1>1 DEF OpenCategory, DeleteCategory, CloseCategory, SaveCategory, dialogs,
                    KnownCategories, Typed, DialogType
<1>4. CallInv'
  <2>1. CASE UNCHANGED calls
    BY <1>0, <1>1, <2>1 DEF Typed, CallInv
  <2>2. CASE SaveCategory
    <3> DEFINE c == [NoCall EXCEPT !.op = "category", !.category = catForm]
    <3>1. Send(c)
      BY <2>2 DEF SaveCategory
    <3>2. c \in CallType /\ c.op = "category" /\ c.at = "sent"
      BY <1>0, NoCallType DEF CallType, Typed, DialogType
    <3>3. Captured(c)
      BY <3>2 DEF Captured
    <3> HIDE DEF c
    <3>4. QED  BY <1>0, <1>1, <3>1, <3>2, <3>3, SendInv DEF Typed
  <2>3. CASE \E k \in KnownCategories : DeleteCategory(k)
    <3> PICK k \in KnownCategories : DeleteCategory(k)  BY <2>3
    <3> DEFINE c == [NoCall EXCEPT !.op = "uncategory", !.category = k]
    <3>1. Send(c)
      BY DEF DeleteCategory
    <3>2. c \in CallType /\ c.op = "uncategory" /\ c.at = "sent"
      BY NoCallType DEF CallType, KnownCategories
    <3>3. Captured(c)
      BY <3>2 DEF Captured
    <3> HIDE DEF c
    <3>4. QED  BY <1>0, <1>1, <3>1, <3>2, <3>3, SendInv DEF Typed
  <2>4. QED  BY <2>1, <2>2, <2>3 DEF OpenCategory, CloseCategory
<1>5. QED  BY <1>2, <1>3, <1>4 DEF Inv, Typed

-----------------------------------------------------------------------------
(* The service: what a handler writes keeps the references *)

Screens == FormType /\ DialogType /\ CallInv /\ opened \in Int

LEMMA ClosedType == ASSUME form' = Closed PROVE FormType'
<1>1. <<>> \in Seq(Int)
  OBVIOUS
<1>2. QED  BY <1>1 DEF FormType, Closed

\* The product form is kept or closed, and its call goes on or ends.
LEMMA ProceedScreens ==
  ASSUME Screens, NEW c \in calls, NEW d, Proceed(c, d),
         d.rows # <<>> => Captured(d) /\ d.op = "save",
         UNCHANGED <<target, manager, catForm, opened>>
  PROVE  Screens'
<1>1. DialogType' /\ opened' \in Int
  BY DEF Screens, DialogType
<1>2. FormType'
  BY ClosedType DEF Screens, Proceed, Saved, NotSaved, AfterFailure, FormType
<1>3. CASE End(c)
  BY <1>1, <1>2, <1>3, EndInv DEF Screens
<1>4. CASE d.rows # <<>> /\ Become(c, d)
  BY <1>1, <1>2, <1>4, BecomeInv DEF Screens
<1>5. QED  BY <1>3, <1>4 DEF Proceed, Saved, NotSaved

LEMMA SaveProductInv ==
  ASSUME Inv, NEW c \in calls, SaveProduct(c) PROVE Inv'
<1>0. TableType /\ ReferencesHold /\ Screens
  BY DEF Inv, Typed, Screens
<1>1. PICK p \in Products :
        /\ product[p] = Unborn \/ There(p)
        /\ product' = [product EXCEPT ![p].there = "there",
                         ![p].category = IF c.category = None THEN @ ELSE c.category]
        /\ Proceed(c, [c EXCEPT !.product = p, !.at = "rows"])
  BY DEF SaveProduct
<1>2. /\ Assignable(c.category) /\ c.op = "save"
      /\ UNCHANGED <<variant, category, ordered, target, manager, catForm, opened>>
  BY DEF SaveProduct
<1> DEFINE k == IF c.category = None THEN product[p].category ELSE c.category
<1>3. k \in Categories \cup {None} /\ (k # None => category[k] = "there")
  <2>1. CASE c.category = None
    <3>1. k = product[p].category
      BY <2>1
    <3>2. product[p].category \in Categories \cup {None}
      BY <1>0 DEF TableType
    <3>3. product[p] = Unborn => product[p].category = None
      BY DEF Unborn
    <3>4. There(p) /\ product[p].category # None => category[product[p].category] = "there"
      BY <1>0 DEF ReferencesHold
    <3>5. QED  BY <1>1, <3>1, <3>2, <3>3, <3>4
  <2>2. CASE c.category # None
    BY <1>2, <2>2 DEF Assignable
  <2>3. QED  BY <2>1, <2>2
<1>4. /\ product' \in [Products -> [there : {"unborn", "there", "gone"},
                                    category : Categories \cup {None}, active : BOOLEAN]]
      /\ product'[p].there = "there" /\ product'[p].category = k
      /\ \A q \in Products \ {p} : product'[q] = product[q]
  BY <1>0, <1>1, <1>3 DEF TableType
<1> HIDE DEF k
<1>5. TableType'
  BY <1>0, <1>2, <1>4 DEF TableType
<1>6. \A q \in Products : There(q) => There(q)'
  BY <1>4 DEF There
<1>7. \A q \in Products : There(q)' /\ product'[q].category # None =>
        category[product'[q].category] = "there"
  BY <1>0, <1>3, <1>4 DEF ReferencesHold, There
<1>8. ReferencesHold'
  BY <1>0, <1>2, <1>6, <1>7 DEF ReferencesHold, TableType
<1>9. Screens'
  <2> DEFINE d == [c EXCEPT !.product = p, !.at = "rows"]
  <2>1. Captured(c)
    BY <1>0 DEF Screens, CallInv
  <2>2. d \in CallType /\ d.op = "save" /\ d.product = p /\ d.at = "rows" /\ d.rows = c.rows
    BY <1>2, <2>1 DEF Captured, CallType
  <2>3. d.rows # <<>> => Captured(d)
    BY <2>2 DEF Captured
  <2>4. Proceed(c, d)
    BY <1>1
  <2> HIDE DEF d
  <2>5. QED  BY <1>0, <1>2, <2>2, <2>3, <2>4, ProceedScreens
<1>10. QED  BY <1>5, <1>8, <1>9 DEF Inv, Typed, Screens

\* A variant is inserted into a product that is there.
LEMMA InsertTables ==
  ASSUME TableType, ReferencesHold, NEW p \in Products, NEW months \in Int,
         Insert(p, months), UNCHANGED <<product, category, ordered>>
  PROVE  TableType' /\ ReferencesHold'
<1> DEFINE v == NextFree(FreeVariants)
<1>1. v \in Variants /\ variant[v] = Free
  BY DEF Insert, NextFree, FreeVariants
<1>2. There(p) /\ variant' = [variant EXCEPT ![v] = [of |-> p, months |-> months]]
  BY DEF Insert
<1> HIDE DEF v
<1>3. /\ variant' \in [Variants -> [of : Products \cup {None}, months : Int]]
      /\ variant'[v].of = p /\ \A w \in Variants \ {v} : variant'[w] = variant[w]
  BY <1>1, <1>2 DEF TableType
<1>4. TableType'
  BY <1>3 DEF TableType
<1>5. p # None
  BY Sentinels
<1>6. ReferencesHold'
  BY <1>2, <1>3, <1>5 DEF ReferencesHold, There
<1>7. QED  BY <1>4, <1>6

LEMMA SaveRowInv ==
  ASSUME Inv, NEW c \in calls, SaveRow(c) PROVE Inv'
<1>0. TableType /\ ReferencesHold /\ Screens /\ Captured(c)
  BY DEF Inv, Typed, Screens, CallInv
<1>1. /\ c.op = "save" /\ c.at = "rows" /\ Insert(c.product, Head(c.rows))
      /\ Proceed(c, [c EXCEPT !.rows = Tail(c.rows)])
      /\ UNCHANGED <<product, category, ordered, target, manager, catForm, opened>>
  BY DEF SaveRow
<1>2. c.product \in Products /\ c.rows \in Seq(Int) /\ c.rows # <<>>
  BY <1>0, <1>1 DEF Captured, CallType
<1>3. Head(c.rows) \in Int /\ Tail(c.rows) \in Seq(Int)
  BY <1>2
<1>4. TableType' /\ ReferencesHold'
  BY <1>0, <1>1, <1>2, <1>3, InsertTables
<1>5. Screens'
  <2> DEFINE d == [c EXCEPT !.rows = Tail(c.rows)]
  <2>1. d \in CallType /\ d.op = "save" /\ d.product = c.product /\ d.at = "rows"
    BY <1>0, <1>1, <1>3 DEF Captured, CallType
  <2>2. d.rows # <<>> => Captured(d)
    BY <1>2, <2>1 DEF Captured
  <2>3. Proceed(c, d)
    BY <1>1
  <2> HIDE DEF d
  <2>4. QED  BY <1>0, <1>1, <2>1, <2>2, <2>3, ProceedScreens
<1>6. QED  BY <1>4, <1>5 DEF Inv, Typed, Screens

LEMMA SaveRefusedInv ==
  ASSUME Inv, NEW c \in calls, SaveRefused(c) PROVE Inv'
<1>0. TableType /\ ReferencesHold /\ Screens
  BY DEF Inv, Typed, Screens
<1>1. End(c) /\ form' = form /\ UNCHANGED <<tables, target, manager, catForm, opened>>
  BY DEF SaveRefused, NotSaved, AfterFailure
<1>2. Screens'
  BY <1>0, <1>1, EndInv DEF Screens, FormType, DialogType
<1>3. QED  BY <1>0, <1>1, <1>2, SameTables, SameTableType DEF Inv, Typed, Screens

\* A call that ends and leaves the form, the manager's product and its list typed.
LEMMA EndScreens ==
  ASSUME Screens, NEW c, End(c), UNCHANGED <<form, manager, opened>>,
         target' \in {None, target}, catForm' \in {None, catForm}
  PROVE  Screens'
BY EndInv DEF Screens, FormType, DialogType

LEMMA LookForOrdersInv ==
  ASSUME Inv, NEW c \in calls, LookForOrders(c) PROVE Inv'
<1>0. TableType /\ ReferencesHold /\ Screens /\ Captured(c)
  BY DEF Inv, Typed, Screens, CallInv
<1> DEFINE d == [c EXCEPT !.at = IF c.product \in ordered THEN "deactivate" ELSE "remove"]
<1>1. /\ c.op = "delete" /\ Become(c, d)
      /\ UNCHANGED <<tables, form, target, manager, catForm, opened>>
  BY DEF LookForOrders, dialogs, history
<1>2. d \in CallType /\ d.op = "delete" /\ d.product = c.product /\ d.at # "rows"
  BY <1>0, <1>1 DEF Captured, CallType
<1>3. Captured(d)
  BY <1>0, <1>1, <1>2 DEF Captured
<1> HIDE DEF d
<1>4. Screens'
  BY <1>0, <1>1, <1>2, <1>3, BecomeInv DEF Screens, FormType, DialogType
<1>5. QED  BY <1>0, <1>1, <1>4, SameTables, SameTableType DEF Inv, Typed, Screens

LEMMA DeactivateInv ==
  ASSUME Inv, NEW c \in calls, Deactivate(c) PROVE Inv'
<1>0. TableType /\ ReferencesHold /\ Screens
  BY DEF Inv, Typed, Screens
<1>1. /\ product' = [product EXCEPT ![c.product].active = FALSE]
      /\ End(c) /\ target' \in {None, target}
      /\ UNCHANGED <<variant, category, ordered, form, manager, catForm, opened>>
  BY DEF Deactivate, Deleted, history
<1>2. /\ product' \in [Products -> [there : {"unborn", "there", "gone"},
                                    category : Categories \cup {None}, active : BOOLEAN]]
      /\ \A q \in Products : /\ product'[q].there = product[q].there
                             /\ product'[q].category = product[q].category
  BY <1>0, <1>1 DEF TableType
<1>3. TableType'
  BY <1>0, <1>1, <1>2 DEF TableType
<1>4. ReferencesHold'
  BY <1>0, <1>1, <1>2 DEF ReferencesHold, There, TableType
<1>5. Screens'
  BY <1>0, <1>1, EndScreens
<1>6. QED  BY <1>3, <1>4, <1>5 DEF Inv, Typed, Screens

\* What is left of a variant that is deleted.
LEMMA BareType ==
  ASSUME NEW r \in [of : Products \cup {None}, months : Int], NEW m \in Int
  PROVE  /\ [r EXCEPT !.of = None, !.months = m] \in [of : Products \cup {None}, months : Int]
         /\ [r EXCEPT !.of = None, !.months = m].of = None
OBVIOUS

\* A product goes with its variants, and nothing refers to either.
LEMMA RemoveProductInv ==
  ASSUME Inv, NEW c \in calls, RemoveProduct(c) PROVE Inv'
<1>0. TableType /\ ReferencesHold /\ Screens /\ Captured(c)
  BY DEF Inv, Typed, Screens, CallInv
<1>1. /\ Unreferred({c.product} \cup VariantsOf(c.product))
      /\ product' = [product EXCEPT ![c.product].there = "gone"]
      /\ variant' = [v \in Variants |->
                       IF variant[v].of = c.product
                       THEN [variant[v] EXCEPT !.of = None, !.months = -1]
                       ELSE variant[v]]
      /\ End(c) /\ target' \in {None, target}
      /\ UNCHANGED <<category, ordered, form, manager, catForm, opened>>
      /\ c.op = "delete"
  BY DEF RemoveProduct, Deleted, history
<1>2. c.product \in Products
  BY <1>0, <1>1 DEF Captured
<1>3. /\ product' \in [Products -> [there : {"unborn", "there", "gone"},
                                    category : Categories \cup {None}, active : BOOLEAN]]
      /\ product'[c.product].there = "gone"
      /\ \A q \in Products \ {c.product} : product'[q] = product[q]
  BY <1>0, <1>1, <1>2 DEF TableType
<1>4. /\ variant' \in [Variants -> [of : Products \cup {None}, months : Int]]
      /\ \A v \in Variants : variant[v].of = c.product => variant'[v].of = None
      /\ \A v \in Variants : variant[v].of # c.product => variant'[v] = variant[v]
  <2> DEFINE bare(v) == [variant[v] EXCEPT !.of = None, !.months = -1]
  <2>1. ASSUME NEW v \in Variants
        PROVE  /\ variant[v] \in [of : Products \cup {None}, months : Int]
               /\ bare(v) \in [of : Products \cup {None}, months : Int]
               /\ bare(v).of = None
    <3>1. variant[v] \in [of : Products \cup {None}, months : Int]
      BY <1>0 DEF TableType
    <3>2. -1 \in Int
      OBVIOUS
    <3>3. QED  BY <3>1, <3>2, BareType, Zenon
  <2>2. \A v \in Variants :
          variant'[v] = IF variant[v].of = c.product THEN bare(v) ELSE variant[v]
    BY <1>1
  <2>3. DOMAIN variant' = Variants /\ variant' = [v \in Variants |-> variant'[v]]
    BY <1>1
  <2> HIDE DEF bare
  <2>4. \A v \in Variants : variant'[v] \in [of : Products \cup {None}, months : Int]
    BY <2>1, <2>2
  <2>5. QED  BY <2>1, <2>2, <2>3, <2>4
<1>5. c.product \notin ordered
  BY <1>1 DEF Unreferred
<1>6. \A v \in Variants \cap ordered : variant[v].of # c.product
  BY <1>1 DEF Unreferred, VariantsOf
<1>7. TableType'
  BY <1>0, <1>1, <1>3, <1>4 DEF TableType
<1>8. \A q \in Products : There(q)' <=> There(q) /\ q # c.product
  BY <1>3 DEF There
<1>9. \A q \in Products : There(q)' /\ product'[q].category # None =>
        category'[product'[q].category] = "there"
  BY <1>0, <1>1, <1>3, <1>8 DEF ReferencesHold
<1>10. \A v \in Variants : variant'[v].of # None => product'[variant'[v].of].there = "there"
  <2> SUFFICES ASSUME NEW v \in Variants, variant'[v].of # None
               PROVE  product'[variant'[v].of].there = "there"
    OBVIOUS
  <2>1. variant[v].of # c.product /\ variant'[v].of = variant[v].of
    BY <1>4
  <2>2. variant[v].of \in Products /\ There(variant[v].of)
    BY <1>0, <2>1 DEF TableType, ReferencesHold
  <2>3. QED  BY <1>3, <2>1, <2>2 DEF There
<1>11. \A q \in Products \cap ordered' : There(q)'
  BY <1>0, <1>1, <1>5, <1>8 DEF ReferencesHold
<1>12. \A v \in Variants \cap ordered' : variant'[v].of # None
  BY <1>0, <1>1, <1>4, <1>6 DEF ReferencesHold
<1>13. ReferencesHold'
  BY <1>9, <1>10, <1>11, <1>12 DEF ReferencesHold, There
<1>14. Screens'
  BY <1>0, <1>1, EndScreens
<1>15. QED  BY <1>7, <1>13, <1>14 DEF Inv, Typed, Screens

LEMMA ManagerInv ==
  ASSUME Inv, NEW c \in calls, ManagerReply(c) \/ Relisted(c) PROVE Inv'
<1>0. TableType /\ ReferencesHold /\ Screens
  BY DEF Inv, Typed, Screens
<1>1. /\ End(c) /\ UNCHANGED <<tables, form, target, catForm, opened>>
  BY DEF ManagerReply, Relisted, history
<1>2. PICK list \in SUBSET Variants :
        \/ c.op = "open" /\ manager' = [manager EXCEPT !.open = TRUE, !.list = list]
        \/ manager' = [manager EXCEPT !.list = list]
  BY DEF ManagerReply, Relisted, VariantsOf
<1>3. c.op = "open" => manager.product \in Products
  BY <1>0 DEF Screens, CallInv
<1>4. /\ manager' \in [open : BOOLEAN, product : Products \cup {None},
                       list : SUBSET Variants, editing : Variants \cup {None, New}]
      /\ manager'.product = manager.product
      /\ manager'.open => manager.open \/ c.op = "open"
  BY <1>0, <1>2 DEF Screens, DialogType
<1>5. DialogType' /\ FormType' /\ opened' \in Int
  BY <1>0, <1>1, <1>3, <1>4 DEF Screens, DialogType, FormType
<1>6. CallInv'
  BY <1>0, <1>1, <1>4 DEF Screens, CallInv, End
<1>7. QED  BY <1>0, <1>1, <1>5, <1>6, SameTables, SameTableType DEF Inv, Typed

\* A call that becomes the request for the list of its product.
LEMMA RelistScreens ==
  ASSUME Screens, NEW c \in calls, c.product \in Products,
         \/ Become(c, [NoCall EXCEPT !.op = "relist", !.product = c.product])
         \/ End(c),
         UNCHANGED <<form, target, catForm, opened>>,
         manager' \in {manager, [manager EXCEPT !.editing = None]}
  PROVE  Screens'
<1>1. /\ manager' \in [open : BOOLEAN, product : Products \cup {None},
                       list : SUBSET Variants, editing : Variants \cup {None, New}]
      /\ manager'.product = manager.product /\ manager'.open = manager.open
  BY DEF Screens, DialogType
<1>2. DialogType' /\ FormType' /\ opened' \in Int
  BY <1>1 DEF Screens, DialogType, FormType
<1> DEFINE d == [NoCall EXCEPT !.op = "relist", !.product = c.product]
<1>3. d \in CallType /\ d.op = "relist" /\ d.product = c.product /\ d.at = "sent"
  BY NoCallType DEF CallType
<1>4. Captured(d)
  BY <1>3 DEF Captured
<1>5. Become(c, d) \/ End(c)
  OBVIOUS
<1> HIDE DEF d
<1>6. CallInv'
  <2>1. CASE Become(c, d)
    BY <1>1, <1>3, <1>4, <2>1, BecomeInv DEF Screens
  <2>2. CASE End(c)
    BY <1>1, <2>2 DEF Screens, CallInv, End
  <2>3. QED  BY <1>5, <2>1, <2>2
<1>7. QED  BY <1>2, <1>6 DEF Screens

LEMMA VariantSavedInv ==
  ASSUME Inv, NEW c \in calls, VariantSaved(c) PROVE Inv'
<1>0. TableType /\ ReferencesHold /\ Screens /\ Captured(c)
  BY DEF Inv, Typed, Screens, CallInv
<1>1. /\ c.op = "variant"
      /\ UNCHANGED <<product, category, ordered, form, target, catForm, opened>>
      /\ \/ Become(c, [NoCall EXCEPT !.op = "relist", !.product = c.product])
         \/ End(c)
      /\ manager' \in {manager, [manager EXCEPT !.editing = None]}
  BY DEF VariantSaved, history
<1>2. c.product \in Products /\ c.rows[1] \in Int /\ c.variant \in Variants \cup {New}
  BY <1>0, <1>1 DEF Captured, CallType
<1>3. Screens'
  BY <1>0, <1>1, <1>2, RelistScreens
<1>4. CASE c.variant = New
  <2>1. Insert(c.product, c.rows[1])
    BY <1>4 DEF VariantSaved
  <2>2. TableType' /\ ReferencesHold'
    BY <1>0, <1>1, <1>2, <2>1, InsertTables
  <2>3. QED  BY <1>3, <2>2 DEF Inv, Typed, Screens
<1>5. CASE c.variant # New
  <2> DEFINE months == IF c.rows[1] = 0 THEN variant[c.variant].months ELSE c.rows[1]
  <2>1. c.variant \in Variants
    BY <1>2, <1>5
  <2>2. months \in Int
    BY <1>0, <1>2, <2>1 DEF TableType
  <2>3. variant' = [variant EXCEPT ![c.variant].months = months]
    BY <1>5 DEF VariantSaved, Update
  <2> HIDE DEF months
  <2>4. /\ variant' \in [Variants -> [of : Products \cup {None}, months : Int]]
        /\ \A v \in Variants : variant'[v].of = variant[v].of
    BY <1>0, <2>1, <2>2, <2>3 DEF TableType
  <2>5. TableType'
    BY <1>0, <1>1, <2>4 DEF TableType
  <2>6. ReferencesHold'
    BY <1>0, <1>1, <2>4 DEF ReferencesHold, There
  <2>7. QED  BY <1>3, <2>5, <2>6 DEF Inv, Typed, Screens
<1>6. QED  BY <1>4, <1>5

\* A variant is deleted only if no order refers to it.
LEMMA VariantDeletedInv ==
  ASSUME Inv, NEW c \in calls, VariantDeleted(c) PROVE Inv'
<1>0. TableType /\ ReferencesHold /\ Screens /\ Captured(c)
  BY DEF Inv, Typed, Screens, CallInv
<1>1. /\ c.op = "unvariant" /\ Unreferred({c.variant})
      /\ variant' = [variant EXCEPT ![c.variant].of = None, ![c.variant].months = -1]
      /\ UNCHANGED <<product, category, ordered, form, target, catForm, manager, opened>>
      /\ \/ Become(c, [NoCall EXCEPT !.op = "relist", !.product = c.product])
         \/ End(c)
  BY DEF VariantDeleted, dialogs, history
<1>2. c.product \in Products /\ c.variant \in Variants
  BY <1>0, <1>1 DEF Captured
<1>3. Screens'
  BY <1>0, <1>1, <1>2, RelistScreens
<1>4. /\ variant' \in [Variants -> [of : Products \cup {None}, months : Int]]
      /\ variant'[c.variant].of = None
      /\ \A v \in Variants \ {c.variant} : variant'[v] = variant[v]
  BY <1>0, <1>1, <1>2 DEF TableType
<1>5. c.variant \notin ordered
  BY <1>1 DEF Unreferred
<1>6. TableType'
  BY <1>0, <1>1, <1>4 DEF TableType
<1>7. ReferencesHold'
  BY <1>0, <1>1, <1>4, <1>5 DEF ReferencesHold, There
<1>8. QED  BY <1>3, <1>6, <1>7 DEF Inv, Typed, Screens

LEMMA CategorySavedInv ==
  ASSUME Inv, NEW c \in calls, CategorySaved(c) PROVE Inv'
<1>0. TableType /\ ReferencesHold /\ Screens
  BY DEF Inv, Typed, Screens
<1>1. PICK k \in Categories : category' = [category EXCEPT ![k] = "there"]
  BY DEF CategorySaved
<1>2. /\ End(c) /\ catForm' \in {None, catForm}
      /\ UNCHANGED <<product, variant, ordered, form, target, manager, opened>>
  BY DEF CategorySaved, history
<1>3. /\ category' \in [Categories -> {"unborn", "there", "gone"}]
      /\ \A j \in Categories : category[j] = "there" => category'[j] = "there"
  BY <1>0, <1>1 DEF TableType
<1>4. TableType'
  BY <1>0, <1>2, <1>3 DEF TableType
<1>5. \A p \in Products : product[p].category \in Categories \cup {None}
  BY <1>0 DEF TableType
<1>6. ReferencesHold'
  BY <1>0, <1>2, <1>3, <1>5 DEF ReferencesHold, There
<1>7. Screens'
  BY <1>0, <1>2, EndScreens
<1>8. QED  BY <1>4, <1>6, <1>7 DEF Inv, Typed, Screens

LEMMA CountItemsInv ==
  ASSUME Inv, NEW c \in calls, CountItems(c) PROVE Inv'
<1>0. TableType /\ ReferencesHold /\ Screens /\ Captured(c)
  BY DEF Inv, Typed, Screens, CallInv
<1> DEFINE d == [c EXCEPT !.at = "remove"]
<1>1. /\ c.op = "uncategory" /\ Become(c, d)
      /\ UNCHANGED <<tables, form, target, manager, catForm, opened>>
  BY DEF CountItems, dialogs, history
<1>2. d \in CallType /\ d.op = "uncategory" /\ d.at = "remove"
  BY <1>0, <1>1 DEF Captured, CallType
<1>3. Captured(d)
  BY <1>2 DEF Captured
<1> HIDE DEF d
<1>4. Screens'
  BY <1>0, <1>1, <1>2, <1>3, BecomeInv DEF Screens, FormType, DialogType
<1>5. QED  BY <1>0, <1>1, <1>4, SameTables, SameTableType DEF Inv, Typed, Screens

\* A category is removed only while no product is assigned to it, whatever was
\* counted before.
LEMMA RemoveCategoryInv ==
  ASSUME Inv, NEW c \in calls, RemoveCategory(c) PROVE Inv'
<1>0. TableType /\ ReferencesHold /\ Screens
  BY DEF Inv, Typed, Screens
<1>1. /\ StillEmpty(c.category) /\ category' = [category EXCEPT ![c.category] = "gone"]
      /\ End(c)
      /\ UNCHANGED <<product, variant, ordered, form, target, manager, catForm, opened>>
  BY DEF RemoveCategory, dialogs, history
<1>2. /\ category' \in [Categories -> {"unborn", "there", "gone"}]
      /\ \A j \in Categories \ {c.category} : category'[j] = category[j]
  BY <1>0, <1>1 DEF TableType
<1>3. \A p \in Products : There(p) => product[p].category # c.category
  BY <1>1 DEF StillEmpty, ItemsOf
<1>4. TableType'
  BY <1>0, <1>1, <1>2 DEF TableType
<1>5. \A p \in Products : product[p].category \in Categories \cup {None}
  BY <1>0 DEF TableType
<1>6. ReferencesHold'
  BY <1>0, <1>1, <1>2, <1>3, <1>5 DEF ReferencesHold, There
<1>7. Screens'
  BY <1>0, <1>1, EndScreens
<1>8. QED  BY <1>4, <1>6, <1>7 DEF Inv, Typed, Screens

LEMMA FailsInv ==
  ASSUME Inv, NEW c \in calls, Fails(c) PROVE Inv'
<1>0. TableType /\ ReferencesHold /\ Screens
  BY DEF Inv, Typed, Screens
<1>1. End(c) /\ UNCHANGED <<tables, form, target, manager, catForm, opened>>
  BY DEF Fails, dialogs, history
<1>2. Screens'
  BY <1>0, <1>1, EndScreens
<1>3. QED  BY <1>0, <1>1, <1>2, SameTables, SameTableType DEF Inv, Typed, Screens

\* What is ordered is there when it is ordered.
LEMMA PlaceOrderInv ==
  ASSUME Inv, NEW p \in Products, NEW v \in Variants, PlaceOrder(p, v) PROVE Inv'
<1>0. Typed /\ ReferencesHold
  BY DEF Inv
<1>1. /\ There(p) /\ variant[v].of = p /\ ordered' = ordered \cup {p, v}
      /\ UNCHANGED <<product, variant, category, form, target, manager, catForm, calls, opened>>
  BY DEF PlaceOrder, dialogs, history
<1>2. Typed'
  BY <1>0, <1>1 DEF Typed, TableType, FormType, DialogType, CallInv
<1>3. p # None /\ p \notin Variants /\ v \notin Products
  BY Sentinels
<1>4. ReferencesHold'
  BY <1>0, <1>1, <1>3 DEF ReferencesHold, There
<1>5. QED  BY <1>2, <1>4 DEF Inv

-----------------------------------------------------------------------------

\* The strengthening is inductive.
THEOREM InvAlways == Spec => []Inv
<1>1. Inv /\ [Next]_vars => Inv'
  <2> SUFFICES ASSUME Inv, [Next]_vars PROVE Inv'  OBVIOUS
  <2>1. CASE UNCHANGED vars
    BY <2>1, SameTables, SameTableType
    DEF vars, dialogs, history, Inv, Typed, FormType, DialogType, CallInv
  <2>2. CASE UseDialogs
    BY <2>2, FormStep, DialogStep, CategoryStep DEF UseDialogs
  <2>3. CASE \E c \in calls : Serve(c)
    BY <2>3, SaveProductInv, SaveRowInv, SaveRefusedInv, LookForOrdersInv, DeactivateInv,
       RemoveProductInv, ManagerInv, VariantSavedInv, VariantDeletedInv, CategorySavedInv,
       CountItemsInv, RemoveCategoryInv, FailsInv
    DEF Serve
  <2>4. CASE \E p \in Products, v \in Variants : PlaceOrder(p, v)
    BY <2>4, PlaceOrderInv
  <2>5. QED  BY <2>1, <2>2, <2>3, <2>4 DEF Next
<1>2. QED  BY <1>1, InitInv, PTL DEF Spec

\* Whatever is deleted and assigned at once, no reference of the catalog dangles
\* and what was ordered stays (the delete handlers of dashboard.rs with the
\* foreign keys), for all values of the constants.
THEOREM CatalogStaysWhole == Spec => []ReferencesHold
<1>1. Inv => ReferencesHold
  BY DEF Inv
<1>2. QED  BY <1>1, InvAlways, PTL
-----------------------------------------------------------------------------
(* What a form stores *)

Saves == {c \in calls : c.op = "save"}
RowsOf(c) == stored[c.form] + Len(c.rows)

BookTypes ==
  /\ opened \in 0..Forms /\ (form.open => opened # 0)
  /\ stored \in [1..Forms -> Nat] /\ owed \in [1..Forms -> Nat]

\* There is one save at most. What it has stored and is to store is what was owed
\* when its form was first submitted; and it is all that the form shows, if the form
\* was neither opened nor edited meanwhile.
InFlight ==
  /\ \A c, d \in Saves : c = d
  /\ \A c \in Saves : c.form \in 1..opened /\ (c.form \in tried \/ RowsOf(c) <= owed[c.form])
  /\ form.open /\ ~early =>
       \A c \in Saves : c.form = opened /\ RowsOf(c) >= Len(form.rows)

\* A form stores nothing before it is submitted.
Unsent ==
  /\ \A f \in 1..Forms : f > opened => stored[f] = 0 /\ owed[f] = 0
  /\ form.open /\ opened \notin tried /\ (\A c \in Saves : c.form # opened) =>
       stored[opened] = 0 /\ owed[opened] = 0

BookInv == BookTypes /\ InFlight /\ Unsent /\ RowsStoredOnce

\* A step of the form closes it only when its rows are stored.
Kept == form.open /\ ~form'.open /\ calls' # calls =>
          stored'[opened] >= Len(form.rows) \/ early

LEMMA InitBook == Init => BookInv
<1> SUFFICES ASSUME Init PROVE BookInv  OBVIOUS
<1>1. Forms \in Nat
  BY CatalogAdminAssumption
<1>2. Saves = {} /\ ~form.open /\ opened = 0
  BY DEF Init, Saves, Closed
<1>3. stored = [f \in 1..Forms |-> 0] /\ owed = [f \in 1..Forms |-> 0]
  BY DEF Init
<1>4. QED
  BY <1>1, <1>2, <1>3 DEF BookInv, BookTypes, InFlight, Unsent, RowsStoredOnce

\* Everything else the admin and the service do leaves the books alone.
LEMMA SameBook ==
  ASSUME BookInv, Saves' = Saves, UNCHANGED <<form, history>>
  PROVE  BookInv' /\ Kept
BY DEF history, BookInv, BookTypes, InFlight, Unsent, RowsStoredOnce, RowsOf, Kept

LEMMA OtherCall ==
  ASSUME NEW c, c.op # "save",
         Send(c) \/ End(c) \/ \E d : Become(c, d) /\ d.op # "save"
  PROVE  Saves' = Saves
BY DEF Saves, Send, End, Become

LEMMA OpenBook ==
  ASSUME Inv, BookInv, NEW p, OpenForm(p) PROVE BookInv' /\ Kept
<1>1. /\ ~form.open /\ opened < Forms /\ opened' = opened + 1 /\ form'.open
      /\ early' = Busy("save") /\ UNCHANGED <<calls, stored, owed, tried>>
  BY DEF OpenForm, TablesInReach
<1>2. Saves' = Saves /\ (~early' => Saves = {})
  BY <1>1 DEF Saves, Busy
<1>3. opened \in 0..Forms /\ Forms \in Nat
  BY CatalogAdminAssumption DEF BookInv, BookTypes
<1>4. opened' \in 1..Forms /\ opened' > opened
  BY <1>1, <1>3
<1>5. BookTypes'
  BY <1>1, <1>4 DEF BookInv, BookTypes
<1>6. InFlight'
  <2>1. \A c \in Saves : c.form \in 1..opened => c.form \in 1..opened'
    BY <1>1, <1>3
  <2>2. QED  BY <1>1, <1>2, <2>1 DEF BookInv, InFlight, RowsOf
<1>7. Unsent'
  <2>1. stored[opened'] = 0 /\ owed[opened'] = 0
    BY <1>4 DEF BookInv, Unsent
  <2>2. \A f \in 1..Forms : f > opened' => f > opened
    BY <1>3, <1>4
  <2>3. QED  BY <1>1, <2>1, <2>2 DEF BookInv, Unsent
<1>8. QED  BY <1>1, <1>5, <1>6, <1>7 DEF BookInv, RowsStoredOnce, Kept

LEMMA EditBook ==
  ASSUME BookInv, NEW f, EditForm(f), f.open PROVE BookInv' /\ Kept
<1>1. /\ form.open /\ form'.open /\ early' = (early \/ Busy("save"))
      /\ UNCHANGED <<calls, opened, stored, owed, tried>>
  BY DEF EditForm
<1>2. Saves' = Saves /\ (~early' => Saves = {})
  BY <1>1 DEF Saves, Busy
<1>3. QED
  BY <1>1, <1>2 DEF BookInv, BookTypes, InFlight, Unsent, RowsStoredOnce, RowsOf, Kept

LEMMA CloseBook ==
  ASSUME BookInv, CloseForm PROVE BookInv' /\ Kept
<1>1. ~form'.open /\ UNCHANGED <<calls, opened, stored, owed, tried, early>>
  BY DEF CloseForm, Closed, history
<1>2. Saves' = Saves
  BY <1>1 DEF Saves
<1>3. QED
  BY <1>1, <1>2 DEF BookInv, BookTypes, InFlight, Unsent, RowsStoredOnce, RowsOf, Kept

\* A form is submitted while no save is in flight: for the first time, or after an
\* attempt that failed.
LEMMA SubmitBook ==
  ASSUME Inv, BookInv, Submit PROVE BookInv' /\ Kept
<1>0. /\ opened \in 1..Forms /\ form.rows \in Seq(Int) /\ Len(form.rows) \in Nat
      /\ stored \in [1..Forms -> Nat] /\ owed \in [1..Forms -> Nat] /\ form.open
  <2>1. Forms \in Nat /\ form.open
    BY CatalogAdminAssumption DEF Submit
  <2>2. QED  BY <2>1 DEF BookInv, BookTypes, Inv, Typed, FormType
<1>1. PICK c \in {[NoCall EXCEPT !.op = "save", !.product = form.product,
                        !.category = form.category, !.rows = form.rows, !.form = opened]} :
        Send(c)
  BY DEF Submit
<1>2. c.op = "save" /\ c.form = opened /\ c.rows = form.rows
  BY <1>1, NoCallType
<1>3. Saves = {} /\ Saves' = {c}
  BY <1>1, <1>2 DEF Submit, CanSubmit, Busy, Saves, Send
<1>4. /\ owed' = [owed EXCEPT ![opened] = IF @ = 0 THEN Len(form.rows) ELSE @]
      /\ UNCHANGED <<form, opened, stored, tried, early>>
  BY DEF Submit, dialogs
<1>5. /\ owed' \in [1..Forms -> Nat]
      /\ \A f \in 1..Forms \ {opened} : owed'[f] = owed[f]
      /\ owed'[opened] = IF owed[opened] = 0 THEN Len(form.rows) ELSE owed[opened]
  BY <1>0, <1>4
<1>6. opened \in tried \/ (stored[opened] = 0 /\ owed[opened] = 0)
  BY <1>0, <1>3 DEF BookInv, Unsent
<1>7. BookTypes'
  BY <1>4, <1>5 DEF BookInv, BookTypes
<1>8. InFlight'
  <2>1. opened \in tried \/ stored[opened] + Len(form.rows) <= owed'[opened]
    BY <1>0, <1>5, <1>6
  <2>2. stored[opened] + Len(form.rows) >= Len(form.rows)
    BY <1>0
  <2>3. opened \in 1..opened
    BY <1>0
  <2>4. QED  BY <1>2, <1>3, <1>4, <2>1, <2>2, <2>3 DEF InFlight, RowsOf
<1>9. Unsent'
  <2>1. \A f \in 1..Forms : f > opened => f # opened
    BY <1>0
  <2>2. QED  BY <1>2, <1>3, <1>4, <1>5, <2>1 DEF BookInv, Unsent
<1>10. RowsStoredOnce'
  BY <1>0, <1>4, <1>5, <1>6 DEF BookInv, RowsStoredOnce
<1>11. QED  BY <1>4, <1>7, <1>8, <1>9, <1>10 DEF BookInv, Kept

\* The save c goes on as d, ends, or fails; what it stored is no longer to store.
LEMMA ProceedBook ==
  ASSUME BookInv, NEW c \in Saves, NEW d, Proceed(c, d) \/ NotSaved(c),
         d.op = "save", d.form = c.form, c.rows \in Seq(Int), d.rows \in Seq(Int),
         stored' \in [1..Forms -> Nat],
         \A f \in 1..Forms \ {c.form} : stored'[f] = stored[f],
         stored'[c.form] >= stored[c.form],
         stored'[c.form] + Len(d.rows) = RowsOf(c),
         UNCHANGED <<opened, owed, early>>
  PROVE  BookInv' /\ Kept
<1>0. /\ c.form \in 1..Forms /\ c.form \in 1..opened /\ opened \in 0..Forms /\ Forms \in Nat
      /\ stored'[c.form] \in Nat /\ stored[c.form] \in Nat /\ owed[c.form] \in Nat
      /\ Len(c.rows) \in Nat /\ Len(d.rows) \in Nat
  <2>1. c.form \in 1..opened /\ opened \in 0..Forms /\ Forms \in Nat
    BY CatalogAdminAssumption DEF BookInv, BookTypes, InFlight
  <2>2. c.form \in 1..Forms
    BY <2>1
  <2>3. Len(c.rows) \in Nat /\ Len(d.rows) \in Nat
    OBVIOUS
  <2>4. QED  BY <2>1, <2>2, <2>3 DEF BookInv, BookTypes
<1>1. \A e \in Saves : e = c
  BY DEF BookInv, InFlight
<1>2. c.form \in tried \/ RowsOf(c) <= owed[c.form]
  BY DEF BookInv, InFlight
<1>3. c.form \in tried' \/ stored'[c.form] <= owed[c.form]
  <2>1. tried \subseteq tried'
    BY DEF Proceed, Saved, NotSaved
  <2>2. stored'[c.form] <= RowsOf(c) /\ RowsOf(c) \in Nat
    BY <1>0 DEF RowsOf
  <2>3. QED  BY <1>0, <1>2, <2>1, <2>2
<1>4. RowsStoredOnce'
  <2>1. tried \subseteq tried'
    BY DEF Proceed, Saved, NotSaved
  <2>2. QED  BY <1>3, <2>1 DEF BookInv, RowsStoredOnce
<1>5. \A f \in 1..Forms : f > opened => stored'[f] = 0 /\ owed'[f] = 0
  <2>1. \A f \in 1..Forms : f > opened => f # c.form
    BY <1>0
  <2>2. QED  BY <2>1 DEF BookInv, Unsent
<1>6. CASE d.rows = <<>> /\ Saved(c)
  <2>1. Saves' = {} /\ ~form'.open
    BY <1>1, <1>6 DEF Saved, End, Saves, Closed
  <2>2. BookTypes' /\ InFlight' /\ Unsent'
    BY <1>5, <2>1 DEF BookInv, BookTypes, InFlight, Unsent
  <2>3. Kept
    <3>1. stored'[c.form] = RowsOf(c)
      BY <1>0, <1>6
    <3>2. form.open /\ ~early => c.form = opened /\ RowsOf(c) >= Len(form.rows)
      BY DEF BookInv, InFlight
    <3>3. QED  BY <3>1, <3>2 DEF Kept
  <2>4. QED  BY <1>4, <2>2, <2>3 DEF BookInv
<1>7. CASE d.rows # <<>> /\ Become(c, d) /\ UNCHANGED <<form, tried>>
  <2>1. Saves' = {d}
    BY <1>1, <1>7 DEF Become, Saves
  <2>2. stored'[d.form] + Len(d.rows) = RowsOf(c)
    OBVIOUS
  <2>3. BookTypes'
    BY <1>7 DEF BookInv, BookTypes
  <2>4. InFlight'
    BY <1>0, <1>2, <1>7, <2>1, <2>2 DEF BookInv, InFlight, RowsOf
  <2>5. Unsent'
    <3>1. c.form # opened => stored'[opened] = stored[opened] \/ opened \notin 1..Forms
      BY <1>0
    <3>2. form.open => opened \in 1..Forms
      BY <1>0 DEF BookInv, BookTypes
    <3>3. QED  BY <1>1, <1>5, <1>7, <2>1, <3>1, <3>2 DEF BookInv, Unsent
  <2>6. QED  BY <1>4, <1>7, <2>3, <2>4, <2>5 DEF BookInv, Kept
<1>8. CASE NotSaved(c)
  <2>1. Saves' = {} /\ form' = form /\ tried' = tried \cup {c.form}
    BY <1>1, <1>8 DEF NotSaved, AfterFailure, End, Saves
  <2>2. BookTypes' /\ InFlight'
    BY <2>1 DEF BookInv, BookTypes, InFlight
  <2>3. Unsent'
    <3>1. form.open => opened \in 1..Forms
      BY <1>0 DEF BookInv, BookTypes
    <3>2. QED  BY <1>1, <1>5, <2>1, <3>1 DEF BookInv, Unsent
  <2>4. QED  BY <1>4, <2>1, <2>2, <2>3 DEF BookInv, Kept
<1>9. QED  BY <1>6, <1>7, <1>8 DEF Proceed

LEMMA SaveBook ==
  ASSUME Inv, BookInv, NEW c \in calls, SaveProduct(c) \/ SaveRow(c) \/ SaveRefused(c)
  PROVE  BookInv' /\ Kept
<1>0. /\ c \in Saves /\ c \in CallType /\ (c.at = "rows" => c.rows # <<>>)
      /\ c.rows \in Seq(Int) /\ Len(c.rows) \in Nat
  <2>1. c \in Saves /\ c \in CallType /\ (c.at = "rows" => c.rows # <<>>)
    BY DEF Saves, SaveProduct, SaveRow, SaveRefused, Inv, Typed, CallInv, Captured
  <2>2. c.rows \in Seq(Int)
    BY <2>1 DEF CallType
  <2>3. QED  BY <2>1, <2>2
<1>1. stored \in [1..Forms -> Nat] /\ c.form \in 1..Forms
  <2>1. c.form \in 1..opened /\ opened \in 0..Forms /\ Forms \in Nat
    BY <1>0, CatalogAdminAssumption DEF BookInv, BookTypes, InFlight
  <2>2. c.form \in 1..Forms
    BY <2>1
  <2>3. QED  BY <2>2 DEF BookInv, BookTypes
<1>2. CASE SaveProduct(c)
  <2>1. PICK p \in Products : Proceed(c, [c EXCEPT !.product = p, !.at = "rows"])
    BY <1>2 DEF SaveProduct
  <2>2. PICK d \in {[c EXCEPT !.product = p, !.at = "rows"]} : Proceed(c, d)
    BY <2>1
  <2>3. d.op = "save" /\ d.form = c.form /\ d.rows = c.rows
    BY <1>0, <2>2 DEF CallType, Saves
  <2>4. UNCHANGED <<opened, stored, owed, early>>
    BY <1>2 DEF SaveProduct
  <2>5. /\ stored' \in [1..Forms -> Nat] /\ stored'[c.form] >= stored[c.form]
        /\ \A f \in 1..Forms \ {c.form} : stored'[f] = stored[f]
    BY <1>1, <2>4
  <2>6. stored'[c.form] + Len(d.rows) = RowsOf(c)
    BY <2>3, <2>4 DEF RowsOf
  <2>7. d.rows \in Seq(Int) /\ UNCHANGED <<opened, owed, early>>
    BY <1>0, <2>3, <2>4
  <2>8. QED  BY <1>0, <2>2, <2>3, <2>5, <2>6, <2>7, ProceedBook
<1>3. CASE SaveRow(c)
  <2>1. PICK d \in {[c EXCEPT !.rows = Tail(c.rows)]} : Proceed(c, d)
    BY <1>3 DEF SaveRow
  <2>2. d.op = "save" /\ d.form = c.form /\ d.rows = Tail(c.rows)
    BY <1>0, <2>1 DEF CallType, Saves
  <2>3. stored' = [stored EXCEPT ![c.form] = stored[c.form] + 1] /\ UNCHANGED <<opened, owed, early>>
    BY <1>3 DEF SaveRow
  <2>4. c.rows # <<>>
    BY <1>0, <1>3 DEF SaveRow
  <2>5. /\ stored' \in [1..Forms -> Nat] /\ stored'[c.form] = stored[c.form] + 1
        /\ \A f \in 1..Forms \ {c.form} : stored'[f] = stored[f]
    BY <1>1, <2>3
  <2>6. d.rows \in Seq(Int) /\ Len(d.rows) = Len(c.rows) - 1
    BY <1>0, <2>2, <2>4
  <2>7. stored[c.form] \in Nat
    BY <1>1
  <2>8. stored'[c.form] + Len(d.rows) = RowsOf(c) /\ stored'[c.form] >= stored[c.form]
    <3>1. stored'[c.form] = stored[c.form] + 1
      BY <2>5
    <3>2. Len(d.rows) = Len(c.rows) - 1 /\ Len(c.rows) \in Nat
      BY <1>0, <2>6
    <3>3. ASSUME NEW m \in Nat, NEW n \in Nat
          PROVE  (m + 1) + (n - 1) = m + n /\ m + 1 >= m
      OBVIOUS
    <3>4. QED  BY <2>7, <3>1, <3>2, <3>3 DEF RowsOf
  <2>9. QED  BY <1>0, <2>1, <2>2, <2>3, <2>5, <2>6, <2>8, ProceedBook
<1>4. CASE SaveRefused(c)
  <2>1. NotSaved(c) /\ UNCHANGED <<opened, stored, owed, early>>
    BY <1>4 DEF SaveRefused
  <2>2. c.op = "save"
    BY <1>0 DEF Saves
  <2>3. /\ stored' \in [1..Forms -> Nat] /\ stored'[c.form] >= stored[c.form]
        /\ \A f \in 1..Forms \ {c.form} : stored'[f] = stored[f]
    BY <1>1, <2>1
  <2>4. stored'[c.form] + Len(c.rows) = RowsOf(c)
    BY <2>1 DEF RowsOf
  <2>5. QED  BY <1>0, <2>1, <2>2, <2>3, <2>4, ProceedBook
<1>5. QED  BY <1>2, <1>3, <1>4

LEMMA AdminBook ==
  ASSUME Inv, BookInv, UseDialogs PROVE BookInv' /\ Kept
<1>1. CASE \E p \in KnownProducts \cup {New} : OpenForm(p)
  BY <1>1, OpenBook
<1>2. ASSUME NEW f, f \in {[form EXCEPT !.category = c] : c \in KnownCategories \cup {None}}
                    \cup {[form EXCEPT !.rows = Append(form.rows, m)] : m \in {0, 1}}
                    \cup {[form EXCEPT !.rows = Tail(form.rows)]},
             EditForm(f)
      PROVE  BookInv' /\ Kept
  <2>1. form.open
    BY <1>2 DEF EditForm
  <2>2. f.open
    BY <1>2, <2>1 DEF Inv, Typed, FormType
  <2>3. QED  BY <1>2, <2>2, EditBook
<1>3. CASE \/ \E c \in KnownCategories \cup {None} : ChooseCategory(c)
           \/ \E m \in {0, 1} : AddRow(m)
           \/ RemoveRow
  BY <1>2, <1>3 DEF ChooseCategory, AddRow, RemoveRow
<1>4. CASE CloseForm
  BY <1>4, CloseBook
<1>5. CASE Submit
  BY <1>5, SubmitBook
<1>6. CASE \/ \E p \in KnownProducts : AskToDelete(p)
           \/ KeepProduct \/ CloseManager \/ CancelEdit
           \/ \E v \in Variants \cup {New} : EditVariant(v)
           \/ \E c \in KnownCategories \cup {New} : OpenCategory(c)
           \/ CloseCategory
  <2>1. UNCHANGED <<form, history, calls>>
    BY <1>6 DEF AskToDelete, KeepProduct, CloseManager, CancelEdit, EditVariant, UseManager,
                OpenCategory, CloseCategory
  <2>2. Saves' = Saves
    BY <2>1 DEF Saves
  <2>3. QED  BY <2>1, <2>2, SameBook
<1>7. ASSUME NEW c, c.op # "save", Send(c), UNCHANGED <<form, history>> PROVE BookInv' /\ Kept
  BY <1>7, OtherCall, SameBook
<1>8. CASE Delete
  BY <1>7, <1>8, NoCallType DEF Delete, dialogs
<1>9. CASE \E p \in KnownProducts : OpenManager(p)
  BY <1>7, <1>9, NoCallType DEF OpenManager
<1>10. CASE \E m \in {0, 1} : SaveVariant(m)
  BY <1>7, <1>10, NoCallType DEF SaveVariant, dialogs
<1>11. CASE \E v \in Variants : DeleteVariant(v)
  BY <1>7, <1>11, NoCallType DEF DeleteVariant, dialogs
<1>12. CASE SaveCategory
  BY <1>7, <1>12, NoCallType DEF SaveCategory, dialogs
<1>13. CASE \E c \in KnownCategories : DeleteCategory(c)
  BY <1>7, <1>13, NoCallType DEF DeleteCategory, dialogs
<1>14. QED
  BY <1>1, <1>3, <1>4, <1>5, <1>6, <1>8, <1>9, <1>10, <1>11, <1>12, <1>13 DEF UseDialogs

LEMMA ServeBook ==
  ASSUME Inv, BookInv, NEW c \in calls, Serve(c) PROVE BookInv' /\ Kept
<1>1. CASE SaveProduct(c) \/ SaveRow(c) \/ SaveRefused(c)
  BY <1>1, SaveBook
<1>2. ASSUME c.op # "save", UNCHANGED <<form, history>>,
             \/ End(c)
             \/ Become(c, [NoCall EXCEPT !.op = "relist", !.product = c.product])
             \/ \E a : Become(c, [c EXCEPT !.at = a])
      PROVE  BookInv' /\ Kept
  <2>1. c \in CallType
    BY DEF Inv, Typed, CallInv, Captured
  <2>2. \A a : [c EXCEPT !.at = a].op # "save"
    BY <1>2, <2>1 DEF CallType
  <2>3. [NoCall EXCEPT !.op = "relist", !.product = c.product].op # "save"
    BY NoCallType
  <2>4. End(c) \/ \E d : Become(c, d) /\ d.op # "save"
    BY <1>2, <2>2, <2>3
  <2>5. QED  BY <1>2, <2>4, OtherCall, SameBook
<1>3. CASE LookForOrders(c)
  BY <1>2, <1>3 DEF LookForOrders, dialogs
<1>4. CASE Deactivate(c) \/ RemoveProduct(c)
  BY <1>2, <1>4 DEF Deactivate, RemoveProduct, Deleted
<1>5. CASE ManagerReply(c)
  BY <1>2, <1>5 DEF ManagerReply
<1>6. CASE Relisted(c)
  BY <1>2, <1>6 DEF Relisted
<1>7. CASE VariantSaved(c)
  BY <1>2, <1>7 DEF VariantSaved
<1>8. CASE VariantDeleted(c)
  BY <1>2, <1>8 DEF VariantDeleted, dialogs
<1>9. CASE CategorySaved(c) \/ CountItems(c) \/ RemoveCategory(c)
  BY <1>2, <1>9 DEF CategorySaved, CountItems, RemoveCategory, dialogs
<1>10. CASE Fails(c)
  BY <1>2, <1>10 DEF Fails, dialogs
<1>11. QED
  BY <1>1, <1>3, <1>4, <1>5, <1>6, <1>7, <1>8, <1>9, <1>10 DEF Serve

LEMMA BookStep == Inv /\ BookInv /\ [Next]_vars => BookInv' /\ (Kept \/ UNCHANGED vars)
<1> SUFFICES ASSUME Inv, BookInv, [Next]_vars PROVE BookInv' /\ (Kept \/ UNCHANGED vars)
  OBVIOUS
<1>1. CASE UNCHANGED vars
  <2>1. Saves' = Saves /\ UNCHANGED <<form, history>>
    BY <1>1 DEF vars, dialogs, history, Saves
  <2>2. QED  BY <2>1, SameBook
<1>2. CASE \E p \in Products, v \in Variants : PlaceOrder(p, v)
  <2>1. Saves' = Saves /\ UNCHANGED <<form, history>>
    BY <1>2 DEF PlaceOrder, dialogs, Saves
  <2>2. QED  BY <2>1, SameBook
<1>3. QED  BY <1>1, <1>2, AdminBook, ServeBook DEF Next

\* The strengthening of RowsStoredOnce is inductive.
THEOREM BookAlways == Spec => []BookInv
<1>1. Inv /\ BookInv /\ [Next]_vars => BookInv'
  BY BookStep
<1>2. QED  BY <1>1, InitBook, InvAlways, PTL DEF Spec

\* A form creates no more variants than the rows it was submitted with, unless it
\* was submitted again after an attempt that failed, or looked so (handleSave of
\* AdminProducts.jsx), for any number of forms and rows.
THEOREM RowsAreStoredOnce == Spec => []RowsStoredOnce
<1>1. BookInv => RowsStoredOnce
  BY DEF BookInv
<1>2. QED  BY <1>1, BookAlways, PTL

\* The reply of a save closes the form only when the rows it shows are stored, unless
\* it was opened, or edited, while a save was in flight.
THEOREM FormsAreKept == Spec => FormIsKept
<1>1. Inv /\ BookInv /\ [Next]_vars =>
        [form.open /\ ~form'.open /\ calls' # calls =>
           stored'[opened] >= Len(form.rows) \/ early]_vars
  BY BookStep DEF Kept
<1>2. QED  BY <1>1, InvAlways, BookAlways, PTL DEF Spec, FormIsKept

-----------------------------------------------------------------------------
(* What changes a variant *)

\* The call that changes a variant named its product, and names the variant or deletes
\* the product.
Named(v) ==
  variant[v].of # None /\ variant'[v] # variant[v] =>
    \E c \in calls \ calls' : /\ c.product = variant[v].of
                              /\ c.op = "delete" \/ c.variant = v

LEMMA InsertNamed ==
  ASSUME TableType, NEW p, NEW months, Insert(p, months), NEW v \in Variants PROVE Named(v)
<1>1. PICK w \in {NextFree(FreeVariants)} :
        variant' = [variant EXCEPT ![w] = [of |-> p, months |-> months]]
  BY DEF Insert
<1>2. variant[w].of = None
  BY <1>1 DEF Insert, NextFree, FreeVariants, Free
<1>3. v # w => variant'[v] = variant[v]
  BY <1>1 DEF TableType
<1>4. QED  BY <1>2, <1>3 DEF Named

\* A call that ends, or goes on as another kind, is no longer in flight.
LEMMA IsOver ==
  ASSUME Inv, NEW c \in calls, c.op # "relist",
         \/ End(c)
         \/ Become(c, [NoCall EXCEPT !.op = "relist", !.product = c.product])
  PROVE  c \in calls \ calls'
<1>1. [NoCall EXCEPT !.op = "relist", !.product = c.product].op = "relist"
  BY NoCallType
<1>2. QED  BY <1>1 DEF End, Become

LEMMA ServeNamed ==
  ASSUME Inv, NEW c \in calls, Serve(c), NEW v \in Variants PROVE Named(v)
<1>0. TableType /\ Captured(c)
  BY DEF Inv, Typed, CallInv
<1>1. CASE SaveRow(c)
  BY <1>0, <1>1, InsertNamed DEF SaveRow
<1>2. CASE RemoveProduct(c)
  <2>1. c.op = "delete" /\ End(c)
    BY <1>2 DEF RemoveProduct, Deleted
  <2>2. variant[v].of # c.product => variant'[v] = variant[v]
    BY <1>2 DEF RemoveProduct
  <2>3. QED  BY <2>1, <2>2, IsOver DEF Named
<1>3. CASE VariantSaved(c)
  <2>1. c.op = "variant"
        /\ (End(c) \/ Become(c, [NoCall EXCEPT !.op = "relist", !.product = c.product]))
    BY <1>3 DEF VariantSaved
  <2>2. CASE c.variant = New
    BY <1>0, <1>3, <2>2, InsertNamed DEF VariantSaved
  <2>3. CASE c.variant # New
    <3>1. Update(c, c.rows[1])
      BY <1>3, <2>3 DEF VariantSaved
    <3>2. variant[c.variant].of = c.product /\ (v # c.variant => variant'[v] = variant[v])
      BY <1>0, <3>1 DEF Update, OwnVariant, TableType
    <3>3. QED  BY <2>1, <3>2, IsOver DEF Named
  <2>4. QED  BY <2>2, <2>3
<1>4. CASE VariantDeleted(c)
  <2>1. c.op = "unvariant" /\ variant[c.variant].of = c.product
        /\ (End(c) \/ Become(c, [NoCall EXCEPT !.op = "relist", !.product = c.product]))
    BY <1>4 DEF VariantDeleted, OwnVariant
  <2>2. v # c.variant => variant'[v] = variant[v]
    BY <1>0, <1>4 DEF VariantDeleted, TableType
  <2>3. QED  BY <2>1, <2>2, IsOver DEF Named
<1>5. CASE \/ SaveProduct(c) \/ SaveRefused(c) \/ LookForOrders(c) \/ Deactivate(c)
           \/ ManagerReply(c) \/ Relisted(c) \/ CategorySaved(c) \/ CountItems(c)
           \/ RemoveCategory(c) \/ Fails(c)
  <2>1. UNCHANGED variant
    BY <1>5 DEF SaveProduct, SaveRefused, LookForOrders, Deactivate, ManagerReply, Relisted,
                CategorySaved, CountItems, RemoveCategory, Fails, tables
  <2>2. QED  BY <2>1 DEF Named
<1>6. QED  BY <1>1, <1>2, <1>3, <1>4, <1>5 DEF Serve

LEMMA OthersNamed ==
  ASSUME UseDialogs \/ \E p \in Products, w \in Variants : PlaceOrder(p, w)
  PROVE  UNCHANGED variant
<1>1. CASE UseDialogs
  BY <1>1 DEF UseDialogs, OpenForm, ChooseCategory, AddRow, RemoveRow, EditForm, CloseForm, Submit,
              SaveVariant, KeepProduct, Delete, AskToDelete, OpenManager, EditVariant, UseManager,
              DeleteVariant, OpenCategory, DeleteCategory, CloseManager, CancelEdit,
              CloseCategory, SaveCategory, tables
<1>2. CASE \E p \in Products, w \in Variants : PlaceOrder(p, w)
  BY <1>2 DEF PlaceOrder
<1>3. QED  BY <1>1, <1>2

\* Although replies cross, what a manager changes and deletes is of the product its
\* call names (update_variant and delete_variant of dashboard.rs), whatever it lists.
THEOREM TitlesNameWhatChanges == Spec => TitleIsWhatChanges
<1>1. ASSUME Inv, [Next]_vars
      PROVE  [\A v \in Variants :
                variant[v].of # None /\ variant'[v] # variant[v] =>
                  \E c \in calls \ calls' :
                    /\ c.product = variant[v].of
                    /\ c.op = "delete" \/ c.variant = v]_vars
  <2>1. CASE UNCHANGED vars
    BY <2>1
  <2>2. CASE Next
    <3>1. \A v \in Variants : Named(v)
      BY <1>1, <2>2, ServeNamed, OthersNamed DEF Next, Named
    <3>2. QED  BY <3>1 DEF Named
  <2>3. QED  BY <1>1, <2>1, <2>2
<1>2. QED  BY <1>1, InvAlways, PTL DEF Spec, TitleIsWhatChanges
=============================================================================
