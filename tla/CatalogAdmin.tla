---------------------------- MODULE CatalogAdmin ----------------------------
(***************************************************************************)
(* The catalog as an admin edits it: the dialogs of AdminProducts.jsx over *)
(* the product, variant and category handlers of dashboard.rs, while       *)
(* resellers order.                                                        *)
(*                                                                         *)
(* A dialog can be closed while its call is in flight, and another opened: *)
(* the call goes on with what it captured, and its reply acts on whichever *)
(* dialog is there.  The handlers run one statement at a time; the foreign *)
(* keys of the schema refuse what would break a reference.  The list of    *)
(* products comes without their variants, so the rows of the product form  *)
(* are always new ones.                                                    *)
(***************************************************************************)
EXTENDS Integers, Sequences, FiniteSets

CONSTANTS
  Products, Variants, Categories,   \* rows there may ever be
  None, New,
  FirstProducts, FirstProduct, FirstVariant, FirstCategory,   \* those there are at first
  Forms,     \* openings of the product form
  MaxRows,   \* rows of the form; bounds the runs
  MaxCalls   \* calls the admin makes; bounds the runs

ASSUME CatalogAdminAssumption ==
  /\ FirstProduct \in FirstProducts /\ FirstProducts \subseteq Products
  /\ FirstVariant \in Variants /\ FirstCategory \in Categories
  /\ Products \cap Variants = {}
  /\ None \notin Products \cup Variants \cup Categories
  /\ New \notin Products \cup Variants \cup Categories \cup {None}
  /\ Forms \in Nat \ {0} /\ MaxRows \in Nat /\ MaxCalls \in Nat

VARIABLES
  product,   \* [Products -> [there, category, active]]
  variant,   \* [Variants -> [of, months]], months 0 for a null duration
  category,  \* [Categories -> "unborn", "there" or "gone"]
  ordered,   \* products and variants some order refers to
  form,      \* the product form
  target,    \* the product the delete dialog asks about
  manager,   \* the variant manager
  catForm,   \* the category form: None when closed
  calls,     \* calls in flight, with what they captured
  sent,      \* calls made so far
  opened,    \* forms opened so far
  stored,    \* history: variants a form has created
  owed,      \* history: rows of its first submission
  tried,     \* history: forms whose submission failed, or looked so
  early      \* history: the form was opened, or edited, while a save was in flight

tables == <<product, variant, category, ordered>>
dialogs == <<form, target, manager, catForm>>
history == <<opened, stored, owed, tried, early>>
vars == <<tables, dialogs, calls, sent, history>>

Unborn == [there |-> "unborn", category |-> None, active |-> TRUE]
Free == [of |-> None, months |-> 0]
Closed == [open |-> FALSE, product |-> None, category |-> None, rows |-> <<>>]

Init ==
  /\ product = [p \in Products |->
       IF p \in FirstProducts THEN [there |-> "there", category |-> FirstCategory, active |-> TRUE]
                           ELSE Unborn]
  /\ variant = [v \in Variants |->
       IF v = FirstVariant THEN [Free EXCEPT !.of = FirstProduct] ELSE Free]
  /\ category = [c \in Categories |-> IF c = FirstCategory THEN "there" ELSE "unborn"]
  /\ ordered = {}
  /\ form = Closed /\ target = None /\ catForm = None
  /\ manager = [open |-> FALSE, product |-> None, list |-> {}, editing |-> None]
  /\ calls = {} /\ sent = 0
  /\ opened = 0 /\ tried = {} /\ early = FALSE
  /\ stored = [f \in 1..Forms |-> 0] /\ owed = [f \in 1..Forms |-> 0]

-----------------------------------------------------------------------------
(* Calls and dialogs *)

NoCall == [op |-> "", product |-> None, variant |-> None, category |-> None,
           at |-> "sent", rows |-> <<>>, form |-> 0]

Busy(op) == \E c \in calls : c.op = op
Room == sent < MaxCalls
Send(c) == Room /\ calls' = calls \cup {c} /\ sent' = sent + 1
End(c) == calls' = calls \ {c} /\ UNCHANGED sent
Become(c, d) == calls' = (calls \ {c}) \cup {d} /\ UNCHANGED sent

\* A dialog covers the tables.
TablesInReach == ~form.open /\ target = None /\ ~manager.open /\ catForm = None

\* The tables may still list what is gone.
KnownProducts == {p \in Products : product[p].there # "unborn"}
KnownCategories == {c \in Categories : category[c] # "unborn"}
There(p) == product[p].there = "there"
VariantsOf(p) == {v \in Variants : variant[v].of = p}
ItemsOf(p) == {c \in Products : There(c) /\ product[c].category = p}
NextFree(S) == CHOOSE x \in S : TRUE

-----------------------------------------------------------------------------
(* Variants at the service *)

\* UNIQUE(product_id, external_pack_id, duration_months), where nulls differ, among the
\* variants of one pack.
Clashes(v, p, months) ==
  months # 0 /\ \E w \in VariantsOf(p) \ {v} : variant[w].months = months

FreeVariants == {v \in Variants : variant[v] = Free}

Insert(p, months) ==
  /\ There(p) /\ ~Clashes(None, p, months) /\ FreeVariants # {}
  /\ variant' = [variant EXCEPT ![NextFree(FreeVariants)] =
                   [of |-> p, months |-> months]]

AnyVariant(c) == variant[c.variant].of # None
OwnVariant(c) == variant[c.variant].of = c.product

\* A null duration is not written.
Update(c, chosen) ==
  LET months == IF chosen = 0 THEN variant[c.variant].months ELSE chosen IN
  /\ OwnVariant(c) /\ ~Clashes(c.variant, variant[c.variant].of, months)
  /\ variant' = [variant EXCEPT ![c.variant].months = months]

-----------------------------------------------------------------------------
(* The product form *)

OpenForm(p) ==
  /\ TablesInReach /\ opened < Forms
  /\ form' = [open |-> TRUE, product |-> p, rows |-> <<>>,
              category |-> IF p = New THEN None ELSE product[p].category]
  /\ opened' = opened + 1
  /\ early' = Busy("save")
  /\ UNCHANGED <<tables, target, manager, catForm, calls, sent, stored, owed, tried>>

EditForm(f) ==
  /\ form.open
  /\ form' = f
  /\ early' = (early \/ Busy("save"))
  /\ UNCHANGED <<tables, target, manager, catForm, calls, sent, opened, stored, owed, tried>>

ChooseCategory(c) == EditForm([form EXCEPT !.category = c])

AddRow(months) ==
  /\ Len(form.rows) < MaxRows
  /\ EditForm([form EXCEPT !.rows = Append(@, months)])

RemoveRow ==
  /\ form.rows # <<>>
  /\ EditForm([form EXCEPT !.rows = Tail(@)])

CloseForm ==
  /\ form.open
  /\ form' = Closed
  /\ UNCHANGED <<tables, target, manager, catForm, calls, sent, history>>

SubmitsAnyTime == Room
CanSubmit == Room /\ ~Busy("save")

Submit ==
  /\ form.open /\ CanSubmit
  /\ Send([NoCall EXCEPT !.op = "save", !.product = form.product, !.category = form.category,
                         !.rows = form.rows, !.form = opened])
  /\ owed' = [owed EXCEPT ![opened] = IF @ = 0 THEN Len(form.rows) ELSE @]
  /\ UNCHANGED <<tables, dialogs, opened, stored, tried, early>>

Saved(c) ==
  /\ End(c)
  /\ form' = Closed
  /\ UNCHANGED tried

CloseAnyway == Closed
AfterFailure == form

\* The form stays for another attempt, which starts from the first call.
NotSaved(c) ==
  /\ End(c)
  /\ form' = AfterFailure
  /\ tried' = tried \cup {c.form}

\* On to the rows; or the reply is lost.
Proceed(c, d) ==
  \/ d.rows = <<>> /\ Saved(c)
  \/ d.rows # <<>> /\ Become(c, d) /\ UNCHANGED <<form, tried>>
  \/ NotSaved(c)

\* A category that was not chosen is not sent; the foreign key wants it to exist.
Assignable(c) == c \in {None} \cup {k \in Categories : category[k] = "there"}

SaveProduct(c) ==
  /\ c.op = "save" /\ c.at = "sent" /\ Assignable(c.category)
  /\ \E p \in Products :
       /\ \/ c.product = New /\ product[p] = Unborn
          \/ c.product = p /\ There(p)
       /\ product' = [product EXCEPT ![p].there = "there",
                                     ![p].category = IF c.category = None THEN @ ELSE c.category]
       /\ Proceed(c, [c EXCEPT !.product = p, !.at = "rows"])
  /\ UNCHANGED <<variant, category, ordered, target, manager, catForm, opened, stored, owed,
                 early>>

SaveRow(c) ==
  /\ c.op = "save" /\ c.at = "rows"
  /\ Insert(c.product, Head(c.rows))
  /\ stored' = [stored EXCEPT ![c.form] = @ + 1]
  /\ Proceed(c, [c EXCEPT !.rows = Tail(@)])
  /\ UNCHANGED <<product, category, ordered, target, manager, catForm, opened, owed, early>>

SaveRefused(c) ==
  /\ c.op = "save"
  /\ NotSaved(c)
  /\ UNCHANGED <<tables, target, manager, catForm, opened, stored, owed, early>>

-----------------------------------------------------------------------------
(* Deleting a product *)

AskToDelete(p) ==
  /\ TablesInReach
  /\ target' = p
  /\ UNCHANGED <<tables, form, manager, catForm, calls, sent, history>>

KeepProduct ==
  /\ target # None
  /\ target' = None
  /\ UNCHANGED <<tables, form, manager, catForm, calls, sent, history>>

Delete ==
  /\ target # None /\ ~Busy("delete")
  /\ Send([NoCall EXCEPT !.op = "delete", !.product = target])
  /\ UNCHANGED <<tables, dialogs, history>>

LookForOrders(c) ==
  /\ c.op = "delete" /\ c.at = "sent"
  /\ Become(c, [c EXCEPT !.at = IF c.product \in ordered THEN "deactivate" ELSE "remove"])
  /\ UNCHANGED <<tables, dialogs, history>>

\* Success closes the dialog that is open by then.
Deleted(c) ==
  /\ End(c)
  /\ target' \in {None, target}
  /\ UNCHANGED <<form, manager, catForm, history>>

Deactivate(c) ==
  /\ c.op = "delete" /\ c.at = "deactivate" /\ There(c.product)
  /\ product' = [product EXCEPT ![c.product].active = FALSE]
  /\ Deleted(c)
  /\ UNCHANGED <<variant, category, ordered>>

NeverReferred(rows) == TRUE
Unreferred(rows) == rows \cap ordered = {}

\* Variants go with their product, unless an order came in between.
RemoveProduct(c) ==
  /\ c.op = "delete" /\ c.at = "remove" /\ There(c.product)
  /\ Unreferred({c.product} \cup VariantsOf(c.product))
  /\ product' = [product EXCEPT ![c.product].there = "gone"]
  /\ variant' = [v \in Variants |->
                   IF variant[v].of = c.product THEN [variant[v] EXCEPT !.of = None, !.months = -1]
                                                ELSE variant[v]]
  /\ Deleted(c)
  /\ UNCHANGED <<category, ordered>>

-----------------------------------------------------------------------------
(* The variant manager *)

OpenManager(p) ==
  /\ TablesInReach
  /\ manager' = [manager EXCEPT !.product = p, !.editing = None]
  /\ Send([NoCall EXCEPT !.op = "open", !.product = p])
  /\ UNCHANGED <<tables, form, target, catForm, history>>

\* The reply, or its failure, shows the manager, even one that was closed.
ManagerReply(c) ==
  /\ c.op = "open"
  /\ \E list \in {{}, VariantsOf(c.product)} :
       manager' = [manager EXCEPT !.open = TRUE, !.list = list]
  /\ End(c)
  /\ UNCHANGED <<tables, form, target, catForm, history>>

UseManager(m) ==
  /\ manager.open
  /\ manager' = m
  /\ UNCHANGED <<tables, form, target, catForm, calls, sent, history>>

CloseManager == UseManager([manager EXCEPT !.open = FALSE])
EditVariant(v) ==
  /\ manager.editing = None
  /\ v \in manager.list \cup {New}
  /\ UseManager([manager EXCEPT !.editing = v])
CancelEdit ==
  /\ manager.editing # None
  /\ UseManager([manager EXCEPT !.editing = None])

SaveVariant(months) ==
  /\ manager.open /\ manager.editing # None /\ ~Busy("variant")
  /\ Send([NoCall EXCEPT !.op = "variant", !.product = manager.product,
                         !.variant = manager.editing, !.rows = <<months>>])
  /\ UNCHANGED <<tables, dialogs, history>>

\* Success ends the editing of the moment, and asks for the list again.
VariantSaved(c) ==
  /\ c.op = "variant"
  /\ IF c.variant = New THEN Insert(c.product, c.rows[1]) ELSE Update(c, c.rows[1])
  /\ \/ /\ manager' = [manager EXCEPT !.editing = None]
        /\ Become(c, [NoCall EXCEPT !.op = "relist", !.product = c.product])
     \/ End(c) /\ UNCHANGED manager
  /\ UNCHANGED <<product, category, ordered, form, target, catForm, history>>

DeleteVariant(v) ==
  /\ manager.open /\ manager.editing = None /\ v \in manager.list
  /\ Send([NoCall EXCEPT !.op = "unvariant", !.product = manager.product, !.variant = v])
  /\ UNCHANGED <<tables, dialogs, history>>

VariantDeleted(c) ==
  /\ c.op = "unvariant" /\ OwnVariant(c) /\ Unreferred({c.variant})
  /\ variant' = [variant EXCEPT ![c.variant].of = None, ![c.variant].months = -1]
  /\ \/ Become(c, [NoCall EXCEPT !.op = "relist", !.product = c.product])
     \/ End(c)
  /\ UNCHANGED <<product, category, ordered, dialogs, history>>

Relisted(c) ==
  /\ c.op = "relist"
  /\ manager' = [manager EXCEPT !.list = VariantsOf(c.product)]
  /\ End(c)
  /\ UNCHANGED <<tables, form, target, catForm, history>>

-----------------------------------------------------------------------------
(* Categories *)

OpenCategory(c) ==
  /\ TablesInReach
  /\ catForm' = c
  /\ UNCHANGED <<tables, form, target, manager, calls, sent, history>>

CloseCategory ==
  /\ catForm # None
  /\ catForm' = None
  /\ UNCHANGED <<tables, form, target, manager, calls, sent, history>>

SaveCategory ==
  /\ catForm # None /\ ~Busy("category")
  /\ Send([NoCall EXCEPT !.op = "category", !.category = catForm])
  /\ UNCHANGED <<tables, dialogs, history>>

CategorySaved(c) ==
  /\ c.op = "category"
  /\ \E k \in Categories :
       /\ \/ c.category = New /\ category[k] = "unborn"
          \/ c.category = k /\ category[k] = "there"
       /\ category' = [category EXCEPT ![k] = "there"]
  /\ End(c)
  /\ catForm' \in {None, catForm}
  /\ UNCHANGED <<product, variant, ordered, form, target, manager, history>>

DeleteCategory(k) ==
  /\ TablesInReach
  /\ Send([NoCall EXCEPT !.op = "uncategory", !.category = k])
  /\ UNCHANGED <<tables, dialogs, history>>

CountItems(c) ==
  /\ c.op = "uncategory" /\ c.at = "sent" /\ ItemsOf(c.category) = {}
  /\ Become(c, [c EXCEPT !.at = "remove"])
  /\ UNCHANGED <<tables, dialogs, history>>

\* The foreign key counts once more.
CountedOnce(k) == TRUE
StillEmpty(k) == ItemsOf(k) = {}

RemoveCategory(c) ==
  /\ c.op = "uncategory" /\ c.at = "remove" /\ StillEmpty(c.category)
  /\ category' = [category EXCEPT ![c.category] = "gone"]
  /\ End(c)
  /\ UNCHANGED <<product, variant, ordered, dialogs, history>>

-----------------------------------------------------------------------------

\* Refused, or not answered, with nothing done.
Fails(c) ==
  /\ c.op # "save"
  /\ End(c)
  /\ UNCHANGED <<tables, dialogs, history>>

\* A reseller orders a variant of an active product.
PlaceOrder(p, v) ==
  /\ There(p) /\ product[p].active /\ variant[v].of = p
  /\ ordered' = ordered \cup {p, v}
  /\ UNCHANGED <<product, variant, category, dialogs, calls, sent, history>>

UseDialogs ==
  \/ \E p \in KnownProducts \cup {New} : OpenForm(p)
  \/ \E c \in KnownCategories \cup {None} : ChooseCategory(c)
  \/ \E months \in {0, 1} : AddRow(months) \/ SaveVariant(months)
  \/ RemoveRow \/ CloseForm \/ Submit \/ KeepProduct \/ Delete
  \/ \E p \in KnownProducts : AskToDelete(p) \/ OpenManager(p)
  \/ \E v \in Variants \cup {New} : EditVariant(v)
  \/ \E v \in Variants : DeleteVariant(v)
  \/ \E c \in KnownCategories \cup {New} : OpenCategory(c)
  \/ \E c \in KnownCategories : DeleteCategory(c)
  \/ CloseManager \/ CancelEdit \/ CloseCategory \/ SaveCategory

Serve(c) ==
  \/ SaveProduct(c) \/ SaveRow(c) \/ SaveRefused(c)
  \/ LookForOrders(c) \/ Deactivate(c) \/ RemoveProduct(c)
  \/ ManagerReply(c) \/ VariantSaved(c) \/ VariantDeleted(c) \/ Relisted(c)
  \/ CategorySaved(c) \/ CountItems(c) \/ RemoveCategory(c)
  \/ Fails(c)

Next ==
  \/ UseDialogs
  \/ \E c \in calls : Serve(c)
  \/ \E p \in Products, v \in Variants : PlaceOrder(p, v)

Spec == Init /\ [][Next]_vars

-----------------------------------------------------------------------------
(* Properties *)

\* Whatever is deleted and assigned at once, a product's category exists, a
\* variant has its product, and what was ordered is still there.
ReferencesHold ==
  /\ \A p \in Products : There(p) /\ product[p].category # None =>
       category[product[p].category] = "there"
  /\ \A v \in Variants : variant[v].of # None => There(variant[v].of)
  /\ \A p \in Products \cap ordered : There(p)
  /\ \A v \in Variants \cap ordered : variant[v].of # None

\* The manager may list the variants of another product than its title names,
\* when replies cross, but it changes and deletes only the variants of the
\* product in the title.
TitleIsWhatChanges ==
  [][\A v \in Variants :
       variant[v].of # None /\ variant'[v] # variant[v] =>
         \E c \in calls \ calls' :
           /\ c.product = variant[v].of
           /\ c.op = "delete" \/ c.variant = v]_vars

\* A form creates no more variants than it has rows, unless it was submitted again
\* after an attempt that failed, or looked so.
RowsStoredOnce == \A f \in 1..Forms : stored[f] <= owed[f] \/ f \in tried

\* The form is closed under the admin's hands only when its rows are stored,
\* unless it was opened, or edited, while a save was in flight.
FormIsKept ==
  [][form.open /\ ~form'.open /\ calls' # calls =>
       stored'[opened] >= Len(form.rows) \/ early]_vars
=============================================================================
