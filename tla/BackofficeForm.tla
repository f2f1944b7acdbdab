--------------------------- MODULE BackofficeForm ---------------------------
(***************************************************************************)
(* The create and edit forms of the dashboard's backoffice: FormPage,      *)
(* DynamicForm and useFormActions over the six form configurations that    *)
(* BackofficeDirector builds, with the product picker that fills a hidden  *)
(* field by a document event, the order's item list, and saves that        *)
(* outlive the form they were sent from.                                   *)
(*   The required fields without a rule of their own are interchangeable:  *)
(*   the model counts how many have a value.  Optional fields are left out.*)
(***************************************************************************)
EXTENDS Integers, Sequences, FiniteSets, SequencesExt

CONSTANTS
    MaxForms,      \* forms opened in one session
    MaxItems,      \* products selected in one order
    MaxQuantity,   \* the largest quantity an order line is raised to
    MaxSaves       \* saves in flight

ASSUME BackofficeFormAssumption ==
    /\ MaxForms \in Nat /\ MaxItems \in Nat
    /\ MaxQuantity \in Nat \ {0} /\ MaxSaves \in Nat

VARIABLES
    form,       \* "none", "loading" (an edit whose row is being fetched) or "open"
    mod,        \* the module the form belongs to
    edit,       \* isEdit
    initial,    \* initialValues of the mounted form
    values,     \* its values
    saving,     \* isSaving of FormPage
    saves,      \* saves in flight, oldest first
    mounts,     \* how many forms have been opened: the current one's number
    options,    \* the products the picker remembers with their sku
    offered,    \* the products its list shows
    found       \* the query cache of the picker, shared by all forms: fresh results

vars == <<form, mod, edit, initial, values, saving, saves, mounts, options, offered, found>>

-----------------------------------------------------------------------------
(* The configurations.                                                     *)

Required(name)      == [name |-> name, rule |-> "required"]
Checked(name)       == [name |-> name, rule |-> "checked"]     \* required, with a validation
Optional(name)      == [name |-> name, rule |-> "optional"]
Picker(name)        == [name |-> name, rule |-> "picker"]      \* required, announces the sku
Hidden(name)        == [name |-> name, rule |-> "hidden"]
HiddenRequired(name) == [name |-> name, rule |-> "hidden required"]
ItemList(name)      == [name |-> name, rule |-> "items"]

customerForm ==
    {Required("name"), Checked("email"), Optional("phone")}

warehouseForm ==
    {Required(n) : n \in {"name", "code", "location", "address_line1", "city", "state",
                          "postal_code", "country", "status", "price"}}
    \cup {Optional(n) : n \in {"address_line2", "contact_name", "contact_email",
                               "contact_phone", "description"}}

inventoryForm ==
    {Required(n) : n \in {"sku", "name", "category", "warehouse_id", "quantity", "price"}}
    \cup {Optional(n) : n \in {"description", "attributes", "low_stock_threshold",
                               "overstock_threshold"}}

transactionForm ==
    {Picker("item_id"), Hidden("sku"), Required("warehouse_id"), Checked("quantity"),
     Required("transaction_type"), Optional("reference")}

reservationForm ==
    {Required("order_id"), Picker("product_id"), HiddenRequired("sku"),
     Checked("quantity"), Required("status"), Optional("expires_at")}

\* Components that write their whole nested object at the first edit of a part
\* of it: from then on the field has a value.
ShippingInfoField == Required("shipping_info")
PaymentInfoField  == Required("payment_info")

orderForm ==
    {Required("customer_id"), ItemList("items"), ShippingInfoField, PaymentInfoField,
     Optional("notes"), Required("currency"), Required("status")}

\* The store's modules, by name.
initialize ==
    [customers |-> customerForm, warehouses |-> warehouseForm, inventory |-> inventoryForm,
     transactions |-> transactionForm, reservations |-> reservationForm, orders |-> orderForm]
Modules == DOMAIN initialize

Fields(m, rule) == {f \in initialize[m] : f.rule = rule}
Has(m, rule) == Fields(m, rule) # {}
PlainCount(m) == Cardinality(Fields(m, "required"))
CheckedNames(m) == {f.name : f \in Fields(m, "checked")}

-----------------------------------------------------------------------------
(* Form values.                                                            *)

Products == {"p1", "p2"}
Searches == {"", "p2"}
Matching(s) == IF s = "" THEN Products ELSE {s}

\* An order line; product_id is "lost" when it is not the product's id.
Line(id, sku, qty, priced) == [product_id |-> id, sku |-> sku, quantity |-> qty, priced |-> priced]

Blank(m) ==
    [plain |-> 0, checked |-> [f \in CheckedNames(m) |-> "empty"],
     product |-> "", sku |-> "", listed |-> FALSE, items |-> <<>>]

\* A row as fetchItem returns it.
Row(m) ==
    [plain |-> PlainCount(m), checked |-> [f \in CheckedNames(m) |-> "ok"],
     product |-> IF Has(m, "picker") THEN "p1" ELSE "",
     sku |-> IF Has(m, "picker") THEN "p1" ELSE "",
     listed |-> Has(m, "items"),
     items |-> IF Has(m, "items") THEN <<Line("p1", "p1", 1, TRUE)>> ELSE <<>>]

\* validateForm: hidden fields count only when required; an item list that was
\* emptied again is a value.
validateForm(m, v) ==
    \A f \in initialize[m] :
        CASE f.rule = "required" -> v.plain = PlainCount(m)
          [] f.rule = "checked"  -> v.checked[f.name] = "ok"
          [] f.rule = "picker"   -> v.product # ""
          [] f.rule = "hidden required" -> v.sku # ""
          [] f.rule = "items"    -> v.listed
          [] OTHER               -> TRUE

-----------------------------------------------------------------------------
(* Opening and leaving a form.                                             *)

\* The list the picker shows at once: fresh results of an earlier form.
CachedList(s) == IF \E l \in SUBSET Products : <<s, l>> \in found
                 THEN CHOOSE l \in SUBSET Products : <<s, l>> \in found
                 ELSE {}

Init ==
    /\ form = "none" /\ mod = "customers" /\ edit = FALSE
    /\ initial = Blank(mod) /\ values = Blank(mod)
    /\ saving = FALSE /\ saves = <<>> /\ mounts = 0
    /\ options = {} /\ offered = {} /\ found = {}

\* DynamicForm's first render: values are the initial values, and the listener
\* of update-hidden-field keeps this render's values for as long as it is mounted.
Mount(m, v) ==
    /\ initial' = v /\ values' = v
    /\ options' = {}
    /\ offered' = IF Has(m, "picker") THEN CachedList("") ELSE {}

OpenCreate(m) ==
    /\ form = "none" /\ mounts < MaxForms
    /\ form' = "open" /\ mod' = m /\ edit' = FALSE /\ saving' = FALSE
    /\ mounts' = mounts + 1
    /\ Mount(m, Blank(m))
    /\ UNCHANGED <<saves, found>>

OpenEdit(m) ==
    /\ form = "none" /\ mounts < MaxForms
    /\ form' = "loading" /\ mod' = m /\ edit' = TRUE /\ saving' = FALSE
    /\ mounts' = mounts + 1
    /\ initial' = Blank(m) /\ values' = Blank(m)
    /\ UNCHANGED <<saves, options, offered, found>>

\* fetchItem: a failed load shows its error over an empty form.
fetchItem ==
    /\ form = "loading"
    /\ form' = "open"
    /\ Mount(mod, Row(mod)) \/ Mount(mod, Blank(mod))
    /\ UNCHANGED <<mod, edit, saving, saves, mounts, found>>

\* The form's state goes with it.
Unmount ==
    /\ form' = "none" /\ edit' = FALSE /\ saving' = FALSE
    /\ initial' = Blank(mod) /\ values' = Blank(mod)
    /\ options' = {} /\ offered' = {}

\* Cancel, which is disabled while saving, or the navigation bar, which is not.
Leave ==
    /\ form # "none"
    /\ Unmount
    /\ UNCHANGED <<mod, saves, mounts, found>>

-----------------------------------------------------------------------------
(* Editing.  The inputs stay enabled while a save is in flight.            *)

Edited(v) ==
    /\ form = "open"
    /\ values' = v
    /\ UNCHANGED <<form, mod, edit, initial, saving, saves, mounts, options, offered, found>>

\* handleChange of a field without a rule: it gets a value, or loses it.
handleChange(n) ==
    /\ n \in 0..PlainCount(mod) /\ n # values.plain
    /\ Edited([values EXCEPT !.plain = n])

ChangeChecked(f, x) ==
    /\ f \in CheckedNames(mod) /\ x # values.checked[f]
    /\ Edited([values EXCEPT !.checked[f] = x])

\* The picker's list for a search: results younger than 30 seconds come from the
\* cache, and the picker does not learn their skus; others are fetched.
fetchOptions(s) ==
    /\ form = "open" /\ Has(mod, "picker")
    /\ IF \E l \in SUBSET Products : <<s, l>> \in found
       THEN offered' = CachedList(s) /\ UNCHANGED <<options, found>>
       ELSE \/ /\ offered' = Matching(s) /\ options' = Matching(s)
               /\ found' = found \cup {<<s, Matching(s)>>}
            \/ /\ offered' = {}                    \* the error is caught: no results
               /\ found' = found \cup {<<s, {}>>}
               /\ UNCHANGED options
    /\ UNCHANGED <<form, mod, edit, initial, values, saving, saves, mounts>>

\* staleTime has passed.
Stale ==
    /\ found # {}
    /\ \E e \in found : found' = found \ {e}
    /\ UNCHANGED <<form, mod, edit, initial, values, saving, saves, mounts, options, offered>>

\* onChange sets the product from this render's values; the event that follows
\* sets the sku from the first render's values, and the later update wins.
PickProduct(p) ==
    /\ Has(mod, "picker") /\ p \in offered
    /\ Edited(IF p \in options THEN [initial EXCEPT !.sku = p]
                               ELSE [values EXCEPT !.product = p])

-----------------------------------------------------------------------------
(* The items of an order.                                                  *)

\* MultiSelectAutocomplete hands the stored lines back with the new option, and
\* OrderItemsField rebuilds each from the option fields id, value and price,
\* which a stored line does not have.
rebuilt(line) == Line("lost", line.sku, line.quantity, FALSE)

handleSelect(p) ==
    /\ Has(mod, "items") /\ Len(values.items) < MaxItems
    /\ Edited([values EXCEPT
                !.listed = TRUE,
                !.items = [i \in 1..Len(values.items) |-> rebuilt(values.items[i])]
                          \o <<Line(p, p, 1, TRUE)>>])

\* handleRemove compares the missing value of the clicked line with the missing
\* value of every line: all go.
handleRemove ==
    /\ Has(mod, "items") /\ values.items # <<>>
    /\ Edited([values EXCEPT !.items = <<>>])

\* The values in which every line with this product_id has quantity n.
handleUpdateQuantity(id, n) ==
    [values EXCEPT
      !.items = [i \in 1..Len(values.items) |->
                   IF values.items[i].product_id = id
                   THEN [values.items[i] EXCEPT !.quantity = n]
                   ELSE values.items[i]]]

-----------------------------------------------------------------------------
(* Saving.                                                                 *)

\* The form's submit event finds the values v.  Neither it nor FormPage looks at
\* isSaving.  An invalid form only shows its errors.
handleSubmit(v) ==
    /\ form = "open"
    /\ values' = v
    /\ \/ /\ validateForm(mod, v)
          /\ Len(saves) < MaxSaves
          /\ saves' = Append(saves, [mount |-> mounts, module |-> mod])
          /\ saving' = TRUE
       \/ /\ ~validateForm(mod, v)
          /\ UNCHANGED <<saves, saving>>
    /\ UNCHANGED <<form, mod, edit, initial, mounts, options, offered, found>>

PressSave_NotDisabled ==
    /\ validateForm(mod, values)
    /\ handleSubmit(values)

\* The form's own button, which is disabled while saving.
PressSave ==
    /\ ~saving
    /\ validateForm(mod, values)
    /\ handleSubmit(values)

handleDecreaseQuantity_NoFloor(i) ==
    /\ i \in 1..Len(values.items)
    /\ handleSubmit(handleUpdateQuantity(values.items[i].product_id, values.items[i].quantity - 1))

\* The buttons of the summary set the quantity of every line with the product_id
\* of theirs.  They have no type, so a click goes on to submit the form with the
\* new quantities, whether or not a save is in flight.
handleIncreaseQuantity(i) ==
    /\ i \in 1..Len(values.items) /\ values.items[i].quantity < MaxQuantity
    /\ handleSubmit(handleUpdateQuantity(values.items[i].product_id, values.items[i].quantity + 1))

\* A click that brings the line to one disables its button; whether that comes
\* before the submit depends on when the page is rendered.
handleDecreaseQuantity(i) ==
    /\ i \in 1..Len(values.items) /\ values.items[i].quantity > 1
    /\ LET v == handleUpdateQuantity(values.items[i].product_id, values.items[i].quantity - 1)
       IN  \/ handleSubmit(v)
           \/ values.items[i].quantity = 2 /\ Edited(v)

AnswerSave_AnyForm(i) ==
    /\ i \in 1..Len(saves)
    /\ saves' = RemoveAt(saves, i)
    /\ \/ Unmount
       \/ /\ saving' = FALSE
          /\ UNCHANGED <<form, edit, initial, values, options, offered>>
    /\ UNCHANGED <<mod, mounts, found>>

AnswerSave_KeepSaving(i) ==
    /\ i \in 1..Len(saves)
    /\ saves' = RemoveAt(saves, i)
    /\ \/ Unmount
       \/ UNCHANGED <<form, edit, saving, initial, values, options, offered>>
    /\ UNCHANGED <<mod, mounts, found>>

\* A success navigates to the list from wherever the user is by then; a failure
\* gives the form back, if it is still there.
AnswerSave(i) ==
    /\ i \in 1..Len(saves)
    /\ saves' = RemoveAt(saves, i)
    /\ \/ Unmount
       \/ /\ saving' = (saving /\ saves[i].mount # mounts)
          /\ UNCHANGED <<form, edit, initial, values, options, offered>>
    /\ UNCHANGED <<mod, mounts, found>>

-----------------------------------------------------------------------------
Next ==
    \/ \E m \in Modules : OpenCreate(m) \/ OpenEdit(m)
    \/ fetchItem \/ Leave
    \/ \E n \in {values.plain - 1, values.plain + 1} : handleChange(n)
    \/ \E f \in CheckedNames(mod), x \in {"empty", "bad", "ok"} : ChangeChecked(f, x)
    \/ \E s \in Searches : fetchOptions(s)
    \/ Stale
    \/ \E p \in Products : PickProduct(p) \/ handleSelect(p)
    \/ handleRemove
    \/ \E i \in 1..MaxItems : handleIncreaseQuantity(i) \/ handleDecreaseQuantity(i)
    \/ PressSave
    \/ \E i \in 1..MaxSaves : AnswerSave(i)

Spec == Init /\ [][Next]_vars

\* Every save is answered: the API client aborts a request after its timeout.
FairSpec == Spec /\ WF_vars(\E i \in 1..MaxSaves : AnswerSave(i))

-----------------------------------------------------------------------------
(* Properties.                                                             *)

\* The types of the state; the quantity of an order line is never below one,
\* although one click changes several lines.
TypeOK ==
    /\ form \in {"none", "loading", "open"} /\ mod \in Modules
    /\ edit \in BOOLEAN /\ saving \in BOOLEAN
    /\ values.plain \in 0..PlainCount(mod) /\ initial.plain \in {0, PlainCount(mod)}
    /\ values.sku \in Products \cup {""} /\ values.product \in Products \cup {""}
    /\ \A i \in 1..Len(values.items) : values.items[i].quantity \in 1..MaxQuantity
    /\ mounts \in 0..MaxForms
    /\ options \subseteq Products /\ offered \subseteq Products

\* The forms of five modules have at most one save in flight, however often they
\* are submitted and whatever is changed or left meanwhile: nothing is created
\* twice.  The order form is the exception: the quantity buttons of its lines
\* send another save with every click.
OneSavePerForm ==
    \A i, j \in 1..Len(saves) :
        saves[i].mount = saves[j].mount /\ saves[i].module # "orders" => i = j

\* The save button says whether this form's save is in flight: a late answer to
\* the save of a form that was left neither enables it too early nor leaves it
\* disabled.  In the order form a failure can enable it while another of the
\* form's saves is in flight, but it is never disabled without one.
SavingIsInFlight ==
    LET own == \E i \in 1..Len(saves) : saves[i].mount = mounts
    IN  /\ form = "open" /\ saving => own
        /\ form = "open" /\ own /\ mod # "orders" => saving

\* A form that is saving does not stay so: the save succeeds and the list is
\* shown, or it fails and the form can be submitted again.
SavingEnds == (form = "open" /\ saving) ~> ~(form = "open" /\ saving)
=============================================================================
