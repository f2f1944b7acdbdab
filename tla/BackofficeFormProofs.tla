------------------------ MODULE BackofficeFormProofs ------------------------
(***************************************************************************)
(* Theorems about BackofficeForm, for any number of forms, order lines and *)
(* quantities.                                                             *)
(***************************************************************************)
EXTENDS BackofficeForm, FiniteSetTheorems, TLAPS

\* Order lines; only a form with an item list has any.
Lines == [product_id : Products \cup {"lost"}, sku : Products,
          quantity : 1..MaxQuantity, priced : BOOLEAN]

ItemLists(m) == IF Has(m, "items") THEN Seq(Lines) ELSE {<<>>}

\* The values a form of module m can hold.
Values(m) ==
    [plain : 0..PlainCount(m), checked : [CheckedNames(m) -> {"empty", "bad", "ok"}],
     product : Products \cup {""}, sku : Products \cup {""}, listed : BOOLEAN,
     items : ItemLists(m)]

SaveRecords == [mount : Nat, module : Modules]

ValuesOK ==
    /\ form \in {"none", "loading", "open"} /\ mod \in Modules
    /\ edit \in BOOLEAN /\ saving \in BOOLEAN
    /\ values \in Values(mod)
    /\ initial \in Values(mod) /\ initial.plain \in {0, PlainCount(mod)}
    /\ mounts \in 0..MaxForms
    /\ options \subseteq Products /\ offered \subseteq Products

\* No save of the form on the screen is in flight.
NoneInFlight == \A i \in 1..Len(saves) : saves[i].mount # mounts

\* No save is of a form that is not opened yet; outside the order form the button
\* is enabled exactly while no save of the form is in flight.
SavesOK ==
    /\ saves \in Seq(SaveRecords)
    /\ \A i \in 1..Len(saves) :
          /\ saves[i].mount <= mounts
          /\ saves[i].mount = mounts => saves[i].module = mod
    /\ form # "none" /\ saving = FALSE /\ mod # "orders" => NoneInFlight
    /\ form # "none" /\ saving = TRUE => ~NoneInFlight

\* Inductive.
IInv == ValuesOK /\ SavesOK /\ OneSavePerForm

-----------------------------------------------------------------------------
(* Sequences and the configurations *)

\* What is left of a sequence without its i-th element.
LEMMA RemoveAtProperties ==
    ASSUME NEW S, NEW s \in Seq(S), NEW i \in 1..Len(s)
    PROVE  /\ RemoveAt(s, i) \in Seq(S)
           /\ Len(RemoveAt(s, i)) = Len(s) - 1
           /\ \A j \in 1..(Len(s) - 1) :
                 RemoveAt(s, i)[j] = IF j < i THEN s[j] ELSE s[j + 1]
<1> DEFINE a == SubSeq(s, 1, i - 1)
           b == SubSeq(s, i + 1, Len(s))
<1>1. /\ a \in Seq(S) /\ Len(a) = i - 1
      /\ \A j \in 1..(i - 1) : a[j] = s[j]
  OBVIOUS
<1>2. /\ b \in Seq(S) /\ Len(b) = Len(s) - i
      /\ \A j \in 1..(Len(s) - i) : b[j] = s[i + j]
  OBVIOUS
<1>3. RemoveAt(s, i) = a \o b
  BY DEF RemoveAt
<1> HIDE DEF a, b
<1>0. Len(s) \in Nat /\ i \in 1..Len(s)
  OBVIOUS
<1>4. /\ a \o b \in Seq(S) /\ Len(a \o b) = Len(s) - 1
  <2>0. a \in Seq(S) /\ b \in Seq(S)
    BY <1>1, <1>2
  <2>1. a \o b \in Seq(S) /\ Len(a \o b) = Len(a) + Len(b)
    BY <2>0
  <2>2. (i - 1) + (Len(s) - i) = Len(s) - 1
    BY <1>0
  <2>3. QED
    BY <1>1, <1>2, <2>1, <2>2
<1>5. ASSUME NEW j \in 1..(Len(s) - 1)
      PROVE  (a \o b)[j] = IF j < i THEN s[j] ELSE s[j + 1]
  <2>1. CASE j < i
    BY <1>1, <1>2, <2>1
  <2>2. CASE ~(j < i)
    <3>1. (a \o b)[j] = b[j - (i - 1)]
      BY <1>1, <1>2, <2>2
    <3>2. j - (i - 1) \in 1..(Len(s) - i) /\ i + (j - (i - 1)) = j + 1
      BY <2>2
    <3>3. b[j - (i - 1)] = s[i + (j - (i - 1))]
      BY <1>2, <3>2
    <3>4. QED
      BY <2>2, <3>1, <3>2, <3>3
  <2>3. QED
    BY <2>1, <2>2
<1>6. QED
  BY <1>3, <1>4, <1>5

\* Adding a few elements.
LEMMA AddSix ==
    ASSUME NEW S, IsFiniteSet(S), NEW a, NEW b, NEW c, NEW d, NEW e, NEW f
    PROVE  IsFiniteSet(S \cup {a, b, c, d, e, f})
<1>1. IsFiniteSet(S \cup {a})
  BY FS_AddElement
<1>2. IsFiniteSet((S \cup {a}) \cup {b})
  BY <1>1, FS_AddElement
<1>3. IsFiniteSet(((S \cup {a}) \cup {b}) \cup {c})
  BY <1>2, FS_AddElement
<1>4. IsFiniteSet((((S \cup {a}) \cup {b}) \cup {c}) \cup {d})
  BY <1>3, FS_AddElement
<1>5. IsFiniteSet(((((S \cup {a}) \cup {b}) \cup {c}) \cup {d}) \cup {e})
  BY <1>4, FS_AddElement
<1>6. IsFiniteSet((((((S \cup {a}) \cup {b}) \cup {c}) \cup {d}) \cup {e}) \cup {f})
  BY <1>5, FS_AddElement
<1>7. S \cup {a, b, c, d, e, f} = (((((S \cup {a}) \cup {b}) \cup {c}) \cup {d}) \cup {e}) \cup {f}
  OBVIOUS
<1>8. QED
  BY <1>6, <1>7

\* Every configuration is a finite set of fields.
LEMMA FiniteForms == \A m \in Modules : IsFiniteSet(initialize[m])
<1>0. IsFiniteSet({})
  BY FS_EmptySet
<1>1. IsFiniteSet(customerForm)
  <2>1. customerForm = {} \cup {Required("name"), Checked("email"), Optional("phone"),
                                Optional("phone"), Optional("phone"), Optional("phone")}
    BY DEF customerForm
  <2>2. QED
    BY <1>0, <2>1, AddSix
<1>2. IsFiniteSet(warehouseForm)
  <2> DEFINE s1 == {} \cup {Required("name"), Required("code"), Required("location"),
                            Required("address_line1"), Required("city"), Required("state")}
             s2 == s1 \cup {Required("postal_code"), Required("country"), Required("status"),
                            Required("price"), Optional("address_line2"), Optional("contact_name")}
             s3 == s2 \cup {Optional("contact_email"), Optional("contact_phone"),
                            Optional("description"), Optional("description"),
                            Optional("description"), Optional("description")}
  <2>1. IsFiniteSet(s1)
    BY <1>0, AddSix
  <2>2. IsFiniteSet(s2)
    <3> HIDE DEF s1
    <3> QED BY <2>1, AddSix
  <2>3. IsFiniteSet(s3)
    <3> HIDE DEF s2
    <3> QED BY <2>2, AddSix
  <2>4. warehouseForm = s3
    BY DEF warehouseForm
  <2>5. QED
    BY <2>3, <2>4
<1>3. IsFiniteSet(inventoryForm)
  <2> DEFINE s1 == {} \cup {Required("sku"), Required("name"), Required("category"),
                            Required("warehouse_id"), Required("quantity"), Required("price")}
             s2 == s1 \cup {Optional("description"), Optional("attributes"),
                            Optional("low_stock_threshold"), Optional("overstock_threshold"),
                            Optional("description"), Optional("description")}
  <2>1. IsFiniteSet(s1)
    BY <1>0, AddSix
  <2>2. IsFiniteSet(s2)
    <3> HIDE DEF s1
    <3> QED BY <2>1, AddSix
  <2>3. inventoryForm = s2
    BY DEF inventoryForm
  <2>4. QED
    BY <2>2, <2>3
<1>4. IsFiniteSet(transactionForm)
  <2>1. transactionForm = {} \cup {Picker("item_id"), Hidden("sku"), Required("warehouse_id"),
                                   Checked("quantity"), Required("transaction_type"),
                                   Optional("reference")}
    BY DEF transactionForm
  <2>2. QED
    BY <1>0, <2>1, AddSix
<1>5. IsFiniteSet(reservationForm)
  <2>1. reservationForm = {} \cup {Required("order_id"), Picker("product_id"),
                                   HiddenRequired("sku"), Checked("quantity"),
                                   Required("status"), Optional("expires_at")}
    BY DEF reservationForm
  <2>2. QED
    BY <1>0, <2>1, AddSix
<1>6. IsFiniteSet(orderForm)
  <2> DEFINE s1 == {} \cup {Required("customer_id"), ItemList("items"), ShippingInfoField,
                            PaymentInfoField, Optional("notes"), Required("currency")}
  <2>1. IsFiniteSet(s1)
    BY <1>0, AddSix
  <2>2. IsFiniteSet(s1 \cup {Required("status")})
    <3> HIDE DEF s1
    <3> QED BY <2>1, FS_AddElement
  <2>3. orderForm = s1 \cup {Required("status")}
    BY DEF orderForm
  <2>4. QED
    BY <2>2, <2>3
<1>7. QED
  BY <1>1, <1>2, <1>3, <1>4, <1>5, <1>6 DEF Modules, initialize

\* The number of required fields without a rule is a number.
LEMMA PlainCountNat == \A m \in Modules : PlainCount(m) \in Nat
<1>1. TAKE m \in Modules
<1>2. Fields(m, "required") \in SUBSET initialize[m]
  BY DEF Fields
<1>3. IsFiniteSet(Fields(m, "required"))
  BY <1>2, FiniteForms, FS_Subset
<1>4. QED
  BY <1>3, FS_CardinalityType DEF PlainCount

\* Only orders have an item list.
LEMMA ItemsOfOrders == \A m \in Modules : Has(m, "items") => m = "orders"
<1> SUFFICES ASSUME NEW m \in Modules, m # "orders" PROVE ~Has(m, "items")
  OBVIOUS
<1>1. m \in {"customers", "warehouses", "inventory", "transactions", "reservations"}
  BY DEF Modules, initialize
<1>2. \A f \in initialize["customers"] : f.rule # "items"
  BY DEF initialize, customerForm, Required, Checked, Optional
<1>3. \A f \in initialize["warehouses"] : f.rule # "items"
  BY DEF initialize, warehouseForm, Required, Optional
<1>4. \A f \in initialize["inventory"] : f.rule # "items"
  BY DEF initialize, inventoryForm, Required, Optional
<1>5. \A f \in initialize["transactions"] : f.rule # "items"
  BY DEF initialize, transactionForm, Required, Checked, Optional, Picker, Hidden
<1>6. \A f \in initialize["reservations"] : f.rule # "items"
  <2>1. \A n : /\ Required(n).rule # "items" /\ Checked(n).rule # "items"
               /\ Optional(n).rule # "items" /\ Picker(n).rule # "items"
    BY DEF Required, Checked, Optional, Picker
  <2>2. HiddenRequired("sku").rule # "items"
    <3>1. HiddenRequired("sku").rule = "hidden required"
      BY DEF HiddenRequired
    <3>2. QED
      BY <3>1
  <2>3. QED
    BY <2>1, <2>2 DEF initialize, reservationForm
<1>7. QED
  BY <1>1, <1>2, <1>3, <1>4, <1>5, <1>6 DEF Has, Fields

-----------------------------------------------------------------------------
(* Values keep their types *)

\* The lines of any form.
LEMMA ItemsType ==
    ASSUME NEW m \in Modules, NEW v \in Values(m)
    PROVE  v.items \in Seq(Lines) /\ (v.items # <<>> => Has(m, "items"))
<1>1. v.items \in ItemLists(m)
  BY DEF Values
<1>2. << >> \in Seq(Lines)
  OBVIOUS
<1>3. QED
  BY <1>1, <1>2 DEF ItemLists

\* An empty form.
LEMMA BlankType == \A m \in Modules : Blank(m) \in Values(m) /\ Blank(m).plain = 0
<1>1. TAKE m \in Modules
<1>2. PlainCount(m) \in Nat
  BY PlainCountNat
<1>3. 0 \in 0..PlainCount(m)
  BY <1>2
<1>4. [f \in CheckedNames(m) |-> "empty"] \in [CheckedNames(m) -> {"empty", "bad", "ok"}]
  OBVIOUS
<1>5. << >> \in ItemLists(m)
  <2>1. << >> \in Seq(Lines)
    OBVIOUS
  <2>2. QED
    BY <2>1 DEF ItemLists
<1>6. QED
  BY <1>3, <1>4, <1>5 DEF Blank, Values

\* A line.
LEMMA LineType ==
    \A id \in Products \cup {"lost"}, sku \in Products, n \in 1..MaxQuantity, b \in BOOLEAN :
        Line(id, sku, n, b) \in Lines
BY DEF Line, Lines

\* A loaded form.
LEMMA RowType == \A m \in Modules : Row(m) \in Values(m) /\ Row(m).plain = PlainCount(m)
<1>1. TAKE m \in Modules
<1>2. PlainCount(m) \in Nat
  BY PlainCountNat
<1>3. PlainCount(m) \in 0..PlainCount(m)
  BY <1>2
<1>4. [f \in CheckedNames(m) |-> "ok"] \in [CheckedNames(m) -> {"empty", "bad", "ok"}]
  OBVIOUS
<1>5. Line("p1", "p1", 1, TRUE) \in Lines
  <2>1. 1 \in 1..MaxQuantity
    BY BackofficeFormAssumption
  <2>2. QED
    BY <2>1, LineType DEF Products
<1>6. (IF Has(m, "items") THEN <<Line("p1", "p1", 1, TRUE)>> ELSE <<>>) \in ItemLists(m)
  <2> DEFINE l == Line("p1", "p1", 1, TRUE)
  <2>1. l \in Lines
    BY <1>5
  <2> HIDE DEF l
  <2>2. <<l>> \in Seq(Lines) /\ << >> \in Seq(Lines)
    BY <2>1
  <2>3. QED
    BY <2>2 DEF l, ItemLists
<1>7. (IF Has(m, "picker") THEN "p1" ELSE "") \in Products \cup {""}
  BY DEF Products
<1>8. Has(m, "items") \in BOOLEAN
  BY DEF Has
<1>9. QED
  BY <1>3, <1>4, <1>6, <1>7, <1>8 DEF Row, Values

\* What the picker remembers and shows.
LEMMA CachedType == ASSUME NEW s PROVE CachedList(s) \subseteq Products
<1>1. CASE \E l \in SUBSET Products : <<s, l>> \in found
  <2>1. (CHOOSE l \in SUBSET Products : <<s, l>> \in found) \in SUBSET Products
    BY <1>1
  <2>2. QED
    BY <1>1, <2>1 DEF CachedList
<1>2. CASE ~\E l \in SUBSET Products : <<s, l>> \in found
  BY <1>2 DEF CachedList
<1>3. QED
  BY <1>1, <1>2

\* A field without a rule gets or loses its value.
LEMMA PlainEdit ==
    ASSUME NEW m \in Modules, NEW v \in Values(m), NEW n \in 0..PlainCount(m)
    PROVE  [v EXCEPT !.plain = n] \in Values(m)
BY DEF Values

\* A field with a rule gets another value.
LEMMA CheckedEdit ==
    ASSUME NEW m \in Modules, NEW v \in Values(m), NEW f \in CheckedNames(m),
           NEW x \in {"empty", "bad", "ok"}
    PROVE  [v EXCEPT !.checked[f] = x] \in Values(m)
BY DEF Values

\* A product, or its sku, is set.
LEMMA SkuEdit ==
    ASSUME NEW m \in Modules, NEW v \in Values(m), NEW p \in Products
    PROVE  [v EXCEPT !.sku = p] \in Values(m) /\ [v EXCEPT !.product = p] \in Values(m)
BY DEF Values

\* The lines of an order are replaced.
LEMMA ItemsEdit ==
    ASSUME NEW m \in Modules, NEW v \in Values(m), NEW q \in ItemLists(m)
    PROVE  [v EXCEPT !.items = q] \in Values(m)
BY DEF Values

\* The lines are replaced and count as a value.
LEMMA SelectEdit ==
    ASSUME NEW m \in Modules, NEW v \in Values(m), NEW q \in ItemLists(m)
    PROVE  [v EXCEPT !.listed = TRUE, !.items = q] \in Values(m)
BY DEF Values

-----------------------------------------------------------------------------
(* Every step keeps the invariant *)

\* Nothing about the saves depends on what is typed.
LEMMA SavesKept ==
    ASSUME SavesOK, OneSavePerForm,
           UNCHANGED <<mod, saves, mounts>>,
           form' # "none" => form # "none" /\ saving' = saving
    PROVE  SavesOK' /\ OneSavePerForm'
<1>1. NoneInFlight' <=> NoneInFlight
  BY DEF NoneInFlight
<1>2. SavesOK'
  BY <1>1 DEF SavesOK
<1>3. OneSavePerForm'
  BY DEF OneSavePerForm
<1>4. QED
  BY <1>2, <1>3

\* An edit that keeps the types keeps the invariant.
LEMMA EditedInv ==
    ASSUME IInv, NEW v \in Values(mod), Edited(v)
    PROVE  IInv'
<1>1. ValuesOK'
  BY DEF IInv, ValuesOK, Edited
<1>2. SavesOK' /\ OneSavePerForm'
  BY SavesKept DEF IInv, Edited
<1>3. QED
  BY <1>1, <1>2 DEF IInv

\* A form is mounted with values of its module.
LEMMA MountValues ==
    ASSUME NEW m \in Modules, NEW v \in Values(m), v.plain \in {0, PlainCount(m)},
           Mount(m, v), mod' = m
    PROVE  /\ values' \in Values(mod)' /\ initial' \in Values(mod)'
           /\ initial'.plain \in {0, PlainCount(mod')}
           /\ options' \subseteq Products /\ offered' \subseteq Products
<1>1. Values(mod)' = Values(m)
  BY DEF Values
<1>2. offered' \subseteq Products
  BY CachedType DEF Mount
<1>3. QED
  BY <1>1, <1>2 DEF Mount

\* A new form: the saves in flight are of earlier ones.
LEMMA OpenSaves ==
    ASSUME IInv, mounts' = mounts + 1, saves' = saves, saving' = FALSE
    PROVE  SavesOK' /\ OneSavePerForm'
<1>1. mounts \in Nat /\ mounts' \in Nat
  BY BackofficeFormAssumption DEF IInv, ValuesOK
<1>2. ASSUME NEW i \in 1..Len(saves) PROVE saves[i].mount \in Nat /\ saves[i].mount <= mounts
  <2>1. saves[i] \in SaveRecords
    BY DEF IInv, SavesOK
  <2>2. QED
    BY <2>1 DEF IInv, SavesOK, SaveRecords
<1>3. ASSUME NEW i \in 1..Len(saves) PROVE saves[i].mount <= mounts' /\ saves[i].mount # mounts'
  BY <1>1, <1>2
<1>4. NoneInFlight'
  BY <1>3 DEF NoneInFlight
<1>5. SavesOK'
  BY <1>3, <1>4 DEF IInv, SavesOK
<1>6. OneSavePerForm'
  BY DEF IInv, OneSavePerForm
<1>7. QED
  BY <1>5, <1>6

\* Opening an empty form.
LEMMA OpenCreateInv == ASSUME IInv, NEW m \in Modules, OpenCreate(m) PROVE IInv'
<1>1. mounts' \in 0..MaxForms
  BY BackofficeFormAssumption DEF IInv, ValuesOK, OpenCreate
<1>2. /\ values' \in Values(mod)' /\ initial' \in Values(mod)'
      /\ initial'.plain \in {0, PlainCount(mod')}
      /\ options' \subseteq Products /\ offered' \subseteq Products
  BY BlankType, MountValues DEF OpenCreate
<1>3. ValuesOK'
  BY <1>1, <1>2 DEF OpenCreate, ValuesOK
<1>4. QED
  BY <1>3, OpenSaves DEF OpenCreate, IInv

\* Opening the form of a row that is still to be fetched.
LEMMA OpenEditInv == ASSUME IInv, NEW m \in Modules, OpenEdit(m) PROVE IInv'
<1>1. mounts' \in 0..MaxForms
  BY BackofficeFormAssumption DEF IInv, ValuesOK, OpenEdit
<1>2. /\ values' \in Values(mod)' /\ initial' \in Values(mod)'
      /\ initial'.plain \in {0, PlainCount(mod')}
  <2>1. Values(mod)' = Values(m)
    BY DEF Values, OpenEdit
  <2>2. QED
    BY <2>1, BlankType DEF OpenEdit
<1>3. ValuesOK'
  BY <1>1, <1>2 DEF OpenEdit, ValuesOK, IInv
<1>4. QED
  BY <1>3, OpenSaves DEF OpenEdit, IInv

\* The row arrives, or not.
LEMMA FetchItemInv == ASSUME IInv, fetchItem PROVE IInv'
<1>1. mod \in Modules /\ mod' = mod
  BY DEF IInv, ValuesOK, fetchItem
<1>2. /\ values' \in Values(mod)' /\ initial' \in Values(mod)'
      /\ initial'.plain \in {0, PlainCount(mod')}
      /\ options' \subseteq Products /\ offered' \subseteq Products
  <2>1. CASE Mount(mod, Row(mod))
    BY <1>1, <2>1, RowType, MountValues
  <2>2. CASE Mount(mod, Blank(mod))
    BY <1>1, <2>2, BlankType, MountValues
  <2>3. QED
    BY <2>1, <2>2 DEF fetchItem
<1>3. ValuesOK'
  BY <1>2 DEF fetchItem, ValuesOK, IInv
<1>4. SavesOK' /\ OneSavePerForm'
  BY SavesKept DEF fetchItem, IInv
<1>5. QED
  BY <1>3, <1>4 DEF IInv

\* A form that goes leaves empty values behind.
LEMMA UnmountValues ==
    ASSUME IInv, Unmount, UNCHANGED <<mod, mounts>>
    PROVE  ValuesOK'
<1>1. mod \in Modules /\ Values(mod)' = Values(mod)
  BY DEF IInv, ValuesOK, Values
<1>2. Blank(mod) \in Values(mod) /\ Blank(mod).plain = 0
  BY <1>1, BlankType
<1>3. QED
  BY <1>1, <1>2 DEF IInv, ValuesOK, Unmount

\* Leaving.
LEMMA LeaveInv == ASSUME IInv, Leave PROVE IInv'
<1>1. ValuesOK'
  BY UnmountValues DEF Leave
<1>2. SavesOK' /\ OneSavePerForm'
  BY SavesKept DEF Leave, Unmount, IInv
<1>3. QED
  BY <1>1, <1>2 DEF IInv

\* Typing into a field without a rule.
LEMMA HandleChangeInv == ASSUME IInv, NEW n, handleChange(n) PROVE IInv'
<1>1. mod \in Modules /\ values \in Values(mod)
  BY DEF IInv, ValuesOK
<1>2. [values EXCEPT !.plain = n] \in Values(mod)
  BY <1>1, PlainEdit DEF handleChange
<1>3. QED
  BY <1>2, EditedInv DEF handleChange

\* Typing into a field with a rule.
LEMMA ChangeCheckedInv ==
    ASSUME IInv, NEW f \in CheckedNames(mod), NEW x \in {"empty", "bad", "ok"},
           ChangeChecked(f, x)
    PROVE  IInv'
<1>1. mod \in Modules /\ values \in Values(mod)
  BY DEF IInv, ValuesOK
<1>2. [values EXCEPT !.checked[f] = x] \in Values(mod)
  BY <1>1, CheckedEdit
<1>3. QED
  BY <1>2, EditedInv DEF ChangeChecked

\* The picker's list.
LEMMA FetchOptionsInv == ASSUME IInv, NEW s \in Searches, fetchOptions(s) PROVE IInv'
<1>1. Matching(s) \subseteq Products /\ CachedList(s) \subseteq Products
  BY CachedType DEF Searches, Matching, Products
<1>2. offered' \subseteq Products /\ options' \subseteq Products
  BY <1>1 DEF fetchOptions, IInv, ValuesOK
<1>3. ValuesOK'
  BY <1>2 DEF fetchOptions, IInv, ValuesOK
<1>4. SavesOK' /\ OneSavePerForm'
  BY SavesKept DEF fetchOptions, IInv
<1>5. QED
  BY <1>3, <1>4 DEF IInv

\* The cache forgets.
LEMMA StaleInv == ASSUME IInv, Stale PROVE IInv'
<1>1. ValuesOK'
  BY DEF Stale, IInv, ValuesOK
<1>2. SavesOK' /\ OneSavePerForm'
  BY SavesKept DEF Stale, IInv
<1>3. QED
  BY <1>1, <1>2 DEF IInv

\* A product is picked: the form keeps it, or goes back to its first render.
LEMMA PickProductInv == ASSUME IInv, NEW p \in Products, PickProduct(p) PROVE IInv'
<1>1. mod \in Modules /\ values \in Values(mod) /\ initial \in Values(mod)
  BY DEF IInv, ValuesOK
<1>2. [initial EXCEPT !.sku = p] \in Values(mod) /\ [values EXCEPT !.product = p] \in Values(mod)
  BY <1>1, SkuEdit
<1>3. QED
  BY <1>2, EditedInv DEF PickProduct
\* Lines are rebuilt, and a new one is added.
LEMMA HandleSelectInv == ASSUME IInv, NEW p \in Products, handleSelect(p) PROVE IInv'
<1>1. mod \in Modules /\ values \in Values(mod) /\ values.items \in Seq(Lines)
  BY ItemsType DEF IInv, ValuesOK
<1> DEFINE n == Len(values.items)
           old == [i \in 1..n |-> rebuilt(values.items[i])]
           new == Line(p, p, 1, TRUE)
<1>2. new \in Lines
  <2>1. 1 \in 1..MaxQuantity
    BY BackofficeFormAssumption
  <2>2. QED
    BY <2>1, LineType
<1>3. ASSUME NEW i \in 1..n PROVE rebuilt(values.items[i]) \in Lines
  <2>1. values.items[i] \in Lines
    BY <1>1
  <2>2. QED
    BY <2>1 DEF rebuilt, Line, Lines
<1>4. old \in Seq(Lines)
  <2>1. n \in Nat
    BY <1>1
  <2> HIDE DEF n
  <2>2. QED
    BY <1>3, <2>1
<1>5. old \o <<new>> \in Seq(Lines)
  <2> HIDE DEF old, new
  <2>1. QED
    BY <1>2, <1>4
<1>6. [values EXCEPT !.listed = TRUE, !.items = old \o <<new>>] \in Values(mod)
  <2> DEFINE q == old \o <<new>>
  <2>1. q \in ItemLists(mod)
    <3>1. Has(mod, "items")
      BY DEF handleSelect
    <3>2. QED
      BY <1>5, <3>1 DEF ItemLists
  <2> HIDE DEF q
  <2>2. [values EXCEPT !.listed = TRUE, !.items = q] \in Values(mod)
    BY <1>1, <2>1, SelectEdit
  <2>3. QED
    BY <2>2 DEF q
<1>7. QED
  BY <1>6, EditedInv DEF handleSelect

\* All lines go.
LEMMA HandleRemoveInv == ASSUME IInv, handleRemove PROVE IInv'
<1>1. mod \in Modules /\ values \in Values(mod)
  BY DEF IInv, ValuesOK
<1>2. << >> \in ItemLists(mod)
  <2>1. << >> \in Seq(Lines)
    OBVIOUS
  <2>2. QED
    BY <2>1 DEF ItemLists
<1>3. [values EXCEPT !.items = << >>] \in Values(mod)
  BY <1>1, <1>2, ItemsEdit
<1>4. QED
  BY <1>3, EditedInv DEF handleRemove

\* One click sets the quantity of every line of the same product.
LEMMA QuantityEdit ==
    ASSUME IInv, values.items # << >>, NEW id, NEW n \in 1..MaxQuantity
    PROVE  handleUpdateQuantity(id, n) \in Values(mod)
<1>1. mod \in Modules /\ values \in Values(mod) /\ values.items \in Seq(Lines)
  BY ItemsType DEF IInv, ValuesOK
<1> DEFINE len == Len(values.items)
           line(i) == IF values.items[i].product_id = id
                      THEN [values.items[i] EXCEPT !.quantity = n]
                      ELSE values.items[i]
<1>2. ASSUME NEW i \in 1..len PROVE line(i) \in Lines
  <2>1. values.items[i] \in Lines
    BY <1>1
  <2>2. QED
    BY <2>1 DEF Lines
<1>3. [i \in 1..len |-> line(i)] \in Seq(Lines)
  <2>1. len \in Nat
    BY <1>1
  <2> HIDE DEF len, line
  <2>2. QED
    BY <1>2, <2>1
<1>4. [values EXCEPT !.items = [i \in 1..len |-> line(i)]] \in Values(mod)
  <2> DEFINE q == [i \in 1..len |-> line(i)]
  <2>1. q \in ItemLists(mod)
    BY <1>1, <1>3, ItemsType DEF ItemLists
  <2> HIDE DEF q
  <2>2. [values EXCEPT !.items = q] \in Values(mod)
    BY <1>1, <2>1, ItemsEdit
  <2>3. QED
    BY <2>2 DEF q
<1>5. QED
  BY <1>4 DEF handleUpdateQuantity

\* A submission may come while a save of the form is in flight only where the
\* order form's quantity buttons send it.
LEMMA HandleSubmitInv ==
    ASSUME IInv, NEW v \in Values(mod), handleSubmit(v), mod = "orders" \/ saving = FALSE
    PROVE  IInv'
<1>1. /\ form = "open" /\ values' = v
      /\ UNCHANGED <<form, mod, edit, initial, mounts, options, offered, found>>
  BY DEF handleSubmit
<1>2. mod \in Modules /\ edit \in BOOLEAN /\ mounts \in Nat
  BY BackofficeFormAssumption DEF IInv, ValuesOK
<1>3. ValuesOK'
  <2>1. saving' \in BOOLEAN
    BY DEF IInv, ValuesOK, handleSubmit
  <2>2. QED
    BY <1>1, <2>1 DEF IInv, ValuesOK
<1>4. CASE UNCHANGED <<saves, saving>>
  <2>1. SavesOK' /\ OneSavePerForm'
    BY <1>1, <1>4, SavesKept DEF IInv
  <2>2. QED
    BY <1>3, <2>1 DEF IInv
<1> DEFINE r == [mount |-> mounts, module |-> mod]
<1>5. CASE saves' = Append(saves, r) /\ saving' = TRUE
  <2>1. r \in SaveRecords /\ r.mount = mounts /\ r.module = mod
    BY <1>2 DEF SaveRecords
  <2> HIDE DEF r
  <2>2. saves \in Seq(SaveRecords)
    BY DEF IInv, SavesOK
  <2>3. /\ saves' \in Seq(SaveRecords) /\ Len(saves') = Len(saves) + 1 /\ Len(saves) \in Nat
        /\ \A i \in 1..Len(saves) : saves'[i] = saves[i]
        /\ saves'[Len(saves) + 1] = r
    BY <1>5, <2>1, <2>2
  <2> DEFINE n == Len(saves)
  <2>4. n \in Nat /\ Len(saves') = n + 1
    BY <2>3
  <2>5. /\ \A i \in 1..(n + 1) : i \in 1..n \/ i = n + 1
        /\ n + 1 \in 1..(n + 1)
    <3> HIDE DEF n
    <3>1. QED
      BY <2>4
  <2>6. \A i \in 1..n : /\ saves'[i] = saves[i] /\ saves[i].mount <= mounts
                        /\ saves[i].mount = mounts => saves[i].module = mod
                        /\ mod # "orders" => saves[i].mount # mounts
    BY <1>1, <2>3 DEF IInv, SavesOK, NoneInFlight
  <2>7. ~NoneInFlight'
    BY <1>1, <2>1, <2>3, <2>4, <2>5 DEF NoneInFlight
  <2>8. SavesOK'
    <3>1. \A i \in 1..(n + 1) : /\ saves'[i].mount <= mounts
                                /\ saves'[i].mount = mounts => saves'[i].module = mod
      BY <1>2, <2>1, <2>3, <2>5, <2>6
    <3>2. QED
      BY <1>1, <1>5, <2>3, <2>4, <2>7, <3>1 DEF SavesOK
  <2>9. OneSavePerForm'
    <3>1. ASSUME NEW i \in 1..(n + 1), NEW j \in 1..(n + 1),
                 saves'[i].mount = saves'[j].mount, saves'[i].module # "orders"
          PROVE  i = j
      <4>1. CASE i \in 1..n /\ j \in 1..n
        BY <2>3, <3>1, <4>1 DEF IInv, OneSavePerForm
      <4>2. CASE i = n + 1 /\ j \in 1..n
        BY <2>1, <2>3, <2>6, <3>1, <4>2
      <4>3. CASE i \in 1..n /\ j = n + 1
        BY <2>1, <2>3, <2>6, <3>1, <4>3
      <4>4. QED
        BY <2>5, <4>1, <4>2, <4>3
    <3>2. QED
      BY <2>4, <3>1 DEF OneSavePerForm
  <2>10. QED
    BY <1>3, <2>8, <2>9 DEF IInv
<1>6. QED
  BY <1>4, <1>5 DEF handleSubmit

\* The form's own button.
LEMMA PressSaveInv == ASSUME IInv, PressSave PROVE IInv'
<1>1. saving = FALSE /\ values \in Values(mod) /\ handleSubmit(values)
  BY DEF PressSave, IInv, ValuesOK
<1>2. QED
  BY <1>1, HandleSubmitInv

\* The quantity buttons stay within the bounds, and only an order has them.
LEMMA QuantityInv ==
    ASSUME IInv, NEW i \in 1..MaxItems, handleIncreaseQuantity(i) \/ handleDecreaseQuantity(i)
    PROVE  IInv'
<1>1. i \in 1..Len(values.items)
  BY DEF handleIncreaseQuantity, handleDecreaseQuantity
<1>2. values.items[i].quantity \in 1..MaxQuantity
  <2>1. values.items \in Seq(Lines)
    BY ItemsType DEF IInv, ValuesOK
  <2>2. values.items[i] \in Lines
    BY <1>1, <2>1
  <2>3. QED
    BY <2>2 DEF Lines
<1>3. mod = "orders" /\ values.items # << >>
  <2>1. values.items # << >>
    BY <1>1
  <2>2. QED
    BY <2>1, ItemsType, ItemsOfOrders DEF IInv, ValuesOK
<1> DEFINE q == values.items[i].quantity
           v(n) == handleUpdateQuantity(values.items[i].product_id, n)
<1>4. CASE handleIncreaseQuantity(i)
  <2>1. q + 1 \in 1..MaxQuantity
    <3>1. q < MaxQuantity
      BY <1>4 DEF handleIncreaseQuantity
    <3> HIDE DEF q
    <3>2. QED
      BY <1>2, <3>1, BackofficeFormAssumption DEF q
  <2>2. v(q + 1) \in Values(mod)
    BY <1>3, <2>1, QuantityEdit
  <2>3. handleSubmit(v(q + 1))
    BY <1>4 DEF handleIncreaseQuantity
  <2> HIDE DEF v
  <2>4. QED
    BY <1>3, <2>2, <2>3, HandleSubmitInv
<1>5. CASE handleDecreaseQuantity(i)
  <2>1. q - 1 \in 1..MaxQuantity
    <3>1. q > 1
      BY <1>5 DEF handleDecreaseQuantity
    <3>2. QED
      BY <1>2, <3>1, BackofficeFormAssumption
  <2>2. v(q - 1) \in Values(mod)
    BY <1>3, <2>1, QuantityEdit
  <2>3. handleSubmit(v(q - 1)) \/ Edited(v(q - 1))
    BY <1>5 DEF handleDecreaseQuantity
  <2> HIDE DEF v
  <2>4. QED
    BY <1>3, <2>2, <2>3, HandleSubmitInv, EditedInv
<1>6. QED
  BY <1>4, <1>5

\* An answer takes one save away; a failure gives the form back, and no other
\* save of that form is left.
LEMMA AnswerSaveInv == ASSUME IInv, NEW i \in 1..MaxSaves, AnswerSave(i) PROVE IInv'
<1>1. /\ saves \in Seq(SaveRecords) /\ i \in 1..Len(saves)
      /\ saves' = RemoveAt(saves, i) /\ UNCHANGED <<mod, mounts, found>>
  BY DEF IInv, SavesOK, AnswerSave
<1>2. ValuesOK'
  <2>1. CASE Unmount
    BY <1>1, <2>1, UnmountValues
  <2>2. CASE /\ saving' = (saving /\ saves[i].mount # mounts)
             /\ UNCHANGED <<form, edit, initial, values, options, offered>>
    BY <1>1, <2>2 DEF IInv, ValuesOK
  <2>3. QED
    BY <2>1, <2>2 DEF AnswerSave
<1> DEFINE n == Len(saves)
           at(j) == IF j < i THEN j ELSE j + 1
<1>3. /\ saves' \in Seq(SaveRecords) /\ Len(saves') = n - 1 /\ n \in Nat
      /\ \A j \in 1..(n - 1) : saves'[j] = saves[at(j)]
  <2>1. \A j \in 1..(n - 1) : RemoveAt(saves, i)[j] = IF j < i THEN saves[j] ELSE saves[j + 1]
    BY <1>1, RemoveAtProperties
  <2>2. RemoveAt(saves, i) \in Seq(SaveRecords) /\ Len(RemoveAt(saves, i)) = n - 1
    BY <1>1, RemoveAtProperties
  <2>3. QED
    BY <1>1, <2>1, <2>2
<1>4. ASSUME NEW j \in 1..(n - 1)
      PROVE  /\ at(j) \in 1..n /\ at(j) # i
             /\ \A k \in 1..(n - 1) : at(j) = at(k) => j = k
  <2>1. n \in Nat /\ i \in 1..n
    BY <1>1, <1>3
  <2> HIDE DEF n
  <2>2. QED
    BY <2>1
<1> HIDE DEF at
<1>5. ASSUME NEW k \in 1..n, k # i PROVE \E j \in 1..(n - 1) : at(j) = k
  <2>1. n \in Nat /\ i \in 1..n
    BY <1>1, <1>3
  <2> DEFINE j == IF k < i THEN k ELSE k - 1
  <2> HIDE DEF n
  <2>2. j \in 1..(n - 1) /\ at(j) = k
    BY <1>5, <2>1 DEF at
  <2>3. QED
    BY <2>2
<1>6. OneSavePerForm'
  <2>1. ASSUME NEW j \in 1..(n - 1), NEW k \in 1..(n - 1),
               saves'[j].mount = saves'[k].mount, saves'[j].module # "orders"
        PROVE  j = k
    <3>1. at(j) = at(k)
      BY <1>3, <1>4, <2>1 DEF IInv, OneSavePerForm
    <3>2. QED
      BY <1>4, <3>1
  <2>2. QED
    BY <1>3, <2>1 DEF OneSavePerForm
<1>7. SavesOK'
  <2>1. \A j \in 1..(n - 1) : /\ saves'[j].mount <= mounts
                              /\ saves'[j].mount = mounts => saves'[j].module = mod
    BY <1>3, <1>4 DEF IInv, SavesOK
  <2>2. ASSUME form' # "none"
        PROVE  saving' = (saving /\ saves[i].mount # mounts) /\ form' = form
    BY <2>2 DEF AnswerSave, Unmount
  <2>3. ASSUME form' # "none", saving' = FALSE, mod # "orders" PROVE NoneInFlight'
    <3>1. CASE saving = FALSE
      <4>1. NoneInFlight
        BY <2>2, <2>3, <3>1 DEF IInv, SavesOK
      <4>2. QED
        BY <1>1, <1>3, <1>4, <4>1 DEF NoneInFlight
    <3>2. CASE saves[i].mount = mounts
      <4>1. saves[i].module = mod
        BY <1>1, <3>2 DEF IInv, SavesOK
      <4>2. \A j \in 1..(n - 1) : saves[at(j)].mount # mounts
        BY <1>1, <1>4, <2>3, <3>2, <4>1 DEF IInv, OneSavePerForm
      <4>3. QED
        BY <1>1, <1>3, <4>2 DEF NoneInFlight
    <3>3. QED
      BY <2>2, <2>3, <3>1, <3>2 DEF IInv, ValuesOK
  <2>4. ASSUME form' # "none", saving' = TRUE PROVE ~NoneInFlight'
    <3>1. saving = TRUE /\ saves[i].mount # mounts /\ form # "none"
      BY <2>2, <2>4 DEF IInv, ValuesOK
    <3>2. PICK k \in 1..n : saves[k].mount = mounts
      BY <3>1 DEF IInv, SavesOK, NoneInFlight
    <3>3. PICK j \in 1..(n - 1) : at(j) = k
      BY <1>5, <3>1, <3>2
    <3>4. saves'[j].mount = mounts' /\ j \in 1..Len(saves')
      BY <1>1, <1>3, <3>2, <3>3
    <3>5. QED
      BY <3>4 DEF NoneInFlight
  <2>5. QED
    BY <1>1, <1>3, <2>1, <2>3, <2>4 DEF SavesOK
<1>8. QED
  BY <1>2, <1>6, <1>7 DEF IInv

-----------------------------------------------------------------------------
(* Theorems *)

\* The first state.
LEMMA InitInv == Init => IInv
<1>1. HAVE Init
<1>2. mod \in Modules
  BY <1>1 DEF Init, Modules, initialize
<1>3. Blank(mod) \in Values(mod) /\ Blank(mod).plain = 0
  BY <1>2, BlankType
<1>4. ValuesOK
  <2>1. 0 \in 0..MaxForms
    BY BackofficeFormAssumption
  <2>2. initial = Blank(mod) /\ values = Blank(mod)
    BY <1>1 DEF Init
  <2>3. initial \in Values(mod) /\ values \in Values(mod) /\ initial.plain \in {0, PlainCount(mod)}
    BY <1>3, <2>2
  <2>4. QED
    BY <1>1, <1>2, <2>1, <2>3 DEF Init, ValuesOK
<1>5. saves = << >> /\ saves \in Seq(SaveRecords) /\ Len(saves) = 0
  BY <1>1 DEF Init
<1>6. SavesOK /\ OneSavePerForm
  BY <1>1, <1>5 DEF Init, SavesOK, OneSavePerForm, NoneInFlight
<1>7. QED
  BY <1>4, <1>6 DEF IInv

\* Every step.
LEMMA NextInv == IInv /\ [Next]_vars => IInv'
<1> SUFFICES ASSUME IInv, [Next]_vars PROVE IInv'
  OBVIOUS
<1>1. ASSUME NEW m \in Modules, OpenCreate(m) \/ OpenEdit(m) PROVE IInv'
  BY <1>1, OpenCreateInv, OpenEditInv
<1>2. CASE fetchItem \/ Leave \/ Stale \/ handleRemove
  BY <1>2, FetchItemInv, LeaveInv, StaleInv, HandleRemoveInv
<1>3. ASSUME NEW n \in {values.plain - 1, values.plain + 1}, handleChange(n) PROVE IInv'
  BY <1>3, HandleChangeInv
<1>4. ASSUME NEW f \in CheckedNames(mod), NEW x \in {"empty", "bad", "ok"}, ChangeChecked(f, x)
      PROVE  IInv'
  BY <1>4, ChangeCheckedInv
<1>5. ASSUME NEW s \in Searches, fetchOptions(s) PROVE IInv'
  BY <1>5, FetchOptionsInv
<1>6. ASSUME NEW p \in Products, PickProduct(p) \/ handleSelect(p) PROVE IInv'
  BY <1>6, PickProductInv, HandleSelectInv
<1>7. ASSUME NEW i \in 1..MaxItems, handleIncreaseQuantity(i) \/ handleDecreaseQuantity(i)
      PROVE  IInv'
  BY <1>7, QuantityInv
<1>8. CASE PressSave
  BY <1>8, PressSaveInv
<1>9. ASSUME NEW i \in 1..MaxSaves, AnswerSave(i) PROVE IInv'
  BY <1>9, AnswerSaveInv
<1>10. CASE UNCHANGED vars
  <2>1. ValuesOK'
    BY <1>10 DEF vars, IInv, ValuesOK
  <2>2. SavesOK' /\ OneSavePerForm'
    BY <1>10, SavesKept DEF vars, IInv
  <2>3. QED
    BY <2>1, <2>2 DEF IInv
<1>11. QED
  BY <1>1, <1>2, <1>3, <1>4, <1>5, <1>6, <1>7, <1>8, <1>9, <1>10 DEF Next

\* The invariant holds of every behaviour, whatever is typed, opened and left
\* while saves are in flight.
THEOREM Invariance == Spec => []IInv
BY InitInv, NextInv, PTL DEF Spec

\* Values keep their types, and the quantity of an order line stays between one
\* and the bound although one click changes several lines.
THEOREM TypeCorrect == Spec => []TypeOK
<1>1. IInv => TypeOK
  <2>1. HAVE IInv
  <2>2. values.items \in Seq(Lines)
    BY <2>1, ItemsType DEF IInv, ValuesOK
  <2>3. \A i \in 1..Len(values.items) : values.items[i].quantity \in 1..MaxQuantity
    <3>1. TAKE i \in 1..Len(values.items)
    <3>2. values.items[i] \in Lines
      BY <2>2
    <3>3. QED
      BY <3>2 DEF Lines
  <2>4. /\ values.plain \in 0..PlainCount(mod)
        /\ values.sku \in Products \cup {""} /\ values.product \in Products \cup {""}
    BY <2>1 DEF IInv, ValuesOK, Values
  <2>5. QED
    BY <2>1, <2>3, <2>4 DEF IInv, ValuesOK, TypeOK
<1>2. QED
  BY <1>1, Invariance, PTL

\* A form of any module but orders never has two saves in flight: the button is
\* disabled while saving, and only the answer to the form's own save enables it
\* again.  The order form's quantity buttons, which submit it, are the exception.
THEOREM AlwaysOneSavePerForm == Spec => []OneSavePerForm
<1>1. IInv => OneSavePerForm
  BY DEF IInv
<1>2. QED
  BY <1>1, Invariance, PTL

\* The save button is disabled only while a save of its own form is in flight,
\* and outside the order form exactly then, whatever late answers arrive to the
\* saves of forms that were left.
THEOREM AlwaysSavingIsInFlight == Spec => []SavingIsInFlight
<1>1. IInv => SavingIsInFlight
  <2>1. SUFFICES ASSUME IInv, form = "open" PROVE SavingIsInFlight
    BY DEF SavingIsInFlight
  <2>2. saving \in BOOLEAN /\ form # "none"
    BY <2>1 DEF IInv, ValuesOK
  <2>3. (saving = TRUE => ~NoneInFlight) /\ (saving = FALSE /\ mod # "orders" => NoneInFlight)
    BY <2>1, <2>2 DEF IInv, SavesOK
  <2>4. QED
    BY <2>2, <2>3 DEF SavingIsInFlight, NoneInFlight
<1>2. QED
  BY <1>1, Invariance, PTL
=============================================================================
