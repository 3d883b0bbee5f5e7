------------------------------ MODULE Records ------------------------------
(***************************************************************************)
(* Master data and what refers to it: when a party, an item, a location, a    *)
(* salesperson, a role, a brand or a unit may be deleted, and what becomes of  *)
(* the rows that name it.  The delete methods of parties, products, locations, *)
(* salespeople, rbac, brands, manufacturers, categories and uoms (service.py)  *)
(* and the foreign keys of the models.                                        *)
(*                                                                          *)
(* A delete first looks for rows that name the record, without a lock, and     *)
(* deletes later; the database then refuses it, deletes those rows too, or     *)
(* clears their reference, as the foreign key of the row says.                *)
(***************************************************************************)
EXTENDS Naturals, Sequences

CONSTANTS
    Masters,    \* the records
    KindOf,     \* KindOf[m]: what record m is
    Variants,   \* the items that are variants of another
    Keepers,    \* requests at a time
    MaxRows,    \* bound: rows that name a record
    Nought      \* no record

\* The rows of each kind name a record of this kind.
Names == [line |-> "item", movement |-> "item", stay |-> "location",
          placed |-> "location", document |-> "party", entry |-> "party",
          payment |-> "party", expense |-> "party",
          taxed |-> "rate", credited |-> "salesperson", payout |-> "salesperson", member |-> "role",
          branded |-> "brand", measured |-> "unit"]

RowKinds == DOMAIN Names

ASSUME RecordsAssumption ==
    /\ KindOf \in [Masters -> {Names[r] : r \in RowKinds}]
    /\ Variants \subseteq {m \in Masters : KindOf[m] = "item"} /\ Nought \notin Masters
    /\ MaxRows \in Nat

\* What the foreign key does with such a row when its record is deleted.
OnDelete == [line |-> "clear", movement |-> "refuse", stay |-> "delete",
             placed |-> "clear", document |-> "clear", entry |-> "clear",
             payment |-> "clear", expense |-> "clear",
             taxed |-> "clear", credited |-> "clear", payout |-> "refuse", member |-> "refuse",
             branded |-> "clear", measured |-> "clear"]

VARIABLES
    alive,      \* the records that exist
    row,        \* the rows that were written: [kind, record], Nought if cleared
    percent,    \* percent[m]: what tax rate m is at
    keeper,     \* keeper[k]: the record k is about to delete, the rate it will change
    overtaken   \* the records that were named after they were found unused (history)

recordVars == <<alive, row, percent, keeper, overtaken>>

\* A bound: one record of any kind at a time, for none refers to another's rows.
RecordsInit ==
    /\ \E m \in Masters : alive = {m}
    /\ row = <<>> /\ percent = [m \in Masters |-> 0]
    /\ keeper = [k \in Keepers |-> Nought]
    /\ overtaken = {}

\* Mutant: the ledger is not looked at.
DocumentsOnly(kind) ==
    CASE kind = "item" -> {"movement", "line"}
      [] kind = "party" -> {"document", "payment", "expense"}
      [] kind = "location" -> {"stay"} [] kind = "salesperson" -> {"credited"}
      [] kind = "role" -> {"member"} [] kind = "brand" -> {"branded"}
      [] kind = "rate" -> {"taxed"} [] OTHER -> {}

\* The rows a delete looks for; of a unit, none, and of a location, no document.
LookedFor(kind) ==
    CASE kind = "item" -> {"movement", "line"}
      [] kind = "party" -> {"document", "payment", "entry", "expense"}
      [] kind = "location" -> {"stay"} [] kind = "salesperson" -> {"credited"}
      [] kind = "role" -> {"member"} [] kind = "brand" -> {"branded"}
      [] kind = "rate" -> {"taxed"} [] OTHER -> {}

RowsNaming(m, kinds) == {i \in DOMAIN row : row[i].record = m /\ row[i].kind \in kinds}

\* A row is written that names m; its foreign key holds m until it commits.
NameRecord(kind, m) ==
    /\ m \in alive /\ Names[kind] = KindOf[m] /\ Len(row) < MaxRows
    /\ row' = Append(row, [kind |-> kind, record |-> m, was |-> m,
                              percent |-> percent[m]])
    /\ overtaken' = IF \E k \in Keepers : keeper[k] = m THEN overtaken \cup {m} ELSE overtaken
    /\ UNCHANGED <<alive, percent, keeper>>

FindUnused(k, m) ==
    /\ keeper[k] = Nought /\ m \in alive
    /\ RowsNaming(m, LookedFor(KindOf[m])) = {}
    /\ keeper' = [keeper EXCEPT ![k] = m]
    /\ UNCHANGED <<alive, row, percent, overtaken>>

\* The foreign keys let m go.
Removed(m) ==
    /\ \A i \in RowsNaming(m, RowKinds) : OnDelete[row[i].kind] # "refuse"
    /\ alive' = alive \ {m}
    /\ row' = [i \in DOMAIN row |-> IF row[i].record = m THEN [row[i] EXCEPT !.record = Nought]
                                    ELSE row[i]]

DeleteRecord(k) ==
    /\ keeper[k] \in alive /\ KindOf[keeper[k]] # "rate"
    /\ Removed(keeper[k])
    /\ keeper' = [keeper EXCEPT ![k] = Nought]
    /\ UNCHANGED <<percent, overtaken>>

\* update_tax_rate: the name of a rate may change at any time, its percentage only
\* when no line has it. Bound: it changes once.
ChangePercent(k) ==
    /\ keeper[k] \in alive /\ KindOf[keeper[k]] = "rate" /\ percent[keeper[k]] = 0
    /\ percent' = [percent EXCEPT ![keeper[k]] = 1]
    /\ keeper' = [keeper EXCEPT ![k] = Nought]
    /\ UNCHANGED <<alive, row, overtaken>>

\* Refused by a foreign key, or gone already, or given up.
LeaveRecord(k) ==
    /\ keeper[k] # Nought
    /\ keeper' = [keeper EXCEPT ![k] = Nought]
    /\ UNCHANGED <<alive, row, percent, overtaken>>

\* _apply_variants: a variant that is no longer listed is deleted, and nothing
\* is looked for.
DropVariant(m) ==
    /\ m \in Variants \cap alive
    /\ Removed(m)
    /\ UNCHANGED <<percent, keeper, overtaken>>

RecordsNext ==
    \/ \E kind \in RowKinds, m \in Masters : NameRecord(kind, m)
    \/ \E k \in Keepers : \/ \E m \in Masters : FindUnused(k, m)
                          \/ DeleteRecord(k) \/ ChangePercent(k) \/ LeaveRecord(k)
    \/ \E m \in Masters : DropVariant(m)

RecordsSpec == RecordsInit /\ [][RecordsNext]_recordVars

\* Goods have moved at place m.
MovedAt(m) == \E i \in DOMAIN row : row[i].kind = "stay" /\ row[i].was = m

\* History keeps the records it names: a document, a ledger entry, a movement,
\* a payment, a payout or a membership never loses its party, item, salesperson or
\* role, nor a movement its place, unless it was written while the record was being
\* deleted or the item was a variant dropped from its group.  Two things are lost
\* with no race, for nothing asks: an item's unit, and the place of a document if
\* no goods moved there; where they did, it keeps it too (the delete methods,
\* "has transaction history; deactivate it instead", "Location has stock history;
\* deactivate it instead").  Nor does the percentage of a rate change under a line
\* that has it, but for the same race ("would silently restate finalized documents").
HistoryKeepsItsRecord ==
    \A i \in DOMAIN row :
        /\ row[i].record = Nought =>
               \/ row[i].kind = "measured"
               \/ row[i].kind = "placed" /\ ~MovedAt(row[i].was)
               \/ row[i].was \in overtaken /\ OnDelete[row[i].kind] # "refuse"
               \/ row[i].was \in Variants /\ row[i].kind = "line"
        /\ row[i].percent = percent[row[i].was] \/ row[i].was \in overtaken
=============================================================================
