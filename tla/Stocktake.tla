------------------------------ MODULE Stocktake ------------------------------
(***************************************************************************)
(* Stocktakes (apps/operations/services_stocktake.py) over live stock: a   *)
(* session collects counted lines, is completed, approved, and only then   *)
(* applied.  Any lending service may run between the count of a line and   *)
(* its application; the staleness check of the apply step is all that      *)
(* keeps the two together.                                                 *)
(***************************************************************************)
EXTENDS HardwareLending, Functions

CONSTANT Sessions   \* StocktakeSession rows

VARIABLES
    session,   \* StocktakeSession: status and the container it is scoped to
    lines      \* StocktakeLine rows of a session

takes == <<session, lines>>
takeVars == <<vars, takes>>

SessionStatuses == {"absent", "counting", "completed", "approved", "applied"}
Conditions == {"available", "damaged", "lost", "unknown"}

\* The statuses of an asset, and the buckets of a product, that can be counted.
Countable == {"available", "damaged", "lost"}

Line == [target : Products \cup Assets, condition : Conditions,
         container : Boxes \cup {None}, expected : Nat, counted : Nat]

NoSession == [status |-> "absent", container |-> None]

StocktakeTypeOK ==
    /\ TypeOK
    /\ session \in [Sessions -> [status : SessionStatuses,
                                 container : Boxes \cup {None}]]
    /\ \A t \in Sessions : lines[t] \subseteq Line

StocktakeInit ==
    /\ Init
    /\ session = [t \in Sessions |-> NoSession]
    /\ lines = [t \in Sessions |-> {}]

-----------------------------------------------------------------------------
\* What a line expects to find: the bucket of a product, or whether an asset
\* has the status it is counted as.
Expected(rows, statuses, x, condition) ==
    IF x \in Products
    THEN IF condition \in Countable THEN rows[x][condition] ELSE 0
    ELSE IF statuses[x] = condition THEN 1 ELSE 0

ProductOf(x) == IF x \in Products THEN x ELSE AssetProduct[x]
BoxOf(x) == IF x \in Products THEN ProductBox[x] ELSE AssetBox[x]

\* _validate_line_container and _validate_item_container
InScope(t, x, container) ==
    LET scope == IF session[t].container # None
                 THEN session[t].container ELSE container
    IN  /\ session[t].container # None => container = session[t].container
        /\ scope # None => BoxOf(x) = scope

\* _reject_duplicate_line: an asset once, a product's bucket once for each
\* container named.
Duplicate(t, x, condition, container) ==
    \E l \in lines[t] : l.target = x /\ (x \in Assets \/ (l.condition = condition
                                                 /\ l.container = container))

create_stocktake(t, container) ==
    /\ session[t].status = "absent"
    /\ session' = [session EXCEPT ![t] = [status |-> "counting",
                                          container |-> container]]
    /\ UNCHANGED <<vars, lines>>

add_stocktake_line(t, x, condition, container, counted) ==
    /\ session[t].status = "counting"
    /\ x \in Assets => counted \in 0..1 /\ asset[x] \in Countable
    /\ InScope(t, x, container)
    /\ ~Duplicate(t, x, condition, container)
    /\ lines' = [lines EXCEPT ![t] = @ \cup
          {[target |-> x, condition |-> condition, container |-> container,
            expected |-> Expected(stock, asset, x, condition),
            counted |-> counted]}]
    /\ UNCHANGED <<vars, session>>

complete_stocktake(t) ==
    /\ session[t].status = "counting"
    /\ session' = [session EXCEPT ![t].status = "completed"]
    /\ UNCHANGED <<vars, lines>>

approve_stocktake(t) ==
    /\ session[t].status = "completed"
    /\ session' = [session EXCEPT ![t].status = "approved"]
    /\ UNCHANGED <<vars, lines>>

-----------------------------------------------------------------------------
\* Fault: only the kind of the line is checked, not that it is still true.
NeverStale(rows, statuses, l) == l.condition # "unknown"

\* _validate_line_fresh and the refusals of _ledger_entries_for_line.
Fresh(rows, statuses, l) ==
    /\ l.condition # "unknown"
    /\ l.target \in Assets => statuses[l.target] \in Countable
    /\ l.expected = Expected(rows, statuses, l.target, l.condition)

\* _asset_new_status
CountedStatus(l) == IF l.counted = 0 THEN "lost" ELSE l.condition

\* One ledger entry, as apply_stocktake_delta writes it.
Entry(row, bucket, delta) ==
    LET d(b) == IF b = bucket THEN delta ELSE 0
    IN  Adjust(row, d("available"), d("damaged"), d("lost"))
CanEntry(row, bucket, delta) == row[bucket] + delta >= 0

\* Fault: only the new bucket of an asset gets an entry.
RowAfterNoOldEntry(row, statuses, l) ==
    IF l.target \in Products
    THEN IF l.counted = l.expected THEN row
         ELSE Entry(row, l.condition, l.counted - l.expected)
    ELSE IF statuses[l.target] = CountedStatus(l) THEN row
         ELSE Entry(row, CountedStatus(l), 1)

\* The product row after the entries of a line, and whether they all apply: a
\* product moves by the variance, an asset from bucket to bucket.
RowAfter(row, statuses, l) ==
    IF l.target \in Products
    THEN IF l.counted = l.expected THEN row
         ELSE Entry(row, l.condition, l.counted - l.expected)
    ELSE LET old == statuses[l.target]
             new == CountedStatus(l)
         IN  IF old = new THEN row ELSE Entry(Entry(row, old, -1), new, 1)

CanApplyTo(row, statuses, l) ==
    IF l.target \in Products
    THEN l.counted = l.expected
            \/ CanEntry(row, l.condition, l.counted - l.expected)
    ELSE CountedStatus(l) = statuses[l.target]
            \/ CanEntry(row, statuses[l.target], -1)

\* The loop body of apply_stocktake_adjustments on the rows as the lines
\* before it left them; ok turns false when it raises.
ApplyLine(c, l) ==
    LET owner == ProductOf(l.target)
    IN  IF c.ok /\ Fresh(c.stock, c.asset, l) /\ CanApplyTo(c.stock[owner], c.asset, l)
        THEN [ok |-> TRUE,
              stock |-> [c.stock EXCEPT ![owner] = RowAfter(@, c.asset, l)],
              asset |-> IF l.target \in Assets
                        THEN [c.asset EXCEPT ![l.target] = CountedStatus(l)]
                        ELSE c.asset]
        ELSE [c EXCEPT !.ok = FALSE]

\* The rows after n lines in the given order.
RowsAfter(order, n) ==
    LET c[i \in 0..n] == IF i = 0 THEN [ok |-> TRUE, stock |-> stock, asset |-> asset]
                         ELSE ApplyLine(c[i - 1], order[i])
    IN  c[n]

\* The query of the lines has no order, so they may come in any.
apply_stocktake_adjustments(t) ==
    /\ session[t].status = "approved"
    /\ LET n == Cardinality(lines[t])
       IN  \E order \in Bijection(1..n, lines[t]) :
              LET c == RowsAfter(order, n)
              IN  c.ok /\ stock' = c.stock /\ asset' = c.asset
    /\ session' = [session EXCEPT ![t].status = "applied"]
    /\ UNCHANGED <<tracking, request, item, link, loan, returnEvents, report,
                   lines>>

-----------------------------------------------------------------------------
CONSTANT MaxLines   \* bound: lines of one session

StocktakeSteps ==
    \E t \in Sessions :
        \/ \E container \in Boxes \cup {None} : create_stocktake(t, container)
        \/ session[t].status = "counting" /\ Cardinality(lines[t]) < MaxLines
           /\ \E x \in Products \cup Assets, condition \in Conditions,
                 container \in Boxes \cup {None}, counted \in 0..MaxQty :
                    add_stocktake_line(t, x, condition, container, counted)
        \/ complete_stocktake(t)
        \/ approve_stocktake(t)
        \/ apply_stocktake_adjustments(t)

StocktakeNext == (Next /\ UNCHANGED takes) \/ StocktakeSteps

StocktakeSpec == StocktakeInit /\ [][StocktakeNext]_takeVars

-----------------------------------------------------------------------------
\* No other line of the session counts the same bucket, directly or through an
\* asset of the product.
Alone(t, l) ==
    \A m \in lines[t] \ {l} :
        \/ ProductOf(m.target) # ProductOf(l.target)
        \/ m.target = l.target /\ m.condition # l.condition

Applied(t) == session[t].status = "approved" /\ session'[t].status = "applied"

\* However much was lent, returned or repaired between a count and its
\* application, applying it leaves the bucket of the product at the number
\* that was counted.
CountedIsStocked ==
    [][\A t \in Sessions : Applied(t) =>
          \A l \in lines[t] : l.target \in Products /\ Alone(t, l) =>
             stock'[l.target][l.condition] = l.counted]_takeVars

\* Where only assets were counted, the buckets of their product move by as many
\* units as asset rows change into and out of each status: a stocktake adds no
\* drift between the rows and the counts.
AssetsIn(statuses, x, st) == Cardinality({a \in AssetsOf(x) : statuses[a] = st})
BucketsFollowAssets ==
    [][\A t \in Sessions :
          Applied(t) /\ (\A l \in lines[t] : l.target \in Assets) =>
             \A x \in Products, b \in Countable :
                stock'[x][b] - stock[x][b] =
                   AssetsIn(asset', x, b) - AssetsIn(asset, x, b)]_takeVars
=============================================================================
