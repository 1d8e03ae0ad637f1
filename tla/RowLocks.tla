------------------------------- MODULE RowLocks -------------------------------
(***************************************************************************)
(* The row locks of the services that lend, return and move stock in one   *)
(* makerspace.  A transaction locks its rows one after the other           *)
(* (select_for_update) and keeps them to its end; a query ordered by pk    *)
(* locks in that order, one that joins tables locks each row and then the  *)
(* joined ones, in the order in which the model declares them.  The rows   *)
(* it inserts refer to the makerspace and the borrower, which the deferred *)
(* foreign keys lock FOR KEY SHARE at the commit.  Left out are the rows   *)
(* two services never both lock (photos, items, requests of loans), scans  *)
(* of a product's own code, direct loans of an empty container or by the   *)
(* code of a box, staff who borrow, and metered PUT uploads, with which    *)
(* handouts and returns lock the makerspace before they scan.              *)
(***************************************************************************)
EXTENDS Integers, FiniteSets, Sequences, SequencesExt

CONSTANTS
    Workers,      \* database sessions
    Assets,       \* primary keys of InventoryAsset rows, a code on each
    ProductOf,    \* and their products
    OutAssets,    \* the assets that are out: handouts lock only AVAILABLE rows
    Boxes,        \* primary keys of Box rows
    Content,      \* the assets in each box
    LockRequests, \* primary keys of HardwareRequest rows
    AssignedBox,  \* their boxes
    RequesterOf,  \* and who asked
    Borrowers,    \* primary keys of the users who borrow
    BorrowerOf    \* who holds each asset that is out

Products == {ProductOf[a] : a \in Assets}

ASSUME RowLocksAssumption ==
    /\ IsFiniteSet(Workers) /\ IsFiniteSet(Assets)
    /\ Assets \subseteq Nat /\ Boxes \subseteq Nat /\ LockRequests \subseteq Nat
    /\ ProductOf \in [Assets -> Nat] /\ OutAssets \subseteq Assets
    /\ Content \in [Boxes -> SUBSET Assets]
    /\ AssignedBox \in [LockRequests -> Boxes]
    /\ Borrowers \subseteq Nat
    /\ RequesterOf \in [LockRequests -> Borrowers] /\ BorrowerOf \in [OutAssets -> Borrowers]

VARIABLES
    todo,    \* the rows a transaction has still to lock, in order
    held,    \* the rows it has locked
    service  \* what it is doing

lockVars == <<todo, held, service>>

LockKinds == {"request", "box", "box_code", "code", "loan", "asset", "product",
              "space", "keep_space", "borrower", "keep_borrower"}

LockRows == LockKinds \X Nat

\* The makerspace row locked FOR UPDATE, and FOR KEY SHARE.
UpdateSpace == <<"space", 0>>
KeepSpace == <<"keep_space", 0>>

Reviewed == {"issue_request", "return_items"}
Handouts == {"checkout_tool", "checkout_box", "issue_direct_loan", "issue_request"}
Services == Reviewed \cup Handouts
                \cup {"idle", "return_tool", "return_direct_loan", "move_asset"}

RowLocksTypeOK ==
    /\ todo \in [Workers -> Seq(LockRows)]
    /\ held \in [Workers -> SUBSET LockRows]
    /\ service \in [Workers -> Services]

RowLocksInit ==
    /\ todo = [w \in Workers |-> << >>]
    /\ held = [w \in Workers |-> {}]
    /\ service = [w \in Workers |-> "idle"]

-----------------------------------------------------------------------------
ByPk(kind, keys) ==
    CHOOSE rows \in [1..Cardinality(keys) -> {kind} \X keys] :
        \A i, j \in DOMAIN rows : i < j => rows[i][2] < rows[j][2]

ProductsByPk(S) == ByPk("product", {ProductOf[a] : a \in S})

\* The commit of a handout to u: foreign keys of the request it inserts.
RefersTo(u) == <<KeepSpace, <<"keep_borrower", u>>>>

\* _eligible_asset: the asset, and the product it joins.
WithProduct(a) == <<<<"asset", a>>, <<"product", ProductOf[a]>>>>

InOrder(order) == FlattenSeq([i \in DOMAIN order |-> WithProduct(order[i])])

CheckoutTool(a, u) == <<<<"code", a>>>> \o WithProduct(a) \o RefersTo(u)

\* _checkout_box: the query of the assets has no order.
CheckoutBox(b, order, u) ==
    <<<<"box_code", b>>, <<"box", b>>>> \o InOrder(order) \o RefersTo(u)

\* The codes by pk, what they stand for in the caller's order.
IssueDirectLoan(container, order, u) ==
    ByPk("box", container) \o ByPk("code", {order[i] : i \in DOMAIN order})
        \o InOrder(order) \o RefersTo(u)

\* locked_request joins the makerspace and the requester.
LockedRequest(r) == <<<<"request", r>>, UpdateSpace, <<"borrower", RequesterOf[r]>>>>

IssueRequest(r, S) ==
    LockedRequest(r) \o <<<<"box", AssignedBox[r]>>>> \o ByPk("code", S)
        \o ByPk("asset", S) \o ProductsByPk(S)

ReturnItems(r, S) == LockedRequest(r) \o ProductsByPk(S) \o ByPk("asset", S)

\* A loan is named after the asset it took; its query joins the requester.
ReturnTool(a) ==
    <<<<"code", a>>, <<"loan", a>>, <<"borrower", BorrowerOf[a]>>,
      <<"product", ProductOf[a]>>, <<"asset", a>>, KeepSpace>>

\* Fault: without of="self" the query locks the makerspace it joins.
ReturnLocksSpace(a) ==
    <<<<"loan", a>>, UpdateSpace, <<"code", a>>, <<"product", ProductOf[a]>>, <<"asset", a>>>>

\* of="self": the query locks no row it joins.
ReturnDirectLoan(a) ==
    <<<<"loan", a>>, <<"code", a>>, <<"product", ProductOf[a]>>, <<"asset", a>>>>
        \o RefersTo(BorrowerOf[a])

\* The fix action of staff: its query joins the makerspace, then the product.
MoveAsset(a) == <<<<"asset", a>>, UpdateSpace, <<"product", ProductOf[a]>>>>

-----------------------------------------------------------------------------
Begin(w, name, rows) ==
    /\ service[w] = "idle"
    /\ service' = [service EXCEPT ![w] = name]
    /\ todo' = [todo EXCEPT ![w] = rows]
    /\ UNCHANGED held

InStock(S) == S \ OutAssets

begin(w) ==
    \/ \E a \in InStock(Assets), u \in Borrowers :
          Begin(w, "checkout_tool", CheckoutTool(a, u))
    \/ \E b \in Boxes, u \in Borrowers : \E order \in SetToSeqs(InStock(Content[b])) :
          Begin(w, "checkout_box", CheckoutBox(b, order, u))
    \/ \E S \in SUBSET InStock(Assets) \ {{}}, u \in Borrowers : \E order \in SetToSeqs(S) :
       \E container \in {{}} \cup {{b} : b \in Boxes} :
          Begin(w, "issue_direct_loan", IssueDirectLoan(container, order, u))
    \/ \E r \in LockRequests, S \in SUBSET InStock(Assets) :
          Begin(w, "issue_request", IssueRequest(r, S))
    \/ \E r \in LockRequests, S \in SUBSET OutAssets :
          Begin(w, "return_items", ReturnItems(r, S))
    \/ \E a \in OutAssets : \/ Begin(w, "return_tool", ReturnTool(a))
                            \/ Begin(w, "return_direct_loan", ReturnDirectLoan(a))
    \/ \E a \in Assets : Begin(w, "move_asset", MoveAsset(a))

\* FOR KEY SHARE is compatible with itself and with nothing else.
Conflict(r, q) ==
    \/ r = q /\ r[1] \notin {"keep_space", "keep_borrower"}
    \/ /\ r[2] = q[2]
       /\ {r[1], q[1]} \in {{"space", "keep_space"}, {"borrower", "keep_borrower"}}

\* w waits for v.
WaitsFor(w, v) == v # w /\ todo[w] # << >> /\ \E r \in held[v] : Conflict(Head(todo[w]), r)

lock(w) ==
    /\ todo[w] # << >> /\ \A v \in Workers : ~WaitsFor(w, v)
    /\ held' = [held EXCEPT ![w] = @ \cup {Head(todo[w])}]
    /\ todo' = [todo EXCEPT ![w] = Tail(@)]
    /\ UNCHANGED service

\* The commit, or a refusal, or the victim of a deadlock.
finish(w) ==
    /\ service[w] # "idle"
    /\ service' = [service EXCEPT ![w] = "idle"]
    /\ held' = [held EXCEPT ![w] = {}]
    /\ todo' = [todo EXCEPT ![w] = << >>]

RowLocksNext == \E w \in Workers : begin(w) \/ lock(w) \/ finish(w)

RowLocksSpec == RowLocksInit /\ [][RowLocksNext]_lockVars

-----------------------------------------------------------------------------
Deadlocked(D) == D # {} /\ \A w \in D : \E v \in D : WaitsFor(w, v)

\* Services that take their rows in one order.  Two groups together do not:
\* return_tool keeps the borrower from a checkout that keeps the product from
\* it, and the fix action locks the makerspace after its asset.
OrderedGroups ==
    {Reviewed, {"checkout_tool", "return_direct_loan"}, {"return_tool"}, {"move_asset"}}

\* Issues and returns of reviewed requests never wait for each other in a circle
\* (locked_request: the makerspace comes first), nor do checkouts of a tool and
\* staff's returns of loans, the borrowers' own returns, or staff's fix actions.
OrderedNeverDeadlock ==
    \A D \in SUBSET Workers, G \in OrderedGroups :
       Deadlocked(D) => \E w \in D : service[w] \notin G

\* The flows that hand out stock lock codes, then assets, then products, and
\* never deadlock over them (handover_workflow.py).
HandoutsNeverDeadlock ==
    \A D \in SUBSET Workers :
       Deadlocked(D) /\ (\A w \in D : Head(todo[w])[1] \in {"code", "asset", "product"})
          => \E w \in D : service[w] \notin Handouts
=============================================================================
