# A verification of the Makerspace Manager

OSMM Makerspace Manager is a Django back end with React clients. It lends
hardware: a product has so many units, a borrower gets some of them through one
of three flows, and staff take them back, repair them, write them off or count
them. It also runs events with a waitlist, books rooms and machines, keeps
members, their files and their encrypted personal data, sends reminders and
e-mail, and collects money through an outside processor. This directory holds
TLA+ modules translated from that code, the TLC configurations that check them
on small instances, and theorems about them that the TLAPS proof system checks
for every instance.

## 1. The system

Paths are below `src/backend/apps/` unless said otherwise.

| Part | State it keeps | Operations | Hard because |
|---|---|---|---|
| Inventory availability (`inventory/availability.py`, `inventory/models.py`) | per product: `total` and six quantity buckets, tracking mode; per asset: status | reserve, issue, return, adjust, triage, shelve / repair / scrap, reconcile, move one asset | one unit must be in one bucket after any order of calls from four apps; serialized products keep the same facts twice |
| Reviewed requests (`hardware_requests/request_workflow.py`, `handover_*.py`, `return_*.py`) | `HardwareRequest`, its items and asset links, `ReturnEvent` | submit, accept, reject, assign box, issue, return | partial returns with mixed outcomes; broken units rejected at handover; a box that several accepted requests want |
| Self-checkout and direct handout (`hardware_requests/self_checkout_*.py`, `direct_loan_*.py`) | `PublicToolLoan` and a request that is born issued | checkout, borrower return, staff handout of a bundle, staff return | two return paths for one loan; a database constraint that covers only the first QR of a bundle; a box QR that stands for what lies in the box |
| Problem reports (`problem_report_workflow.py`) | `PublicProblemReport` | triage after a return | acts on units that came back a while ago and may be out again |
| Staff console (`admin_api/`) | none of its own | quantity adjustment, fix shelf, asset fix action, product PATCH, request and loan endpoints | some handlers read without the row lock the services take |
| Stocktakes and transfers (`operations/services_stocktake.py`, `services_transfers.py`) | sessions, lines, ledger entries | count, complete, approve, apply; transfer | the count is applied long after it was taken |
| Asset and QR generation (`operations/services_qr_assets.py`, `boxes/`) | assets, boxes, QR codes | generate assets, rebind | changes the tracking mode of live stock |
| Return reminders (`hardware_requests/services_return_reminders.py`) | `return_reminder_sent_at` | claim, send, release | two schedulers, a failing mail server, a due date that moves |
| QR codes and purchases (`boxes/services.py`, `procurement/`) | codes and their targets, received purchases | create, rebind, revoke, move with the unit; receive into inventory | a code's target is chosen before it is locked; a loan holds a code |
| Events (`events/`) | event, registrations | publish, register, cancel, capacity change, promotion | capacity against a FIFO waitlist |
| Space bookings (`bookings/`) | bookings of a space | create, approve, reject, cancel, complete | overlap of confirmed bookings |
| Machine service (`machines/`) | service requests, machines, consumable pools | submit, accept, start, complete, fail, reprint | one machine, many jobs; a pool reserved, used and corrected |
| Memberships and presence (`makerspaces/`, `presence/`) | memberships, requests and invitations, sessions | request, invite, refer, approve, claim, revoke, attach staff, enter, leave | an invitation outlives what led to it; an address becomes an account |
| Uploads (`evidence/`, `machines/service_storage.py`, `maintenance/`, `bookings/`) | files in the object store, records that point at them, bytes charged | presign, finalize, clean up, delete | the store is no part of the transaction |
| E-mail delivery (`integrations/`) | log rows, daily counter, tasks | queue, claim, deliver, retry | workers die, the broker delivers again |
| Scoped encryption (`encryption/`) | key versions, write fence, encrypted rows | save, rotate, disable, roll back batch by batch | a command that crashes and resumes beside live writers |
| Payments (`payments/`) | payment row, processed webhook events | create, open checkout, webhook, reconcile, cancel | an outside processor, repeated and late webhooks, two online rails and two manual ones |
| Software updates (`updates/`, `scripts/update.sh`) | settings row, lock directory, version marker, running containers | queue, switch, check, claim, replace, mark, complete, roll back | a script that dies anywhere, a dead lock found twice, a marker ahead of the containers |
| Accounts, API clients, warranty, maintenance, audit, forms, roadmap | configuration and records | create, edit, read | permission rules, no protocol of their own |

Services talk by function calls inside one database transaction, and through
the rows: `hardware_requests` calls `availability` for every unit it moves,
events and bookings call `payments`, and everything calls `audit`. Messages
leave only after commit. Nearly every service opens `transaction.atomic()` and
takes `select_for_update()` locks on the rows it decides on, so services on the
same rows are serialized by the database; what remains hard is the *order* of
whole services, the handlers that read before they lock, the order of the locks
themselves, whatever spans two tables no constraint spans, and what lies outside
the transaction: the object store, the mail server, the payment processor and
the processes that die between two commits.

What makes each part correct:

* availability: no bucket is negative, the buckets fit in the total, every
  unit promised or lent is in the bucket that says so;
* requests and loans: an item's counts and its request's status tell the same
  story, closed is closed, a photo documents one handover;
* assets and QR codes: one borrower at a time, and the status says so;
* boxes: a physical box is in one place;
* the console: an edit never undoes what a lending service did;
* events: never more seats than the capacity, and no idle seat while someone
  waits; bookings: no overlap; payments: paid at most once and never lost;
  stocktake: what is applied is what was counted;
* machines: one job on a machine, and every gram of the pool explained;
* memberships: who was revoked stays out, who is present is a member;
* files: a record's file is in the store, and the charge is what is stored;
* messages and reminders: sent once, however many processes try;
* encryption: nothing is written behind a closed fence or with a retired key,
  and a rollback that says it is done has left no envelope;
* transfers: stock is conserved, and a code leads to what it was stuck on.

## 2. Plan

| Step | Module | Composes | Question |
|---|---|---|---|
| 1, done | `Availability` | | buckets under one operation |
| 2, done | `HardwareLending` | `Availability` | three lending flows, triage, corrections |
| 3, done | `StaffConsole`, `StaffProofs` | `HardwareLending` | handlers that read without a lock, and what they leave intact |
| 4, done | `CountingProofs`, `LendingProofs`, `CustodyProofs` | 1, 2, 18 | types, bucket bound, both custody sums, loan and request, status and items, codes and units, refinement |
| 5, done | `Stocktake`, `StaffProofs` | `HardwareLending` | what happens between the count and its application |
| 6, done | `Events`, `CommunityProofs` | | capacity, FIFO promotion, no idle seat |
| 7, done | `Settlement` (abstract), `Payments`, `PaymentsProofs` | | webhooks repeated and late, calls that die half way, two rails |
| 8, done | `MachineService` | | occupancy, pool ledger debited once, reprints |
| 9, done | `Bookings`, `CommunityProofs` | | overlap, terminal states |
| 10, done | `Reminders`, `Delivery` | | claim and release under failing delivery; due date changes |
| 11, done | `Transfers`; `transfer_asset` in `StaffConsole` | `Availability`, `HardwareLending` | unit conservation across products and makerspaces, codes that move; an asset line that names a status while the asset is out |
| 12, done | `RowLocks` | | deadlock of transactions |
| 13, done | `Memberships`, `CommunityProofs` | | revocation against open invitations |
| 14, done | `WriteFence`, `StorageProofs` | | a rollback that crashes and resumes, beside writers |
| 15, done | `Uploads`, `StorageProofs` | | finalization, clean-up and charging across the object store |
| 16, done | `ServicesProofs` | 8, 10, 11, 12, 17 | one job per machine, pool, reminders, deliveries, stock and codes, lock order, updates; the composition `MCServices` and its types |
| 17, done | `Updates` | | a host updater that fails or dies between replacement and marker |
| 18, done | `Custody` (abstract), implemented by `HardwareLending`, `StaffConsole` and `Stocktake` | | where every unit is, whichever flow moves it |

## 3. The modules and the code

**`Availability`** is `inventory/availability.py` as operators on one product
row: `CanX(row, ...)` is the condition under which function X does not raise,
`X(row, ...)` the row it saves. The final `total = sum of buckets` of the
adjusting functions is `Retotal`. Serialized products are rebuilt from the
status of their assets by `Reconcile` (`reconcile_individual_product_from_assets`).

**`HardwareLending`** is the state machine of one makerspace.

| Variable | Table |
|---|---|
| `stock`, `tracking` | `InventoryProduct` buckets and tracking mode |
| `asset` | `InventoryAsset.status` |
| `request` | `HardwareRequest`: status, box, issue photo |
| `item` | `HardwareRequestItem` counts |
| `link` | `HardwareRequestItemAsset.outcome` |
| `loan` | `PublicToolLoan` |
| `returnEvents` | `ReturnEvent` rows per request and photo |
| `report` | `PublicProblemReport` |

There is one action per service: `submit_request`, `accept_request`,
`reject_request`, `assign_box`, `issue_request`, `return_items`,
`checkout_tool`, `return_tool`, `issue_direct_loan`, `return_direct_loan`,
`triage_problem_report`, `adjust_quantities`, `needs_fix_action`,
`generate_assets_with_qr`. Each is one transaction that locks what it decides
on, so it is one action; a call the service rejects rolls back and is no step.
The guard is the conjunction of the service's checks, the availability
conditions included.

**`Custody`** is what lending promises of the units, and knows nothing of flows,
statuses, assets, boxes or photos: a request is asked, promised, out or over,
units come off the shelf for it, and a step that takes them back accounts for
each of them once, as back on the shelf or as spoilt, on the request and in the
stock at the same time. `HardwareLending` implements it (`Ledger`,
`UnitsInCustody`): `PhaseOf` maps the status, `InHand` what is promised or
remains out, `aside` is the sum of damaged, lost and needs-fix. Staff, triage and
stocktakes may correct the stock at will, but no request.

**`StaffConsole`** adds the two handlers of the console that read before they
lock, each as two steps with any lending service possible between: the asset
fix action (`asset_fix_read`, `asset_fix_apply`) and the product PATCH
(`product_patch_read`, `product_patch_save`), which writes every column back,
the tracking mode with them. `transfer_asset` is the asset line of a stock
transfer within a makerspace, which sets a status whoever holds the asset.

**`Stocktake`** adds `services_stocktake.py` to `HardwareLending`: `session` is
`StocktakeSession`, `lines` are the `StocktakeLine` rows with what they expected
and counted. `create_stocktake`, `add_stocktake_line`, `complete_stocktake` and
`approve_stocktake` are actions; `apply_stocktake_adjustments` runs `ApplyLine`,
the body of the service's loop, on one line after the other (`RowsAfter`) in any
order (the query has none), and is no step when one of them raises. Lending goes on throughout.

**`Events`** is `apps/events`: `event` is the row (capacity 0 is unlimited, and
`over` stands for `ends_at < now`), `registration` the status of each person's
row, `ahead` the rows with an earlier `created_at`, and `charge` the payment of
each registration. Every service locks the event row first, so each is one
action; `event_ends` is the passing of time. A call into the payments app is
swallowed when it fails; the constant `Unreliable` holds the people for whom it
may fail. Titles, forms, mail and the lookup of a person by e-mail are left out.
`create_event` is the initial state.

**`Payments`** is `apps/payments` for a makerspace with its own Stripe account.

| Variable | Code or service |
|---|---|
| `payment` | `Payment`: status, rail, session, expiry, intent |
| `credentials` | the account of `MakerspacePaymentSettings`, 0 for none |
| `stripe` | external: sessions and intents at Stripe |
| `sent`, `acked` | external: webhooks to deliver, and those answered with 2xx |
| `processed` | `ProcessedStripeEvent` |
| `anomalies` | `payment.paid_after_terminal` audit rows |

`create_checkout_url` and `create_mobile_intent` call Stripe inside their
transaction, so each has a `_lost` twin: Stripe answered and the transaction
died. `SettleAll` is what `reconcile_payments` and `cancel_pending` share: the
expiry of the session may not arrive, and its outcome may not be learnt.
`apply_webhook_event` has one disjunct per branch. `update_payment_settings`
changes the account; the form's own check before the lock refuses more, so the
model allows more than a caller meets.

What Stripe does is assumed: it answers a repeated idempotency key with the
same object, except that the key of an expired session is taken as forgotten,
which is the worse case; a member can pay only what was handed out, and that is
handed out only after the commit; a session that is processing or paid does not
expire; webhooks come in any order, any number of times, and are verified
against the account whose secret is stored. Stripe Connect is left out.

**`Settlement`** is what the app promises of a charge: settled once and in one
way, paid online only when Stripe collected, and a note for money that comes in
after another settlement. `Payments` implements it with `status`, `charged` (the
payments with a paid object at Stripe) and `noted` (those with an anomaly row);
a note is allowed on a payment that was paid online, because the second webhook
of an ordinary charge makes one.

**`MachineService`**: `job` are the `MachineServiceRequest` rows, `machine` the
machines, `pool` the remaining grams and the corrections in its ledger. A job
comes in through the queue of all printers or the bucket of one machine; `start`
takes an idle machine and reserves grams, `complete_job` and `fail` reconcile the
reservation with what was used, `create_reprint` makes a second job of an ended
one, `adjust_pool` corrects the pool within its bounds. Staff may set a machine's
status during a job; `overruled` remembers on which machines they did.

**`Bookings`**: one space, its bookings with their times, their charges and a
clock. A booking is born confirmed or pending; each service locks the space.

**`Memberships`**: membership rows of one makerspace, the requests and
invitations that lead to them, and presence sessions. A person is an address and
the account that may come to have it (`verify_email` makes it one). `via` and
`stale` are history: which request led to a membership, and which were open when
that membership was revoked.

**`WriteFence`**: `fence` is the global fence and the makerspace's, `row` what is
stored of each mapped row (nothing, plain text, or an envelope of a key version),
`key` the key generations. A save is `load`, `check_fence`, `encrypt`, `commit`;
the command `decrypt_scoped_pii` is `start_command`, `lock_batch`, `commit_batch`,
`end_command`, and `abort_command` ends it anywhere, to be resumed from the
checkpoint it printed. Some tables have the database trigger, others do not.

**`Delivery`**: one row of the e-mail log from the quota and the commit
(`dispatch_email`) through the callback that enqueues its task (`enqueue`) to the
workers (`deliver_email_task` claims, `deliver` hands over, `record_result`,
`end_task`), the staff's Retry, and workers that `die`, after which the broker
delivers the task again. `deliver` may raise with the message taken or not: a
timeout of the server's answer or the task's soft time limit is recorded as
`failed` and retried like a refusal.

**`Reminders`**: one loan and its due times, which staff move, and sweeps that
list, claim, send and release in transactions of their own and may stop anywhere.

**`Transfers`**: product rows of several makerspaces with their whole bucket row,
serialized units, QR codes with their targets and open loans. `transfer_within`
and `transfer_across` split a row or merge into another, `receive_new` and
`receive_topup` move a purchase into inventory, `move_asset` moves a unit with
its code. The creation of a code reads its target (`choose_target`) before the
transaction that writes it (`get_or_create_qr`).

**`RowLocks`**: transactions as sequences of row locks, in the order the services
take them, one lock a step. `begin` picks a service and its rows, `lock` takes
the next row if nobody holds a conflicting lock, `finish` is a commit, a refusal
or a rollback. A query with `select_related` and without `of=` locks what it joins,
in the order of the fields: the fix action of staff takes asset, makerspace,
product; `locked_request` the request, the makerspace and the requester; a
borrower's `return_tool` the loan and its requester. What a transaction inserts is
checked against its foreign keys at the commit, which keeps the makerspace and the
borrower (`FOR KEY SHARE`). The services fall into groups of one order each
(`OrderedGroups`). Across groups the code does deadlock, and so does the model: a
fix action holds the makerspace and waits for a product that a checkout holds, and
`return_tool` holds the borrower that the commit of the same borrower's next
checkout waits for. PostgreSQL ends one of the two; no document of the repository
denies it.

**`Uploads`**: objects under a staging and a final key, records and charged
bytes, and calls of the API as processes. `finalize` enters a call; `head_final`,
`head_staging`, `copy_object`, `delete_staging`, `recheck`, `validate_object` and
`attach` are its round trips to the store and its commit; `refused`, `failed`,
`cleanup_upload` and `dispose` what it does when something is wrong; `dies` ends
it anywhere. Five kinds of files differ in the lock they hold meanwhile and in
their clean-up. Uploads go by presigned PUT. The issue photo of a reviewed request is
finalized under the request's lock alone; it behaves like the kind `document`,
and the public printing form like `service` with fewer interleavings. The
quota is modelled with a limit set. `recompute_storage`, which writes a total
summed without a lock, is left out.

**`Updates`**: the settings row of the platform (`queue_update`, `set_auto`, and a
PATCH that reads it in `get_object` and saves all of it in `perform_update`) and
`scripts/update.sh` as processes. `run_script` takes the lock directory or finds
a dead one, which `clear_lock` and `mkdir` replace; `query_release`,
`claim_update`, `deploy`, `wait_for_backend`, `mark` and `complete_update` are the
script's steps, `roll_back_containers`, `fail_update` and `leave` its cleanup
trap, and `kill` ends it without the trap. Readiness, `up -d` and the rollback
may fail and leave containers of several releases. The PowerShell twin is left
out.

**`MCServices`** checks the eight parts Events, Bookings, MachineService, RowLocks,
Memberships, Delivery, Reminders and Transfers in one run: they share no rows, so
the variable `part` names the one that moves and the others rest. **`MCStaff`**
does the same for the console and the stocktake, each beside the lending
services, and for WriteFence, Uploads and Updates, which share no rows with them.

Abstractions of the lending models, all of data and none of control:

* one item per request and product (the submit serializer merges duplicates);
* a QR code is identified with its target; boxes are active, products are
  enabled for checkout and not archived;
* in a bundle the box QR is scanned last; another order either is rejected or
  has the same result;
* borrower identity, presence, permissions, quotas and rate limits only reject
  calls, so they are left out; so are audit, notification and accountability
  rows, which no modelled service reads back;
* the direct loans a staff return can name are those of the endpoint's filter
  (`source = admin_direct`); the return scan of a direct loan is not modelled;
* where `triage` picks the assets with the lowest keys, the model picks any;
* counts given for a serialized item name all of its assets, and are subsumed
  by naming them;
* the Django admin site's free edits are not modelled.

## 4. What is checked

`CHECK_DEADLOCK FALSE` is stated because all these systems may come to rest: a
finite set of requests is closed, an event is over, a payment is settled.

Only `payments` assumes fairness, and only of one thing: a webhook that Stripe
has sent and that the stored secret verifies is answered in the end
(`WF_vars(apply_webhook_event(e))` for every event), because Stripe repeats a
webhook until it is acknowledged. Nobody is assumed to pay, to settle or to
return anything; no document promises that a borrower returns, so the other
runs are safety runs.

| Run | Instance | Shows |
|---|---|---|
| `quantity` | 1 quantity product of 3 units, in a box that can be lent with it, 2 requests, 2 + 2 photos | `ReservationsBacked`, `ItemsMatchStatus`, `QrOnOneLoan`, `ClosedIsFinal` |
| `serialized` | 1 product of 2 units in a box that can be given 2 asset rows at any moment | `AssetOnOneLoan`, `LoansBacked`, `LoanMatchesRequest`, `UnitsInCustody` (refinement), before, across and after the switch of tracking |
| `staff` | 1 product of 1 unit that can be given an asset row, 1 request; 1 fix call, 1 PATCH and asset transfers, or 1 session of 2 lines; the fence, the uploads and the updates | `BucketsWithinTotal` whatever the unlocked handlers do; `CountedIsStocked`, `BucketsFollowAssets`; fence: `QuietWhenClosed`, `RollbackComplete`, `WritesUseLiveKey`; uploads: `AttachedIsStored`, `UsageExplained`; updates: `MarkerIsRunning` |
| `services` | the eight parts of `MCServices` | types; events: `CapacityKept`, `NoIdleSeat`, `FirstComeFirstSeated`, `OnlySeatsOwe`; bookings: `NoDoubleBooking`, `OnlyBookingsOwe`; machines: `OneJobPerMachine`, `PoolExplained`; locks: `OrderedNeverDeadlock`; memberships: `RevokedStaysOut`, `PresentAreMembers`; `DeliveredOnce`; `RemindedOnce`; transfers: `StockAccounted`, `CodesFollowTargets` |
| `payments` | 1 payment, 2 sessions, 2 accounts | types, `ChargedOnce`, `ChargeNotLost`, `DeadLinkHeals`, `SessionsNotStranded`, `SettlementKept` (refinement), `ChargeNoticed` (liveness) |
| `box_twice` | as `quantity`, 2 units | violation of `BoxOutOnce` |
| `stuck` | as `quantity`, 2 units | violation of `IssuedIsReturnable` |
| `reservation` | 1 serialized product, 2 assets in a box | violation of `IndividualReservationsKept` |
| `shelved` | 1 serialized product of 1 asset, 2 requests, 1 fix call, 1 PATCH | violation of `OnlyFreeAssetsShelved` |
| `lost_update` | as `shelved` | violation of `PatchKeepsQuantities` |
| `live_object` | 1 file, 2 calls | violation of `ServiceFilesStay` |
| `lock_order` | 2 sessions, 4 assets of 2 products, 1 box, 1 borrower | violation of `HandoutsNeverDeadlock` |

The bounds. Every property relates at most two requests, two assets, one box
and one photo of each kind, so two of each are enough for a violation to have
its two parties; two units per product allow partial issue, partial return and
a broken unit beside a good one. `MaxQty` bounds the units one call names,
`MaxDelta` the size of a staff correction, `MaxTotal` the total a product can
grow to through corrections. Requests and photos are interchangeable and are
declared symmetric.

A stocktake meets its hazards between one count and one application, so one
session suffices; two lines let a line find what another has changed. The
waitlist needs one person with a seat and two who wait, and a capacity that can
grow and shrink by one: three people and a capacity up to two. A double charge
needs two things to pay, on one rail (two sessions) or on two; a stranded
session needs an account to change to. Payments share nothing but the
credentials, and a batch is settled in one transaction that rejects all of it
when one payment is terminal, so one payment is checked.

The services. Bookings: two bookings on a line of four moments can overlap, touch
and be apart. Machines: two jobs, two machines of which one is a printer, a queue
of one place and a pool of one gram, which two jobs fight over. Memberships: two
people, of whom one is a manager and can refer the other, one request, limits of
two. The fence: one row with the trigger and one without, two operations, so a
command can outlive its own, two key versions, one saving session. Delivery: one
message, two workers, one retry, two tasks, and two outcomes that are lost,
mistaken or overwritten. Three sweeps: one to claim an earlier due time, two to race
for the next. Locks: two sessions, since a deadlock of more needs no other order;
assets 1 and 2 of one product in a box, asset 3 of the same product and asset 4 of
another out, all with one borrower, so that every pair of services can meet on an
asset, a product, the makerspace and a borrower. Transfers: two makerspaces, rows up
to three, so that a row splits and merges again, and two codes of which one is new.
Uploads: two calls
and a file of two acceptable sizes and one too large, so that a size can change
between two looks; two images of one size, since the second replaces the first;
a limit that the second charge can hit. Updates: two updaters, each of
which may run again after it died, and two releases; once two have overlapped
nothing more is promised of them, and TLC goes no further (`NoOverlapYet`).

Some properties name what they do not promise. `DeliveredOnce` counts as `doubts`
the workers that died after the mail server had accepted the message, the calls
of `send()` that raised after it had, and outcomes written over a row in another's
hands; `OrderedNeverDeadlock` speaks of each group of services by itself; `RemindedOnce` leaves out due
times whose claim an older sweep took back. `AttachedIsStored` holds for
photos without exception; for the other kinds unless two calls met on the
file, or a deletion died between the store and its commit. `MarkerIsRunning`
lets the marker differ from what runs after a kill between `up -d` and the
marker, a rollback that failed or had no release to go back to, and a completion
that failed behind the marker, until an update completes; and says nothing more
once two updaters have cleared one dead lock.

The seven violations, each a statement of the repository that the code breaks:

* `BoxOutOnce` (`direct_loan_workflow.py:66`: "A physical container can only be
  out on one active handout at a time"): a direct handout looks for the
  container among loans only, so a box that left with a reviewed request can
  leave again.
* `IssuedIsReturnable` (`src/ARCHITECTURE.md:223`): when every accepted unit is
  rejected as broken at handover, the request is issued with nothing
  outstanding; a return must resolve something, so the request stays open and
  its box occupied.
* `IndividualReservationsKept` (`availability.py:416-418`): moving one asset
  reconciles the product with its rows, which sets the reserved bucket to the
  number of rows with status RESERVED. Reserved units keep status AVAILABLE, so
  their reservation is forgotten.
* `OnlyFreeAssetsShelved` (`views_assets.py:149`): the status is checked before
  the lock and not again under it.
* `PatchKeepsQuantities` (`src/ARCHITECTURE.md:295`): a PATCH writes back the
  quantities it read.
* `ServiceFilesStay` (`machines/service_storage.py:224-225`, `255-256`): a
  finalize call that fails checks without a lock whether the row is still
  unattached, and then deletes the object; another call can attach it between
  the two. Images of a space have the same window.
* `HandoutsNeverDeadlock` (`handover_workflow.py:147-150`): the checkout of a box
  joins the product in its locking query (`self_checkout_helpers.py:69`), so it
  locks asset, product, asset, product; the other flows lock all assets first.

Observations no document contradicts enough to make a run of: a transfer
to another makerspace looks for the row by the source's category but creates it
without one, so a categorised product gets a second row there
(`services_transfers.py:145`); and a pool corrected upwards while a job holds
grams can make the job impossible to end until it is corrected down again
(`service_consumable_pools.py:71`). An asset line of a stock transfer sets any status
of an asset that a borrower holds (`services_transfers.py:76`). When
`update_control complete` fails, `update.sh:136-138` has already written the
marker, so the rollback leaves the old release running under the new one's
name and later checks skip that release. Two updaters that found one dead lock
can both get in (`update.sh:44-50`). An updater killed after its claim leaves the
row `running`, so "Update now" does nothing (`updates/services.py:12`); the next
scheduled check takes over only with automatic updates on or `--force`.

## 5. What is proved

`CountingProofs` has what the other proofs count with. `SetInduction` is
induction over the naturals, stated for a set of numbers so that the provers can
instantiate it; `LeastNumber` is what it rests on. `PieceSet(f)` is the set of
units a function of numbers stands for, one by one, and its lemmas say how its
cardinality moves when one number changes. Units, grams and bytes are all summed
that way.

`LendingProofs` begins, operation by operation, with lemmas about `Availability`:
a row of naturals whose buckets fit in its total stays one, and what equation
each operation keeps. Then
`LendingProofs` proves of `Spec`, for every catalog, every set of
requests, assets, boxes and photos and every bound:

* `TypeCorrect`: `Spec => []TypeOK`. That counts are naturals says that no
  bucket ever goes below zero.
* `BucketsFit`: `Spec => []BucketsWithinTotal`.

`TypeOK` is not inductive alone: scrapping and rejecting as broken subtract
from `total`, which stays a natural only because the buckets fit in it. The
inductive invariant is `TypesAndRows`: `TypeOK` and the soundness of each row.

`CustodyProofs` proves, on top of it:

* `ReservedIsPromised`: `Spec => []ReservationsBacked`
* `IssuedIsOnLoan`: `Spec => []LoansBacked`
* `LoanAndRequestAgree`: `Spec => []LoanMatchesRequest`

The sums over requests are cardinalities of sets of tagged units, so a step of
one request changes the sum by exactly its own change (`TotalUnitsChange`). The
inductive invariant is `Shapes /\ Sums`, relative to `TypesAndRows`. `Shapes`
says of each request what its status implies about its items and its loan: an
accepted item has nothing issued, a request with a checked-out loan is issued
with nothing resolved, a closed one has nothing remaining. The sums need it: a
return subtracts from the issued bucket what an item has remaining, and
`return_tool` subtracts `issued - returned`, which is what remains only because
nothing of a loan's items was resolved before. `Shapes` does not need the sums:
`CustodyKept`, which every step of lending establishes, says that `Shapes` is
preserved and that the sums are preserved with it. Two properties rest on
`Shapes` alone:

* `RequestsEnd`: `Spec => ClosedIsFinal`
* `QrsOnOneLoan`: `Spec => []QrOnOneLoan`

The steps of the abstract ledger come from the same proof:

* `LendingRefinesCustody`: `Spec => UnitsInCustody`, every step of lending is a
  step of `Custody` or a stutter.

`CustodyKept` says that too (`LedgerStep`). The lemmas `LedgerAsks`,
`LedgerTakesOff`, `LedgerHandsOver`, `LedgerTakesBack` and `LedgerCorrects` say of
each abstract action what a concrete step must show to be one, and each service's
lemma shows it. It needs `Shapes`: the handover writes an item's needs-fix count
instead of adding to it, so before the handover that count must be zero; and
what a return takes off an item is what the request had in hand, because nothing
of an open loan is resolved. It does not need `Sums`, so the ledger
holds where the console breaks them (`ConsoleRefinesCustody` below).

A second invariant, `Progress`, is relative to the first and gives

* `ItemsFollowStatus`: `Spec => []ItemsMatchStatus`

`ItemsMatchStatus` is not inductive: the status a return computes
(`closed_with_issue` or `returned`) follows from what was damaged or missing over
all returns, so `Progress` keeps, for every status, whether something remains and
whether something came back broken. `RequestsEnd` holds because no service acts
on a request whose items have nothing left.

`AssetsOnOneLoan` (`Spec => []AssetOnOneLoan`) has a hypothesis,
`SerializedCatalog`: at the start only individual products have asset rows. With
it `AssetInv` is inductive: a link that is out sits on a request that is out, an
issued asset has exactly one holder, and the units an item has outstanding cover
its links, so the return that resolves the last unit has named every asset. The
lending services keep the hypothesis (`generate_assets_with_qr` switches the
product in the same transaction). A staff PATCH of `tracking_mode`
(`serializers_inventory.py:53`) can break it later; that handler is part of
`StaffConsole` only. TLC checks the hypothesis of each catalog it runs
(`MCLending`).

The only assumption of these is `LendingAssumption` in `HardwareLending`: the sets of
requests and assets are finite, the kinds of rows are disjoint, every asset has
a product, a box is in its own subtree, and a product starts with nothing out
and available units within its total. TLC evaluates it in every run.

`CommunityProofs` proves of `Events`, for every finite set of people and every
capacity (`EventsAssumption`):

* `CapacityIsKept`: `Spec => []CapacityKept`
* `NobodyWaitsBesideAFreeSeat`: `Spec => []NoIdleSeat`
* `WaitlistIsFair`: `Spec => FirstComeFirstSeated`
* `EventTypesAreKept`: `Spec => []EventsTypeOK`
* `OnlySeatsAreCharged`: `Spec => []OnlySeatsOwe`

The inductive invariant is `IInv`: types, `NobodyInDraft`, `CapacityKept` and
`NoIdleSeat`. `NobodyInDraft` is needed because publishing makes `NoIdleSeat`
begin to apply. Fairness of the waitlist leans on `NoIdleSeat`: `register` never
looks at the waitlist, and finds a free seat only when nobody waits.

Of `Bookings`, from `BookingsAssumption` (the horizon is a natural):

* `SpaceIsBookedOnce`: `BookingsSpec => []NoDoubleBooking`
* `OnlyHeldBookingsAreCharged`: `BookingsSpec => []OnlyBookingsOwe`

A new booking is compared with the confirmed ones only. The inductive invariant
adds `EndedIsOver`, that a booking is completed or a no-show only after its end;
otherwise completing it would free its time too early.

Of `Memberships`, from `MembershipsAssumption`:

* `RevokedMembersStayOut`: `MembershipsSpec => []RevokedStaysOut`
* `WhoeverIsPresentIsAMember`: `MembershipsSpec => []PresentAreMembers`

Revocation closes the requests of the account, not those of the address. The
invariant `EntryInv` says why this is enough: whoever has a membership has an
account, whoever came by a request has no open one that the revocation misses,
and a request that has led to a membership is decided.

`StorageProofs` proves of `WriteFence`, from `WriteFenceAssumption`:

* `FenceHolds`: `WriteFenceSpec => []FenceInv`
* `SavesUseTheLiveKey`: `WriteFenceSpec => []WritesUseLiveKey`
* `ClosedFencesAreQuiet`: `WriteFenceSpec => QuietWhenClosed`
* `RollbackLeavesNoEnvelope`: `WriteFenceSpec => []RollbackComplete`

A save that has passed its check keeps the fences open by its shared locks, so no
operation starts before it ends. The rollback needs more: an operation's number
is used once, and every row up to the checkpoint is plain as long as the fences
match (`Passed`); that is what lets a resumed command skip them.

and of `Uploads`, for any number of files and calls:

* `UploadsHold`: `UploadsSpec => []UploadsInv`
* `AttachedFilesAreThere`: `UploadsSpec => []AttachedIsStored`
* `ChargesExplained`: `UploadsSpec => []UsageExplained`

`torn` are the files on which two calls met or a deletion died. For the others
the invariant says that one call at most is at work, that it holds a row no other
call has attached (`AttachedAtRest`), and that the size it measured is that of
the object now under the final key (`SizesTrue`): staging can be overwritten by
the client at any time, the final key cannot. The charge is the cardinality of
`BytesCharged`, the bytes of the attached records one by one. Images are different:
one record holds one file, its size is read again when it goes, so the charge is
only promised while no two calls met.

`ServicesProofs`, each from the assumption of its module:

* `MachinesRunOneJob`, `PoolAddsUp`: `OneJobPerMachine` and `PoolExplained`; the
  grams are counted as a set of tagged grams, as the units are in `CustodyProofs`.
* `DueTimesAreRemindedOnce`: `RemindedOnce`; a due time is claimed by at most
  one sweep, and then marked as sent.
* `MessagesGoOutOnce`: `DeliveredOnce`; the messages accepted, the workers that
  may still hand one over and the one a claim may still start are together at
  most one more than the doubts.
* `OrderedLocksNeverDeadlock`: `OrderedNeverDeadlock`, for any number of sessions.
  Three groups have a rank of rows each (`HandRank`, `BackRank`, `MoveRank`), equal
  for rows whose locks conflict: whoever waits holds only rows of a lower rank than
  the row waited for, so a circle would climb for ever. The fourth, the reviewed
  services, begin with the makerspace, which one of them holds.
* `MarkerNamesWhatRuns`: `MarkerIsRunning`, for any number of updaters and
  releases. A working updater owns the lock, so no other step disturbs what it
  knows: the containers run its version from `up -d` to the marker, and until
  then the marker is the release it would roll back to (`KnowsTheHost`).

* `StockIsAccounted` and `CodesAndTargetsAgree`: `StockAccounted` and
  `CodesFollowTargets` of `Transfers`, for any number of makerspaces, rows, units
  and codes. The inductive invariant `TransfersInv` adds where units may be and
  where codes under creation may lead: a unit belongs to an individual product of
  its own makerspace, a code leads to a row that exists, and what a loan names is
  a quantity product or an issued unit that no other loan has. The hypothesis
  `StartsInOrder` says of the first rows, units and codes what the services
  leave: all of the total on the shelf, a unit counted by its product, a code in
  the makerspace of its target. A catalog import or a staff form may also create
  a product with fewer units available than its total
  (`serializers_inventory.py:115`); of such a product `RowsAddUp` is not claimed.
  TLC checks the hypothesis of the instance (`MCTransfers`).

* `PartsBehaveAsAlone` and `ServicesTypesAreKept`: in the composition `MCServices`
  each part behaves as its own specification says, so what is proved of a part
  holds there, and with it `ServicesTypeOK`. Most types are conjuncts of the
  invariants above. Those of the row locks are about data: the rows a query
  orders by key are the ones asked for (`KeysInOrder`: a finite set of keys
  can be put in order), and the scans of a box, joined from a sequence of pairs,
  are rows too (`FlattenType`). Those of the deliveries are bounds: the quota,
  the retries and the tasks of a row are never exceeded. The types of the
  transfers rest on `CatalogInOrder`, the hypothesis above, assumed of the
  instance and evaluated by TLC.

`PaymentsProofs`, for any number of payments, sessions, intents and accounts:

* `ChargesInvariant`: `Spec => []ChargesInv`, and from it
  `PaymentsTypeCorrect`, `NoDoubleCharge` (`ChargedOnce`), `CollectedIsKnown`
  (`ChargeNotLost`), `DeadLinksGo` (`DeadLinkHeals`) and `NoneStranded`
  (`SessionsNotStranded`).
* `PaymentsRefineSettlement`: `Spec => SettlementKept`, every step is a step of
  `Settlement` or a stutter.

`ChargesInv` follows the money: an object that can still be paid is the one the
row names, on the rail the row is on (`RailsInv`); a webhook was sent for all that
happened at Stripe and for nothing else (`SentInv`); one that was answered with
2xx has left its mark on the row or a note (`AckedInv`); and a row that is paid
online has a collected object (`PaidInv`). A second charge would need a second
object handed out, which the row's own rail, session and intent exclude.

`StaffProofs`, of the console beside lending, for every catalog and any number of
calls in flight:

* `ConsoleHolds`: `ConsoleSpec => []ConsoleInv`
* `ConsoleBucketsFit`: `ConsoleSpec => []BucketsWithinTotal`
* `ConsoleSparesRequests`:
  `ConsoleSpec => [](ItemsMatchStatus /\ LoanMatchesRequest /\ QrOnOneLoan)`
* `ConsoleReopensNothing`: `ConsoleSpec => ClosedIsFinal`

The product PATCH saves a row it read before, and an asset action may set any
status; the runs `lost_update` and `shelved` show quantities overwritten and a lent
asset shelved. These theorems say where the damage ends. What a PATCH writes back
is a whole row, total and buckets together, which was sound when it was read; the
invariant keeps that for each call in flight. And no lending service decides about a request from the
buckets: since `Shapes` and `Progress` are preserved without `Sums`, they hold
here, where `Sums` does not.

`StaffProofs`, of stocktakes, for every catalog and any number of lines:

* `TakesHold`: `StocktakeSpec => []TakesInv`, the types and sound rows of lending
  with stocktakes among its steps
* `CountsAreStocked`: `StocktakeSpec => CountedIsStocked`
* `BucketsMoveWithAssets`: `StocktakeSpec => BucketsFollowAssets`
* `StocktakesSpareRequests`: what `ConsoleSparesRequests` says, with stocktakes in
  place of the console
* `StocktakesRefineCustody`: `StocktakeSpec => UnitsInCustody`, an applied session
  being one correction of the stock, however many lines it has

Applying a session is a loop, and the second and third theorem are about what is true after its
last line. The loop is a recursive function of the number of lines (`LoopRuns`
shows that it is one); that every line went through follows backwards from the
last, that rows stay sound forwards from the first (`LoopGoesThrough`). A product's
line sets its bucket to the number counted because `Fresh` compares the bucket
with what the line expected, and no later line touches it when the line is
`Alone` (`LoopStocksCounted`). Bucket and asset rows move by the same `Shift` for
each line that counts an asset (`LoopFollowsAssets`).

Only model-checked: `ChargeNoticed`, a liveness property under fairness, which this
prover cannot reach. Every other property that a passing run checks is a theorem.
The seven violations are counterexamples of TLC. The run `staff` checks no type
invariant of its own: the types of its five parts are conjuncts of `ConsoleHolds`,
`TakesHold`, `FenceHolds`, `UploadsHold` and of the invariant behind
`MarkerNamesWhatRuns`.

## 6. Not modelled

Of payments: Stripe Connect; a native intent is never cancelled at Stripe and a
change of credentials does not look for one, so `SessionsNotStranded` and
`ChargeNoticed` are stated for sessions.

Of lending: archived rows, names, printed labels and box codes; `AssetOnOneLoan`
is stated without the asset line of a stock transfer, which can free an asset
that is on loan. Of machines: estimates in minutes, linked stock consumables and
the charge of a completed job. Of bookings: duration and opening rules,
which only refuse. Of delivery: templates, mutes and the chat channels, which
claim and retry as e-mail does. Of encryption: cryptography, key brokers, search
keys and the backfill. Of locks: metered PUT
uploads, with which handouts and returns lock the makerspace first, and staff who
borrow. Of uploads: presigned POST, content checks, the recount
of storage, the purge of a makerspace. Of memberships: roles, dues, waivers and
suspended accounts.

Beyond these, the parts that keep records without a protocol (warranty,
maintenance schedules, roadmap, forms, audit), device tokens and API
clients, permissions, the front end and the deployment.
