------------------------------- MODULE Payments -------------------------------
(***************************************************************************)
(* Charges of one makerspace (apps/payments) over its own Stripe account:  *)
(* the two online rails, staff reconciliation, cancellation, webhooks and  *)
(* the change of credentials.  Stripe is external: it runs on its own,     *)
(* keeps what a rolled-back transaction made it do, and reports by         *)
(* webhooks that come late, repeatedly and in any order.                   *)
(***************************************************************************)
EXTENDS Integers, FiniteSets

CONSTANTS
    Payments,      \* rows of Payment
    None,          \* a null column
    MaxSessions,   \* bound: Checkout Sessions of one payment
    MaxAccounts    \* bound: Stripe accounts whose credentials staff enter

VARIABLES
    payment,      \* Payment rows
    credentials,  \* the account of the stored raw credentials, 0 for none
    stripe,       \* per payment, the sessions and native intents at Stripe
    sent,         \* webhooks Stripe has to deliver
    acked,        \* those of them answered with a 2xx at least once
    processed,    \* ProcessedStripeEvent rows
    anomalies     \* payment.paid_after_terminal audit rows

vars == <<payment, credentials, stripe, sent, acked, processed, anomalies>>

ByStaff == {"paid_offline", "waived", "canceled"}
Terminal == ByStaff \cup {"paid_online"}
Statuses == {"absent", "pending"} \cup Terminal
Rails == {"checkout", "native", None}

Accounts == 1..MaxAccounts
Sessions == {<<"session", n>> : n \in 1..MaxSessions}
Natives == {<<"native", a>> : a \in Accounts}
Refs == Sessions \cup Natives

ASSUME PaymentsAssumption ==
    /\ MaxSessions \in Nat /\ MaxAccounts \in Nat \ {0}
    /\ None \notin Refs

\* expired identifies the session whose expiry stripe_checkout_session_expired_at
\* records; timestamps serve the code only to tell expiries apart.  The URL is
\* set exactly while the session is.
PaymentRow == [status : Statuses, rail : Rails, session : Sessions \cup {None},
               expired : Sessions \cup {None}, intent : Refs \cup {None}]

NewPayment == [status |-> "absent", rail |-> None, session |-> None,
               expired |-> None, intent |-> None]

\* An object at Stripe: generation is the idempotency key it was made under,
\* handed says whether its URL or client secret has left the server.
ObjectStates == {"absent", "open", "processing", "paid", "failed", "expired"}
StripeObject == [state : ObjectStates, account : Accounts \cup {None},
                 generation : Sessions \cup {None}, handed : BOOLEAN]
NoObject == [state |-> "absent", account |-> None, generation |-> None,
             handed |-> FALSE]

Kinds == {"completed", "unpaid", "async_succeeded", "expired", "intent_succeeded"}
Events == [payment : Payments, ref : Refs, kind : Kinds, account : Accounts]

PaymentsTypeOK ==
    /\ payment \in [Payments -> PaymentRow]
    /\ credentials \in 0..MaxAccounts
    /\ stripe \in [Payments -> [Refs -> StripeObject]]
    /\ sent \subseteq Events
    /\ acked \subseteq sent
    /\ processed \subseteq acked
    /\ anomalies \subseteq processed

Init ==
    /\ payment = [p \in Payments |-> NewPayment]
    /\ credentials = 1
    /\ stripe = [p \in Payments |-> [r \in Refs |-> NoObject]]
    /\ sent = {} /\ acked = {} /\ processed = {} /\ anomalies = {}

serverVars == <<payment, credentials, processed, anomalies>>
webhooks == <<sent, acked, processed, anomalies>>

-----------------------------------------------------------------------------
create_payment(p) ==
    /\ payment[p].status = "absent" /\ credentials # 0
    /\ payment' = [payment EXCEPT ![p].status = "pending"]
    /\ UNCHANGED <<credentials, stripe, webhooks>>

\* The session Stripe answers with: the one it remembers under the idempotency
\* key, else a new one.  The key of an expired session is forgotten.
Remembered(p) ==
    {s \in Sessions : /\ stripe[p][s].state \notin {"absent", "expired"}
                      /\ stripe[p][s].generation = payment[p].expired
                      /\ stripe[p][s].account = credentials}
FirstUnused(p) ==
    {s \in Sessions : /\ stripe[p][s].state = "absent"
                      /\ \A t \in Sessions : t[2] < s[2] => stripe[p][t].state # "absent"}
AnsweredWith(p) == IF Remembered(p) # {} THEN Remembered(p) ELSE FirstUnused(p)

\* The object r after Stripe was asked for it, and after its URL was handed out.
Asked(p, r) ==
    IF stripe[p][r].state # "absent" THEN stripe[p][r]
    ELSE [state |-> "open", account |-> credentials,
          generation |-> payment[p].expired, handed |-> FALSE]
Handed(p, r) == [Asked(p, r) EXCEPT !.handed = TRUE]

CanCheckout(p) ==
    /\ payment[p].status = "pending" /\ payment[p].rail # "native"
    /\ payment[p].session = None /\ credentials # 0

create_checkout_url(p) ==
    /\ CanCheckout(p)
    /\ \E s \in AnsweredWith(p) :
          /\ stripe' = [stripe EXCEPT ![p][s] = Handed(p, s)]
          /\ payment' = [payment EXCEPT ![p].session = s, ![p].expired = None,
                                        ![p].rail = "checkout"]
    /\ UNCHANGED <<credentials, webhooks>>

\* The process dies, or the commit fails, after Stripe made the session.
create_checkout_url_lost(p) ==
    /\ CanCheckout(p)
    /\ \E s \in AnsweredWith(p) : stripe' = [stripe EXCEPT ![p][s] = Asked(p, s)]
    /\ UNCHANGED <<payment, credentials, webhooks>>

\* Fault: the rail is not looked at.
CanUseIntentAnyRail(p) ==
    /\ payment[p].status = "pending" /\ credentials # 0
    /\ payment[p].intent = None

CanUseIntent(p) ==
    /\ payment[p].status = "pending" /\ payment[p].rail # "checkout"
    /\ credentials # 0 /\ payment[p].intent = None

create_mobile_intent(p) ==
    /\ CanUseIntent(p)
    /\ LET r == <<"native", credentials>>
       IN  /\ stripe' = [stripe EXCEPT ![p][r] = Handed(p, r)]
           /\ payment' = [payment EXCEPT ![p].rail = "native", ![p].intent = r]
    /\ UNCHANGED <<credentials, webhooks>>

create_mobile_intent_lost(p) ==
    /\ CanUseIntent(p)
    /\ LET r == <<"native", credentials>>
       IN  stripe' = [stripe EXCEPT ![p][r] = Asked(p, r)]
    /\ UNCHANGED <<payment, credentials, webhooks>>

-----------------------------------------------------------------------------
\* Stripe and the member.
Report(p, r, kinds) ==
    {[payment |-> p, ref |-> r, kind |-> k, account |-> stripe[p][r].account] :
        k \in kinds}

Becomes(p, r, from, to, kinds) ==
    /\ stripe[p][r].state = from
    /\ stripe' = [stripe EXCEPT ![p][r].state = to]
    /\ sent' = sent \cup Report(p, r, kinds)
    /\ UNCHANGED <<acked, serverVars>>

member_pays(p, r) ==
    /\ stripe[p][r].handed
    /\ \/ r \in Sessions
          /\ Becomes(p, r, "open", "paid", {"completed", "intent_succeeded"})
       \/ r \in Natives /\ Becomes(p, r, "open", "paid", {"intent_succeeded"})
       \/ r \in Sessions /\ Becomes(p, r, "open", "processing", {"unpaid"})

bank_answers(p, r) ==
    \/ Becomes(p, r, "processing", "paid", {"async_succeeded", "intent_succeeded"})
    \/ Becomes(p, r, "processing", "failed", {})

session_expires(p, r) ==
    r \in Sessions /\ Becomes(p, r, "open", "expired", {"expired"})

-----------------------------------------------------------------------------
\* A webhook whose signature the stored secret verifies.
Verified(e) == e \in sent /\ e.account = credentials

\* payments.filter(identifiers): by session id, or by the id of the intent.
Matches(e) ==
    \/ e.kind # "intent_succeeded" /\ payment[e.payment].session = e.ref
    \/ e.kind # "expired" /\ payment[e.payment].intent = e.ref

\* Fault: payment_status is not looked at.
AppliesUnpaid(e) == Matches(e) /\ e \notin processed

\* Fault: the late success of a bank transfer is not known.
AppliesNoAsync(e) ==
    e.kind \notin {"unpaid", "async_succeeded"} /\ Matches(e) /\ e \notin processed

\* The handler reads on, and _record_once accepts the event.
Applies(e) == e.kind # "unpaid" /\ Matches(e) /\ e \notin processed

webhook_ignored(e) ==
    /\ Verified(e) /\ ~Applies(e)
    /\ acked' = acked \cup {e}
    /\ UNCHANGED <<serverVars, stripe, sent>>

\* Fault: the request fails after the event was recorded.
RecordUnanswered(e) == acked' = acked /\ processed' = processed \cup {e}

Record(e) == acked' = acked \cup {e} /\ processed' = processed \cup {e}

\* Fault: the event is recorded and the link kept.
webhook_expired_keeps_link(e) ==
    /\ Verified(e) /\ Applies(e) /\ e.kind = "expired"
    /\ Record(e)
    /\ payment' = [payment EXCEPT ![e.payment].expired = e.ref]
    /\ UNCHANGED <<credentials, stripe, sent, anomalies>>

webhook_expired(e) ==
    /\ Verified(e) /\ Applies(e) /\ e.kind = "expired"
    /\ Record(e)
    /\ payment' = [payment EXCEPT ![e.payment].expired = e.ref,
                                  ![e.payment].session = None]
    /\ UNCHANGED <<credentials, stripe, sent, anomalies>>

webhook_paid(e) ==
    /\ Verified(e) /\ Applies(e) /\ e.kind # "expired"
    /\ payment[e.payment].status = "pending"
    /\ Record(e)
    /\ payment' = [payment EXCEPT ![e.payment].status = "paid_online",
                                  ![e.payment].intent = e.ref]
    /\ UNCHANGED <<credentials, stripe, sent, anomalies>>

\* Fault: a terminal payment is answered and forgotten.
webhook_after_terminal_silent(e) ==
    /\ Verified(e) /\ Applies(e) /\ e.kind # "expired"
    /\ payment[e.payment].status # "pending"
    /\ Record(e)
    /\ UNCHANGED <<payment, credentials, stripe, sent, anomalies>>

webhook_after_terminal(e) ==
    /\ Verified(e) /\ Applies(e) /\ e.kind # "expired"
    /\ payment[e.payment].status # "pending"
    /\ Record(e)
    /\ anomalies' = anomalies \cup {e}
    /\ UNCHANGED <<payment, credentials, stripe, sent>>

apply_webhook_event(e) ==
    \/ webhook_ignored(e) \/ webhook_expired(e)
    \/ webhook_paid(e) \/ webhook_after_terminal(e)

-----------------------------------------------------------------------------
SessionState(p) == stripe[p][payment[p].session].state

\* Payments of ps whose session _expire_checkout_best_effort asks Stripe to end,
\* where the stored credentials can reach it.
ToExpire(ps) ==
    {p \in ps : /\ payment[p].session # None /\ payment[p].expired = None
                /\ stripe[p][payment[p].session].account = credentials}

\* The call may not arrive, and its outcome may not be learnt; what is learnt
\* is the state at Stripe.
SettleAll(ps, target) ==
    /\ \A p \in ps : payment[p].status = "pending"
    /\ \E reached \in SUBSET {p \in ToExpire(ps) : SessionState(p) = "open"} :
       \E confirmed \in SUBSET
             (reached \cup {p \in ToExpire(ps) : SessionState(p) = "expired"}) :
          /\ stripe' = [p \in Payments |->
                IF p \in reached
                THEN [stripe[p] EXCEPT ![payment[p].session].state = "expired"]
                ELSE stripe[p]]
          /\ sent' = sent \cup UNION {Report(p, payment[p].session, {"expired"}) :
                                        p \in reached}
          /\ payment' = [p \in Payments |->
                IF p \notin ps THEN payment[p]
                ELSE [payment[p] EXCEPT !.status = target,
                         !.expired = IF p \in confirmed THEN payment[p].session
                                     ELSE @]]
    /\ UNCHANGED <<credentials, acked, processed, anomalies>>

reconcile_payments(ps, target) == SettleAll(ps, target)
cancel_pending(p) == SettleAll({p}, "canceled")

\* Sessions a change of credentials has to know closed.
PotentiallyLive ==
    {p \in Payments : /\ payment[p].session # None /\ payment[p].expired = None
                      /\ payment[p].status # "paid_online"}

\* Fault: a completed session counts as closed.
ClosedWhenComplete(p) ==
    /\ stripe[p][payment[p].session].account = credentials
    /\ SessionState(p) # "open"

\* checkout_session_is_closed
Closed(p) ==
    /\ stripe[p][payment[p].session].account = credentials
    /\ SessionState(p) = "expired"

update_payment_settings(account) ==
    /\ account # credentials
    /\ \A p \in PotentiallyLive : Closed(p)
    /\ credentials' = account
    /\ payment' = [p \in Payments |->
          IF p \in PotentiallyLive
          THEN [payment[p] EXCEPT !.expired = payment[p].session, !.session = None]
          ELSE payment[p]]
    /\ UNCHANGED <<stripe, webhooks>>

-----------------------------------------------------------------------------
StripeSteps ==
    \E p \in Payments, r \in Refs :
        member_pays(p, r) \/ bank_answers(p, r) \/ session_expires(p, r)

ServerSteps ==
    \/ \E p \in Payments :
          \/ create_payment(p)
          \/ create_checkout_url(p) \/ create_checkout_url_lost(p)
          \/ create_mobile_intent(p) \/ create_mobile_intent_lost(p)
          \/ cancel_pending(p)
    \/ \E ps \in SUBSET Payments \ {{}}, target \in {"paid_offline", "waived"} :
          reconcile_payments(ps, target)
    \/ \E e \in sent : apply_webhook_event(e)
    \/ \E account \in 0..MaxAccounts : update_payment_settings(account)

Next == StripeSteps \/ ServerSteps

Spec == Init /\ [][Next]_vars

\* Stripe sends a webhook again until it is acknowledged.
FairSpec == Spec /\ \A e \in Events : WF_vars(apply_webhook_event(e))

-----------------------------------------------------------------------------
Collected(p) == {r \in Refs : stripe[p][r].state = "paid"}

\* The events that tell the server of a charge.
Tells(e) == IF e.ref \in Natives THEN e.kind = "intent_succeeded"
            ELSE e.kind \in {"completed", "async_succeeded"}

Settled(p) == payment[p].status = "paid_online" \/ \E e \in anomalies : e.payment = p

\* A member is never charged twice for one payment, however sessions expire,
\* transactions die after Stripe answered, and rails are tried in turn.
ChargedOnce == \A p \in Payments : Cardinality(Collected(p)) <= 1

\* Money that Stripe collected is booked as paid online or noted as paid after
\* another settlement, or a webhook that tells of it is still to be answered.
ChargeNotLost ==
    \A p \in Payments : \A r \in Collected(p) :
        \/ Settled(p)
        \/ \E e \in sent \ acked : e.payment = p /\ e.ref = r /\ Tells(e)

\* A pending payment never keeps a link to an expired session for good: the
\* webhook that removes it is still to come.
DeadLinkHeals ==
    \A p \in Payments :
        payment[p].status = "pending" /\ payment[p].session # None
                /\ SessionState(p) = "expired"
            => \E e \in sent \ acked : e.payment = p /\ e.ref = payment[p].session
                                         /\ e.kind = "expired"

\* What a member can still pay, or has paid without the server knowing.
Outstanding(p, r) ==
    /\ stripe[p][r].handed
    /\ \/ stripe[p][r].state \in {"open", "processing"}
       \/ stripe[p][r].state = "paid" /\ ~Settled(p)

\* The credentials stay those of every Checkout session a member can still pay,
\* so the webhook that tells of it can be verified.
SessionsNotStranded ==
    \A p \in Payments : \A s \in Sessions :
        Outstanding(p, s) => stripe[p][s].account = credentials

\* Once Stripe has collected through a Checkout session, the server comes to
\* know, even of a charge that staff settled otherwise meanwhile.
ChargeNoticed ==
    \A p \in Payments : (Collected(p) \cap Sessions # {}) ~> Settled(p)

\* The app keeps the promise of Settlement.
Abstract == INSTANCE Settlement WITH
    status <- [p \in Payments |-> payment[p].status],
    charged <- {p \in Payments : Collected(p) # {}},
    noted <- {e.payment : e \in anomalies}
SettlementKept == Abstract!Spec
=============================================================================
