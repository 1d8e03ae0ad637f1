---------------------------- MODULE PaymentsProofs ----------------------------
(***************************************************************************)
(* Theorems about Payments for all payments, sessions and accounts, and    *)
(* the refinement of Settlement.  What the server can know is behind what  *)
(* Stripe did, so the invariant ties the two by what cannot be undone: an  *)
(* object that is paid or expired stays so, its webhook stays sent, and a  *)
(* session the row no longer names has expired at Stripe.                  *)
(***************************************************************************)
EXTENDS Payments, FiniteSetTheorems, TLAPS

\* What state of an object its webhooks, its link and its row go with.
ObjectsInv ==
    \A p \in Payments, r \in Refs :
       /\ stripe[p][r].state \in {"processing", "paid", "failed"} => stripe[p][r].handed
       /\ stripe[p][r].handed => stripe[p][r].state # "absent"
       /\ stripe[p][r].state # "absent" =>
             payment[p].status # "absent" /\ stripe[p][r].account \in Accounts

\* One rail: a session that was handed out and can still be paid is the row's,
\* a native intent that was handed out too.
RailsInv ==
    \A p \in Payments :
       /\ \A s \in Sessions : stripe[p][s].handed =>
             /\ payment[p].rail = "checkout"
             /\ payment[p].session = s \/ stripe[p][s].state = "expired"
       /\ \A r \in Natives : stripe[p][r].handed =>
             payment[p].rail = "native" /\ payment[p].intent = r

\* The row's expiry is the one of the session it still names.
ExpiryInv ==
    \A p \in Payments :
       payment[p].session # None /\ payment[p].expired # None => SessionState(p) = "expired"

OfCharge == {"completed", "async_succeeded", "intent_succeeded"}

\* A webhook was sent for what happened, and what happened was reported.
SentInv ==
    /\ \A e \in sent :
          /\ e.kind \in OfCharge => stripe[e.payment][e.ref].state = "paid"
          /\ e.kind = "expired" => stripe[e.payment][e.ref].state = "expired"
    /\ \A p \in Payments, r \in Refs :
          /\ stripe[p][r].state = "paid" =>
                \E e \in sent : e.payment = p /\ e.ref = r /\ Tells(e)
          /\ stripe[p][r].state = "expired" =>
                \E e \in sent : e.payment = p /\ e.ref = r /\ e.kind = "expired"

\* What an answered webhook has left behind.
AckedInv ==
    \A e \in acked :
       /\ e.kind = "expired" => payment[e.payment].session # e.ref
       /\ Tells(e) => Settled(e.payment)

PaidInv == \A p \in Payments : payment[p].status = "paid_online" => Collected(p) # {}

ChargesInv ==
    /\ PaymentsTypeOK /\ ObjectsInv /\ RailsInv /\ ExpiryInv /\ SentInv
    /\ AckedInv /\ PaidInv /\ SessionsNotStranded

-----------------------------------------------------------------------------
\* What the proofs need of the names: the two rails never share an object.
LEMMA RefNames ==
    /\ Refs = Sessions \cup Natives
    /\ Sessions \cap Natives = {}
    /\ None \notin Refs /\ 0 \notin Accounts
    /\ \A a \in Accounts : <<"native", a>> \in Natives
    /\ Sessions \subseteq Refs /\ Natives \subseteq Refs
<1>1. Sessions \cap Natives = {}
  BY DEF Sessions, Natives
<1>2. 0 \notin Accounts /\ None \notin Refs
  BY PaymentsAssumption DEF PaymentsAssumption, Accounts
<1> QED
  BY <1>1, <1>2 DEF Refs, Natives

\* A payment that was collected was collected once: a paid object was handed
\* out, sessions of one payment that were handed out have expired but for the
\* row's, and the two rails exclude one another.
LEMMA OneCollected ==
    ASSUME ObjectsInv, RailsInv, NEW p \in Payments,
           NEW x \in Collected(p), NEW y \in Collected(p)
    PROVE  x = y /\ (x \in Sessions => payment[p].session = x)
<1>1. /\ x \in Refs /\ stripe[p][x].state = "paid" /\ stripe[p][x].handed
      /\ y \in Refs /\ stripe[p][y].state = "paid" /\ stripe[p][y].handed
  BY DEF Collected, ObjectsInv
<1>2. x \in Sessions \cup Natives /\ y \in Sessions \cup Natives
  BY <1>1, RefNames
<1>3. CASE x \in Sessions /\ y \in Sessions
  BY <1>1, <1>3 DEF RailsInv
<1>4. CASE x \in Natives /\ y \in Natives
  <2>1. x = payment[p].intent /\ y = payment[p].intent
    BY <1>1, <1>4 DEF RailsInv
  <2> QED
    BY <2>1, <1>4, RefNames
<1>5. CASE (x \in Sessions /\ y \in Natives) \/ (x \in Natives /\ y \in Sessions)
  <2>1. payment[p].rail = "checkout" /\ payment[p].rail = "native"
    BY <1>1, <1>5 DEF RailsInv
  <2> QED
    BY <2>1
<1> QED
  BY <1>2, <1>3, <1>4, <1>5

\* A telling webhook is about the object its row names.
LEMMA TellingMatches ==
    ASSUME PaymentsTypeOK, ObjectsInv, RailsInv, SentInv, NEW e \in sent, Tells(e)
    PROVE  Matches(e) /\ e.kind # "unpaid" /\ e.kind # "expired"
<1>1. /\ e.payment \in Payments /\ e.ref \in Refs
      /\ e.kind \in OfCharge
  BY DEF PaymentsTypeOK, Events, Tells, OfCharge
<1>2. stripe[e.payment][e.ref].state = "paid" /\ stripe[e.payment][e.ref].handed
  BY <1>1 DEF SentInv, ObjectsInv
<1>3. CASE e.ref \in Natives
  BY <1>1, <1>2, <1>3 DEF RailsInv, Matches, Tells
<1>4. CASE e.ref \in Sessions
  <2>1. payment[e.payment].session = e.ref
    BY <1>1, <1>2, <1>4 DEF RailsInv
  <2>2. e.ref \notin Natives
    BY <1>4, RefNames
  <2> QED
    BY <2>1, <2>2 DEF Matches, Tells
<1> QED
  BY <1>1, <1>3, <1>4, RefNames

-----------------------------------------------------------------------------
LEMMA ChargesStart == Init => ChargesInv
<1> SUFFICES ASSUME Init PROVE ChargesInv
  OBVIOUS
<1>1. PaymentsTypeOK
  <2>1. NewPayment \in PaymentRow /\ NoObject \in StripeObject
    BY DEF NewPayment, PaymentRow, NoObject, StripeObject, Statuses, Rails, ObjectStates
  <2>2. 1 \in 0..MaxAccounts
    BY PaymentsAssumption DEF PaymentsAssumption
  <2> QED
    BY <2>1, <2>2 DEF Init, PaymentsTypeOK
<1>2. \A p \in Payments : payment[p] = NewPayment /\ \A r \in Refs : stripe[p][r] = NoObject
  BY DEF Init
<1>3. sent = {} /\ acked = {}
  BY DEF Init
<1> QED
  BY <1>1, <1>2, <1>3, RefNames
  DEF ChargesInv, ObjectsInv, RailsInv, ExpiryInv, SentInv, AckedInv, PaidInv,
      SessionsNotStranded, Outstanding, NewPayment, NoObject

-----------------------------------------------------------------------------
\* A step of Stripe: one object moves, and what it reports fits where it went.
LEMMA ObjectMoves ==
    ASSUME ChargesInv, NEW p \in Payments, NEW r \in Refs,
           NEW from \in {"open", "processing"}, NEW to \in ObjectStates \ {"absent", "open"},
           NEW kinds \in SUBSET Kinds,
           to # "expired" => stripe[p][r].handed,
           to = "paid" => \E e \in Report(p, r, kinds) : Tells(e),
           to # "paid" => kinds \cap OfCharge = {},
           ("expired" \in kinds) = (to = "expired"),
           Becomes(p, r, from, to, kinds)
    PROVE  ChargesInv'
<1> DEFINE rep == Report(p, r, kinds)
<1>1. /\ PaymentsTypeOK /\ ObjectsInv /\ RailsInv /\ ExpiryInv /\ SentInv
      /\ AckedInv /\ PaidInv /\ SessionsNotStranded
  BY DEF ChargesInv
<1>2. /\ stripe[p][r].state = from /\ stripe' = [stripe EXCEPT ![p][r].state = to]
      /\ sent' = sent \cup rep
      /\ acked' = acked /\ payment' = payment /\ credentials' = credentials
      /\ processed' = processed /\ anomalies' = anomalies
  BY DEF Becomes, serverVars
<1>3. PICK o \in StripeObject : o = [stripe[p][r] EXCEPT !.state = to]
  <2>1. stripe[p][r] \in StripeObject
    BY <1>1 DEF PaymentsTypeOK
  <2>2. to \in ObjectStates
    OBVIOUS
  <2> QED
    BY <2>1, <2>2 DEF StripeObject
<1>4. stripe' = [stripe EXCEPT ![p][r] = o]
  BY <1>1, <1>2, <1>3 DEF PaymentsTypeOK
<1>5. /\ stripe' \in [Payments -> [Refs -> StripeObject]]
      /\ stripe'[p][r] = o
      /\ \A q \in Payments, t \in Refs : q # p \/ t # r => stripe'[q][t] = stripe[q][t]
  <2>1. stripe \in [Payments -> [Refs -> StripeObject]]
    BY <1>1 DEF PaymentsTypeOK
  <2> QED
    BY <1>4, <2>1
<1>6. /\ o.state = to /\ o.account = stripe[p][r].account
      /\ o.handed = stripe[p][r].handed
  <2>1. stripe[p][r] \in StripeObject
    BY <1>1 DEF PaymentsTypeOK
  <2> QED
    BY <1>3, <2>1 DEF StripeObject
<1>7. \A e \in rep : e.payment = p /\ e.ref = r /\ e.kind \in kinds
                     /\ e.account = stripe[p][r].account
  BY DEF Report
<1>8. stripe[p][r].account \in Accounts /\ payment[p].status # "absent"
  BY <1>1, <1>2 DEF ObjectsInv
<1> HIDE DEF rep
<1>9. PaymentsTypeOK'
  <2>1. rep \subseteq Events
    BY <1>8 DEF rep, Report, Events
  <2> QED
    BY <1>1, <1>2, <1>5, <2>1 DEF PaymentsTypeOK
<1>10. \A q \in Payments, t \in Refs :
          /\ stripe'[q][t].handed = stripe[q][t].handed
          /\ stripe'[q][t].account = stripe[q][t].account
          /\ stripe'[q][t].state = IF q = p /\ t = r THEN to ELSE stripe[q][t].state
  BY <1>5, <1>6
<1>11. ObjectsInv'
  BY <1>1, <1>2, <1>8, <1>10 DEF ObjectsInv
<1>12. RailsInv' /\ ExpiryInv'
  <2>1. \A q \in Payments, t \in Refs :
           stripe[q][t].state = "expired" => stripe'[q][t].state = "expired"
    BY <1>2, <1>10
  <2>2. \A q \in Payments : payment[q].session \in Sessions \cup {None}
    BY <1>1 DEF PaymentsTypeOK, PaymentRow
  <2> QED
    BY <1>1, <1>2, <1>10, <2>1, <2>2, RefNames DEF RailsInv, ExpiryInv, SessionState
<1>13. SentInv'
  <2>1. \A e \in sent : e.payment \in Payments /\ e.ref \in Refs
    BY <1>1 DEF PaymentsTypeOK, Events
  <2>2. \A e \in sent' :
           /\ e.kind \in OfCharge => stripe'[e.payment][e.ref].state = "paid"
           /\ e.kind = "expired" => stripe'[e.payment][e.ref].state = "expired"
    BY <1>1, <1>2, <1>7, <1>10, <2>1 DEF SentInv
  <2>4. /\ to = "paid" => \E e \in rep : Tells(e)
        /\ to = "expired" => \E e \in rep : e.kind = "expired"
    <3>1. to = "paid" => \E e \in rep : Tells(e)
      BY DEF rep
    <3>2. to = "expired" => [payment |-> p, ref |-> r, kind |-> "expired",
                              account |-> stripe[p][r].account] \in rep
      BY DEF rep, Report
    <3> QED
      BY <3>1, <3>2
  <2>3. \A q \in Payments, t \in Refs :
           stripe'[q][t].state = "paid" =>
              \E e \in sent' : e.payment = q /\ e.ref = t /\ Tells(e)
    BY <1>1, <1>2, <1>7, <1>10, <2>4 DEF SentInv
  <2>5. \A q \in Payments, t \in Refs :
           stripe'[q][t].state = "expired" =>
              \E e \in sent' : e.payment = q /\ e.ref = t /\ e.kind = "expired"
    BY <1>1, <1>2, <1>7, <1>10, <2>4 DEF SentInv
  <2> QED
    BY <2>2, <2>3, <2>5 DEF SentInv, Tells
<1>14. AckedInv'
  BY <1>1, <1>2 DEF AckedInv, Settled, Tells
<1>15. PaidInv'
  <2>1. \A q \in Payments : Collected(q) \subseteq Collected(q)'
    BY <1>2, <1>10 DEF Collected
  <2> QED
    BY <1>1, <1>2, <2>1 DEF PaidInv
<1>16. SessionsNotStranded'
  <2>1. \A q \in Payments, s \in Sessions : Outstanding(q, s)' => Outstanding(q, s)
    BY <1>2, <1>10, RefNames DEF Outstanding, Settled
  <2> QED
    BY <1>1, <1>2, <1>10, <2>1, RefNames DEF SessionsNotStranded
<1> QED
  BY <1>9, <1>11, <1>12, <1>13, <1>14, <1>15, <1>16 DEF ChargesInv

\* One of several kinds reported tells of the charge.
LEMMA ReportTells ==
    ASSUME NEW p, NEW r \in Refs, NEW kinds, NEW k \in kinds,
           r \in Natives => k = "intent_succeeded",
           r \in Sessions => k \in {"completed", "async_succeeded"}
    PROVE  \E e \in Report(p, r, kinds) : Tells(e)
<1> DEFINE e == [payment |-> p, ref |-> r, kind |-> k, account |-> stripe[p][r].account]
<1>1. e \in Report(p, r, kinds)
  BY DEF Report
<1>2. Tells(e)
  BY RefNames DEF Tells
<1> QED
  BY <1>1, <1>2

LEMMA StripeStep ==
    ASSUME ChargesInv, NEW p \in Payments, NEW r \in Refs,
           member_pays(p, r) \/ bank_answers(p, r) \/ session_expires(p, r)
    PROVE  ChargesInv'
<1> USE DEF OfCharge, ObjectStates, Kinds
<1>1. stripe[p][r].state = "processing" => stripe[p][r].handed
  BY DEF ChargesInv, ObjectsInv
<1>2. CASE /\ stripe[p][r].handed /\ r \in Sessions
           /\ Becomes(p, r, "open", "paid", {"completed", "intent_succeeded"})
  <2>1. \E e \in Report(p, r, {"completed", "intent_succeeded"}) : Tells(e)
    BY <1>2, RefNames, ReportTells
  <2> QED
    BY <1>2, <2>1, ObjectMoves
<1>3. CASE /\ stripe[p][r].handed /\ r \in Natives
           /\ Becomes(p, r, "open", "paid", {"intent_succeeded"})
  <2>1. \E e \in Report(p, r, {"intent_succeeded"}) : Tells(e)
    BY <1>3, RefNames, ReportTells
  <2> QED
    BY <1>3, <2>1, ObjectMoves
<1>4. CASE /\ stripe[p][r].handed /\ r \in Sessions
           /\ Becomes(p, r, "open", "processing", {"unpaid"})
  BY <1>4, ObjectMoves
<1>5. CASE Becomes(p, r, "processing", "paid", {"async_succeeded", "intent_succeeded"})
  <2>1. stripe[p][r].handed
    BY <1>1, <1>5 DEF Becomes
  <2>2. \E e \in Report(p, r, {"async_succeeded", "intent_succeeded"}) : Tells(e)
    BY RefNames, ReportTells
  <2> QED
    BY <1>5, <2>1, <2>2, ObjectMoves
<1>6. CASE Becomes(p, r, "processing", "failed", {})
  <2>1. stripe[p][r].handed
    BY <1>1, <1>6 DEF Becomes
  <2> QED
    BY <1>6, <2>1, ObjectMoves
<1>7. CASE r \in Sessions /\ Becomes(p, r, "open", "expired", {"expired"})
  BY <1>7, ObjectMoves
<1> QED
  BY <1>2, <1>3, <1>4, <1>5, <1>6, <1>7 DEF member_pays, bank_answers, session_expires

-----------------------------------------------------------------------------
LEMMA AskedObject ==
    ASSUME ChargesInv, NEW p \in Payments, NEW r \in Refs, credentials # 0
    PROVE  /\ Asked(p, r) \in StripeObject /\ Handed(p, r) \in StripeObject
           /\ Handed(p, r).handed
           /\ Asked(p, r).handed => stripe[p][r].state # "absent" /\ stripe[p][r].handed
           /\ \A o \in {Asked(p, r), Handed(p, r)} :
                 /\ o.state = IF stripe[p][r].state = "absent" THEN "open"
                              ELSE stripe[p][r].state
                 /\ o.account = IF stripe[p][r].state = "absent" THEN credentials
                                ELSE stripe[p][r].account
<1>1. stripe[p][r] \in StripeObject /\ payment[p].expired \in Sessions \cup {None}
  BY DEF ChargesInv, PaymentsTypeOK, PaymentRow
<1>2. credentials \in Accounts
  BY PaymentsAssumption DEF ChargesInv, PaymentsTypeOK, Accounts, PaymentsAssumption
<1>3. Asked(p, r) \in StripeObject
  BY <1>1, <1>2 DEF Asked, StripeObject, ObjectStates
<1>4. /\ Asked(p, r).handed => stripe[p][r].state # "absent" /\ stripe[p][r].handed
      /\ Asked(p, r).state = IF stripe[p][r].state = "absent" THEN "open"
                             ELSE stripe[p][r].state
      /\ Asked(p, r).account = IF stripe[p][r].state = "absent" THEN credentials
                               ELSE stripe[p][r].account
  BY DEF Asked
<1>5. /\ Handed(p, r) \in StripeObject /\ Handed(p, r).handed
      /\ Handed(p, r).state = Asked(p, r).state
      /\ Handed(p, r).account = Asked(p, r).account
  BY <1>3 DEF Handed, StripeObject
<1> QED
  BY <1>3, <1>4, <1>5

\* Stripe keeps o as the object r of payment p.
Puts(p, r, o) == stripe' = [stripe EXCEPT ![p][r] = o]

\* What a pending payment is given a link or a client secret for has not left the
\* server before: it is open, or it is a native intent that is worth nothing.
LEMMA ObjectAsked ==
    ASSUME ChargesInv, NEW p \in Payments, NEW r \in Refs,
           NEW o \in {Asked(p, r), Handed(p, r)},
           credentials # 0, payment[p].status = "pending",
           ~stripe[p][r].handed,
           r \in Sessions => \/ stripe[p][r].state = "absent"
                             \/ stripe[p][r].account = credentials,
           Puts(p, r, o),
           payment' \in [Payments -> PaymentRow],
           \A q \in Payments : payment'[q].status = payment[q].status,
           UNCHANGED <<credentials, webhooks>>
    PROVE  /\ PaymentsTypeOK' /\ ObjectsInv' /\ SentInv' /\ PaidInv'
           /\ SessionsNotStranded'
           /\ \A q \in Payments : Settled(q)' = Settled(q)
           /\ stripe'[p][r] = o
           /\ \A q \in Payments, t \in Refs :
                 q # p \/ t # r => stripe'[q][t] = stripe[q][t]
           /\ \A q \in Payments, t \in Refs :
                 stripe[q][t].state = "expired" => stripe'[q][t].state = "expired"
<1>1. /\ PaymentsTypeOK /\ ObjectsInv /\ RailsInv /\ ExpiryInv /\ SentInv
      /\ AckedInv /\ PaidInv /\ SessionsNotStranded
  BY DEF ChargesInv
<1>2. /\ sent' = sent /\ acked' = acked /\ processed' = processed
      /\ anomalies' = anomalies /\ credentials' = credentials
  BY DEF webhooks
<1>3. /\ o \in StripeObject
      /\ o.state = IF stripe[p][r].state = "absent" THEN "open" ELSE stripe[p][r].state
      /\ o.account = IF stripe[p][r].state = "absent" THEN credentials
                     ELSE stripe[p][r].account
  BY AskedObject
<1>4. /\ stripe' \in [Payments -> [Refs -> StripeObject]]
      /\ stripe'[p][r] = o
      /\ \A q \in Payments, t \in Refs : q # p \/ t # r => stripe'[q][t] = stripe[q][t]
  <2>1. stripe \in [Payments -> [Refs -> StripeObject]]
    BY <1>1 DEF PaymentsTypeOK
  <2> QED
    BY <1>3, <2>1 DEF Puts
<1>5. stripe[p][r].state \notin {"processing", "paid", "failed"}
  BY <1>1 DEF ObjectsInv
<1>6. credentials \in Accounts
  BY <1>1, PaymentsAssumption DEF PaymentsTypeOK, Accounts, PaymentsAssumption
<1>7. \A q \in Payments : Settled(q)' = Settled(q)
  BY <1>2 DEF Settled
<1>8. \A q \in Payments, t \in Refs :
         \A st \in {"paid", "expired"} :
            (stripe'[q][t].state = st) = (stripe[q][t].state = st)
  BY <1>3, <1>4, <1>5
<1>9. PaymentsTypeOK'
  BY <1>1, <1>2, <1>4 DEF PaymentsTypeOK
<1>10. ObjectsInv'
  BY <1>1, <1>3, <1>4, <1>5, <1>6 DEF ObjectsInv
<1>11. SentInv'
  <2>1. \A e \in sent : e.payment \in Payments /\ e.ref \in Refs
    BY <1>1 DEF PaymentsTypeOK, Events
  <2> QED
    BY <1>1, <1>2, <1>8, <2>1 DEF SentInv, Tells
<1>12. PaidInv'
  <2>1. \A q \in Payments : Collected(q)' = Collected(q)
    BY <1>8 DEF Collected
  <2> QED
    BY <1>1, <2>1 DEF PaidInv
<1>13. SessionsNotStranded'
  <2>1. \A q \in Payments, s \in Sessions :
           q # p \/ s # r => (Outstanding(q, s)' => Outstanding(q, s))
    BY <1>4, <1>7, RefNames DEF Outstanding
  <2>2. r \in Sessions => stripe'[p][r].account = credentials
    BY <1>3, <1>4
  <2> QED
    BY <1>1, <1>2, <1>4, <2>1, <2>2, RefNames DEF SessionsNotStranded
<1> QED
  BY <1>4, <1>7, <1>8, <1>9, <1>10, <1>11, <1>12, <1>13

LEMMA CreateStep ==
    ASSUME ChargesInv, NEW p \in Payments, create_payment(p)
    PROVE  ChargesInv'
<1>1. /\ PaymentsTypeOK /\ ObjectsInv /\ RailsInv /\ ExpiryInv /\ SentInv
      /\ AckedInv /\ PaidInv /\ SessionsNotStranded
  BY DEF ChargesInv
<1>2. /\ sent' = sent /\ acked' = acked /\ processed' = processed
      /\ anomalies' = anomalies /\ credentials' = credentials /\ stripe' = stripe
      /\ payment[p].status = "absent"
  BY DEF create_payment, webhooks
<1>3. /\ payment' \in [Payments -> PaymentRow]
      /\ \A q \in Payments \ {p} : payment'[q] = payment[q]
      /\ payment'[p] = [payment[p] EXCEPT !.status = "pending"]
  BY <1>1 DEF create_payment, PaymentsTypeOK, PaymentRow, Statuses
<1>4. /\ payment'[p].status = "pending" /\ payment'[p].rail = payment[p].rail
      /\ payment'[p].session = payment[p].session
      /\ payment'[p].expired = payment[p].expired
      /\ payment'[p].intent = payment[p].intent
  <2>1. payment[p] \in PaymentRow
    BY <1>1 DEF PaymentsTypeOK
  <2> QED
    BY <1>3, <2>1 DEF PaymentRow
<1>5. \A q \in Payments : /\ payment'[q].rail = payment[q].rail
                          /\ payment'[q].session = payment[q].session
                          /\ payment'[q].expired = payment[q].expired
                          /\ payment'[q].intent = payment[q].intent
                          /\ Settled(q)' = Settled(q)
  BY <1>2, <1>3, <1>4 DEF Settled
<1>6. PaymentsTypeOK'
  BY <1>1, <1>2, <1>3 DEF PaymentsTypeOK
<1>7. ObjectsInv' /\ PaidInv'
  <2>1. ObjectsInv'
    BY <1>1, <1>2, <1>3, <1>4 DEF ObjectsInv
  <2>2. \A q \in Payments : Collected(q)' = Collected(q)
    BY <1>2 DEF Collected
  <2>3. PaidInv'
    BY <1>1, <1>3, <1>4, <2>2 DEF PaidInv
  <2> QED
    BY <2>1, <2>3
<1>8. RailsInv' /\ ExpiryInv'
  BY <1>1, <1>2, <1>5 DEF RailsInv, ExpiryInv, SessionState
<1>9. SentInv'
  BY <1>1, <1>2 DEF SentInv, Tells
<1>10. AckedInv'
  <2>1. \A e \in acked : e.payment \in Payments
    BY <1>1 DEF PaymentsTypeOK, Events
  <2> QED
    BY <1>1, <1>2, <1>5, <2>1 DEF AckedInv, Tells
<1>11. SessionsNotStranded'
  BY <1>1, <1>2, <1>5 DEF SessionsNotStranded, Outstanding
<1> QED
  BY <1>6, <1>7, <1>8, <1>9, <1>10, <1>11 DEF ChargesInv

LEMMA CheckoutStep ==
    ASSUME ChargesInv, NEW p \in Payments,
           create_checkout_url(p) \/ create_checkout_url_lost(p)
    PROVE  ChargesInv'
<1>1. /\ PaymentsTypeOK /\ ObjectsInv /\ RailsInv /\ ExpiryInv /\ SentInv
      /\ AckedInv /\ PaidInv /\ SessionsNotStranded
  BY DEF ChargesInv
<1>2. /\ CanCheckout(p)
      /\ UNCHANGED <<credentials, webhooks>>
  BY DEF create_checkout_url, create_checkout_url_lost
<1>3. /\ payment[p].status = "pending" /\ payment[p].rail # "native"
      /\ payment[p].session = None /\ credentials # 0
  BY <1>2 DEF CanCheckout
<1>4. PICK s \in AnsweredWith(p) :
         \/ /\ stripe' = [stripe EXCEPT ![p][s] = Handed(p, s)]
            /\ payment' = [payment EXCEPT ![p].session = s, ![p].expired = None,
                                          ![p].rail = "checkout"]
         \/ /\ stripe' = [stripe EXCEPT ![p][s] = Asked(p, s)]
            /\ payment' = payment
  BY DEF create_checkout_url, create_checkout_url_lost
<1>5. /\ s \in Sessions
      /\ \/ stripe[p][s].state = "absent"
         \/ stripe[p][s].account = credentials /\ stripe[p][s].state # "expired"
  BY <1>4 DEF AnsweredWith, Remembered, FirstUnused
<1>6. ~stripe[p][s].handed
  BY <1>1, <1>3, <1>5, RefNames DEF RailsInv, ObjectsInv
<1>7. /\ payment' \in [Payments -> PaymentRow]
      /\ \A q \in Payments \ {p} : payment'[q] = payment[q]
      /\ payment'[p].status = payment[p].status
      /\ payment'[p].intent = payment[p].intent
  <2>1. payment \in [Payments -> PaymentRow] /\ payment[p] \in PaymentRow
    BY <1>1 DEF PaymentsTypeOK
  <2>2. CASE payment' = [payment EXCEPT ![p].session = s, ![p].expired = None,
                                        ![p].rail = "checkout"]
    BY <1>5, <2>1, <2>2 DEF PaymentRow, Rails
  <2> QED
    BY <1>4, <2>1, <2>2
<1>8. PICK o \in {Asked(p, s), Handed(p, s)} :
         /\ Puts(p, s, o)
         /\ \/ /\ payment'[p].session = s /\ payment'[p].expired = None
               /\ payment'[p].rail = "checkout"
            \/ ~o.handed /\ payment' = payment
  <2>1. payment[p] \in PaymentRow
    BY <1>1 DEF PaymentsTypeOK
  <2>2. ~Asked(p, s).handed
    BY <1>3, <1>5, <1>6, AskedObject, RefNames
  <2>3. CASE /\ stripe' = [stripe EXCEPT ![p][s] = Handed(p, s)]
             /\ payment' = [payment EXCEPT ![p].session = s, ![p].expired = None,
                                           ![p].rail = "checkout"]
    <3>1. /\ payment'[p].session = s /\ payment'[p].expired = None
          /\ payment'[p].rail = "checkout"
      BY <1>1, <2>1, <2>3 DEF PaymentsTypeOK, PaymentRow
    <3> QED
      BY <2>3, <3>1 DEF Puts
  <2> QED
    BY <1>4, <2>2, <2>3 DEF Puts
<1>9. /\ PaymentsTypeOK' /\ ObjectsInv' /\ SentInv' /\ PaidInv' /\ SessionsNotStranded'
      /\ \A q \in Payments : Settled(q)' = Settled(q)
      /\ stripe'[p][s] = o
      /\ \A q \in Payments, t \in Refs : q # p \/ t # s => stripe'[q][t] = stripe[q][t]
      /\ \A q \in Payments, t \in Refs :
            stripe[q][t].state = "expired" => stripe'[q][t].state = "expired"
  BY <1>2, <1>3, <1>5, <1>6, <1>7, <1>8, ObjectAsked, RefNames
<1>10. RailsInv'
  <2>1. \A q \in Payments \ {p} : payment'[q] = payment[q]
    BY <1>7
  <2>2. \A t \in Refs : stripe[p][t].handed => t \in Sessions /\ stripe[p][t].state = "expired"
    BY <1>1, <1>3, RefNames DEF RailsInv
  <2>3. \A t \in Refs : stripe'[p][t].handed =>
           /\ t \in Sessions
           /\ payment'[p].rail = "checkout"
           /\ payment'[p].session = t \/ stripe'[p][t].state = "expired"
    BY <1>1, <1>3, <1>5, <1>8, <1>9, <2>2, RefNames DEF RailsInv
  <2> QED
    BY <1>1, <1>5, <1>9, <2>1, <2>3, RefNames DEF RailsInv
<1>11. ExpiryInv'
  <2>1. \A q \in Payments : payment[q].session \in Refs \cup {None}
    BY <1>1, RefNames DEF PaymentsTypeOK, PaymentRow
  <2> QED
    BY <1>1, <1>3, <1>7, <1>8, <1>9, <2>1 DEF ExpiryInv, SessionState
<1>12. AckedInv'
  <2>1. acked' = acked
    BY <1>2 DEF webhooks
  <2>2. \A e \in acked : e \in sent /\ e.payment \in Payments /\ e.ref \in Refs
    BY <1>1 DEF PaymentsTypeOK, Events
  <2>3. \A e \in acked : e.kind = "expired" => payment'[e.payment].session # e.ref
    <3>1. \A e \in acked : e.kind = "expired" =>
             payment[e.payment].session # e.ref /\ stripe[e.payment][e.ref].state = "expired"
      BY <1>1, <2>2 DEF AckedInv, SentInv
    <3> QED
      BY <1>5, <1>7, <1>8, <2>2, <3>1
  <2> QED
    BY <1>1, <1>9, <2>1, <2>2, <2>3 DEF AckedInv, Tells
<1> QED
  BY <1>9, <1>10, <1>11, <1>12 DEF ChargesInv

LEMMA IntentStep ==
    ASSUME ChargesInv, NEW p \in Payments,
           create_mobile_intent(p) \/ create_mobile_intent_lost(p)
    PROVE  ChargesInv'
<1> DEFINE r == <<"native", credentials>>
<1>1. /\ PaymentsTypeOK /\ ObjectsInv /\ RailsInv /\ ExpiryInv /\ SentInv
      /\ AckedInv /\ PaidInv /\ SessionsNotStranded
  BY DEF ChargesInv
<1>2. /\ CanUseIntent(p)
      /\ UNCHANGED <<credentials, webhooks>>
  BY DEF create_mobile_intent, create_mobile_intent_lost
<1>3. /\ payment[p].status = "pending" /\ payment[p].rail # "checkout"
      /\ payment[p].intent = None /\ credentials # 0
  BY <1>2 DEF CanUseIntent
<1>4. \/ /\ stripe' = [stripe EXCEPT ![p][r] = Handed(p, r)]
         /\ payment' = [payment EXCEPT ![p].rail = "native", ![p].intent = r]
      \/ /\ stripe' = [stripe EXCEPT ![p][r] = Asked(p, r)]
         /\ payment' = payment
  BY DEF create_mobile_intent, create_mobile_intent_lost
<1>5. r \in Natives
  <2>1. credentials \in Accounts
    BY <1>1, <1>3, PaymentsAssumption DEF PaymentsTypeOK, Accounts, PaymentsAssumption
  <2> QED
    BY <2>1, RefNames
<1>6. PICK n \in Natives : n = r
  BY <1>5
<1>7. \A t \in Refs : ~stripe[p][t].handed
  BY <1>1, <1>3, RefNames DEF RailsInv
<1>8. /\ payment' \in [Payments -> PaymentRow]
      /\ \A q \in Payments \ {p} : payment'[q] = payment[q]
      /\ payment'[p].status = payment[p].status
      /\ payment'[p].session = payment[p].session
      /\ payment'[p].expired = payment[p].expired
  <2>1. payment \in [Payments -> PaymentRow] /\ payment[p] \in PaymentRow
    BY <1>1 DEF PaymentsTypeOK
  <2>2. CASE payment' = [payment EXCEPT ![p].rail = "native", ![p].intent = n]
    BY <1>6, <2>1, <2>2, RefNames DEF PaymentRow, Rails
  <2> QED
    BY <1>4, <1>6, <2>1, <2>2
<1>9. PICK o \in {Asked(p, n), Handed(p, n)} :
         /\ Puts(p, n, o)
         /\ \/ payment'[p].rail = "native" /\ payment'[p].intent = n
            \/ ~o.handed /\ payment' = payment
  <2>1. payment[p] \in PaymentRow
    BY <1>1 DEF PaymentsTypeOK
  <2>2. ~Asked(p, n).handed
    BY <1>3, <1>6, <1>7, AskedObject, RefNames
  <2>3. CASE /\ stripe' = [stripe EXCEPT ![p][n] = Handed(p, n)]
             /\ payment' = [payment EXCEPT ![p].rail = "native", ![p].intent = n]
    <3>1. payment'[p].rail = "native" /\ payment'[p].intent = n
      BY <1>1, <2>1, <2>3 DEF PaymentsTypeOK, PaymentRow
    <3> QED
      BY <2>3, <3>1 DEF Puts
  <2> QED
    BY <1>4, <1>6, <2>2, <2>3 DEF Puts
<1> HIDE DEF r
<1>10. /\ PaymentsTypeOK' /\ ObjectsInv' /\ SentInv' /\ PaidInv' /\ SessionsNotStranded'
       /\ \A q \in Payments : Settled(q)' = Settled(q)
       /\ stripe'[p][n] = o
       /\ \A q \in Payments, t \in Refs : q # p \/ t # n => stripe'[q][t] = stripe[q][t]
       /\ \A q \in Payments, t \in Refs :
             stripe[q][t].state = "expired" => stripe'[q][t].state = "expired"
  <2>1. \A q \in Payments : payment'[q].status = payment[q].status
    BY <1>8
  <2>2. n \notin Sessions /\ n \in Refs
    BY RefNames
  <2> QED
    BY <1>2, <1>3, <1>7, <1>8, <1>9, <2>1, <2>2, ObjectAsked
<1>11. RailsInv'
  <2>1. \A t \in Refs : stripe'[p][t].handed =>
           t = n /\ payment'[p].rail = "native" /\ payment'[p].intent = n
    BY <1>7, <1>9, <1>10
  <2> QED
    BY <1>1, <1>8, <1>10, <2>1, RefNames DEF RailsInv
<1>12. ExpiryInv'
  <2>1. \A q \in Payments : payment[q].session \in Refs \cup {None}
    BY <1>1, RefNames DEF PaymentsTypeOK, PaymentRow
  <2> QED
    BY <1>1, <1>8, <1>10, <2>1 DEF ExpiryInv, SessionState
<1>13. AckedInv'
  <2>1. acked' = acked
    BY <1>2 DEF webhooks
  <2>2. \A e \in acked : e \in sent /\ e.payment \in Payments
    BY <1>1 DEF PaymentsTypeOK, Events
  <2> QED
    BY <1>1, <1>8, <1>10, <2>1, <2>2 DEF AckedInv, Tells
<1> QED
  BY <1>10, <1>11, <1>12, <1>13 DEF ChargesInv

-----------------------------------------------------------------------------
\* What a row is told by a webhook keeps the rails apart, the link of no session
\* that can still be paid is lost, and a charge it tells of is settled.
LEMMA WebhookStep ==
    ASSUME ChargesInv, NEW e \in sent, apply_webhook_event(e)
    PROVE  ChargesInv'
<1> DEFINE p == e.payment
           row == payment[p]
           new == payment'[p]
<1>1. /\ PaymentsTypeOK /\ ObjectsInv /\ RailsInv /\ ExpiryInv /\ SentInv
      /\ AckedInv /\ PaidInv /\ SessionsNotStranded
  BY DEF ChargesInv
<1>2. /\ stripe' = stripe /\ sent' = sent /\ credentials' = credentials
      /\ acked' = acked \cup {e}
  BY DEF apply_webhook_event, webhook_ignored, webhook_expired, webhook_paid,
         webhook_after_terminal, Record, serverVars
<1>3. /\ p \in Payments /\ e.ref \in Refs /\ row \in PaymentRow
      /\ payment \in [Payments -> PaymentRow]
      /\ \A d \in sent : d.payment \in Payments /\ d.ref \in Refs
      /\ acked \subseteq sent
  BY <1>1 DEF PaymentsTypeOK, Events
<1>4. /\ e.kind = "expired" => stripe[p][e.ref].state = "expired"
      /\ e.kind \in OfCharge => stripe[p][e.ref].state = "paid" /\ stripe[p][e.ref].handed
  BY <1>1, <1>3 DEF SentInv, ObjectsInv
<1>5. Applies(e) /\ e.kind # "expired" => e.kind \in OfCharge
  BY <1>1 DEF Applies, OfCharge, PaymentsTypeOK, Events, Kinds
<1>6. /\ payment' \in [Payments -> PaymentRow]
      /\ \A q \in Payments \ {p} : payment'[q] = payment[q]
      /\ new.rail = row.rail
      /\ \/ payment' = payment
         \/ /\ e.kind = "expired" /\ row.session = e.ref
            /\ new.session = None /\ new.intent = row.intent /\ new.status = row.status
         \/ /\ e.kind \in OfCharge /\ row.status = "pending"
            /\ new.session = row.session /\ new.expired = row.expired
            /\ new.intent = e.ref /\ new.status = "paid_online"
  <2>1. CASE webhook_ignored(e) \/ webhook_after_terminal(e)
    BY <1>3, <2>1 DEF webhook_ignored, webhook_after_terminal, serverVars
  <2>2. CASE webhook_expired(e)
    <3>1. /\ e.kind = "expired" /\ row.session = e.ref
          /\ payment' = [payment EXCEPT ![p].expired = e.ref, ![p].session = None]
      BY <2>2 DEF webhook_expired, Applies, Matches
    <3>2. e.ref \in Sessions
      BY <1>3, <3>1, RefNames DEF PaymentRow
    <3> QED
      BY <1>3, <3>1, <3>2 DEF PaymentRow
  <2>3. CASE webhook_paid(e)
    <3>1. /\ e.kind \in OfCharge /\ row.status = "pending"
          /\ payment' = [payment EXCEPT ![p].status = "paid_online", ![p].intent = e.ref]
      BY <1>5, <2>3 DEF webhook_paid
    <3> QED
      BY <1>3, <3>1 DEF PaymentRow, Statuses, Terminal
  <2> QED
    BY <2>1, <2>2, <2>3 DEF apply_webhook_event
<1>7. /\ anomalies \subseteq anomalies'
      /\ processed' \subseteq acked' /\ anomalies' \subseteq processed'
  BY <1>1 DEF PaymentsTypeOK, apply_webhook_event, webhook_ignored, webhook_expired,
              webhook_paid, webhook_after_terminal, Record, serverVars
<1>8. \A q \in Payments : Settled(q) => Settled(q)'
  BY <1>6, <1>7 DEF Settled
<1>9. Applies(e) /\ e.kind # "expired" => Settled(p)'
  <2>1. CASE webhook_paid(e)
    BY <1>3, <2>1 DEF webhook_paid, Settled, PaymentRow
  <2>2. CASE webhook_after_terminal(e)
    BY <2>2 DEF webhook_after_terminal, Settled
  <2> QED
    BY <2>1, <2>2 DEF apply_webhook_event, webhook_ignored, webhook_expired
<1>10. PaymentsTypeOK'
  BY <1>1, <1>2, <1>3, <1>6, <1>7 DEF PaymentsTypeOK
<1>11. ObjectsInv'
  BY <1>1, <1>2, <1>3, <1>6 DEF ObjectsInv
<1>12. RailsInv'
  <2>1. \A s \in Sessions : stripe[p][s].handed =>
           /\ new.rail = "checkout"
           /\ new.session = s \/ stripe[p][s].state = "expired"
    BY <1>1, <1>3, <1>4, <1>6 DEF RailsInv
  <2>2. \A t \in Natives : stripe[p][t].handed => new.rail = "native" /\ new.intent = t
    <3> SUFFICES ASSUME NEW t \in Natives, stripe[p][t].handed
                 PROVE  new.rail = "native" /\ new.intent = t
      OBVIOUS
    <3>1. row.rail = "native" /\ row.intent = t
      BY <1>1, <1>3 DEF RailsInv
    <3>2. e.kind \in OfCharge => e.ref = t
      <4>1. e.kind \in OfCharge /\ e.ref \in Sessions => row.rail = "checkout"
        BY <1>1, <1>3, <1>4 DEF RailsInv
      <4>2. e.kind \in OfCharge /\ e.ref \in Natives => row.intent = e.ref
        BY <1>1, <1>3, <1>4 DEF RailsInv
      <4> QED
        BY <1>3, <3>1, <4>1, <4>2, RefNames
    <3> QED
      BY <1>6, <3>1, <3>2
  <2> QED
    BY <1>1, <1>2, <1>6, <2>1, <2>2 DEF RailsInv
<1>13. ExpiryInv'
  BY <1>1, <1>2, <1>3, <1>6 DEF ExpiryInv, SessionState
<1>14. SentInv'
  BY <1>1, <1>2 DEF SentInv, Tells
<1>15. AckedInv'
  <2>1. \A d \in acked :
           /\ d.kind = "expired" => payment'[d.payment].session # d.ref
           /\ Tells(d) => Settled(d.payment)'
    <3>1. None \notin Refs
      BY RefNames
    <3> QED
      BY <1>1, <1>3, <1>6, <1>8, <3>1 DEF AckedInv
  <2>2. e.kind = "expired" => new.session # e.ref
    <3>1. CASE webhook_ignored(e)
      <4>1. e.kind = "expired" => row.session # e.ref \/ e \in acked
        BY <1>1, <3>1 DEF webhook_ignored, Applies, Matches, PaymentsTypeOK
      <4> QED
        BY <1>1, <1>3, <2>1, <3>1, <4>1 DEF webhook_ignored, serverVars
    <3>2. CASE webhook_expired(e)
      BY <1>3, <1>6, <3>2, RefNames DEF webhook_expired, PaymentRow
    <3> QED
      BY <3>1, <3>2 DEF apply_webhook_event, webhook_paid, webhook_after_terminal
  <2>3. Tells(e) => Settled(p)'
    <3>1. Tells(e) => /\ e.kind # "expired"
                      /\ Applies(e) \/ e \in acked
      BY <1>1, TellingMatches DEF Applies, PaymentsTypeOK
    <3> QED
      BY <1>9, <2>1, <3>1
  <2> QED
    BY <1>2, <2>1, <2>2, <2>3 DEF AckedInv, Tells
<1>16. PaidInv'
  <2>1. \A q \in Payments : Collected(q)' = Collected(q)
    BY <1>2 DEF Collected
  <2>2. e.kind \in OfCharge => Collected(p) # {}
    BY <1>3, <1>4 DEF Collected
  <2> QED
    BY <1>1, <1>3, <1>6, <2>1, <2>2 DEF PaidInv
<1>17. SessionsNotStranded'
  <2>1. \A q \in Payments, s \in Sessions : Outstanding(q, s)' => Outstanding(q, s)
    BY <1>2, <1>8 DEF Outstanding
  <2> QED
    BY <1>1, <1>2, <2>1 DEF SessionsNotStranded
<1> QED
  BY <1>10, <1>11, <1>12, <1>13, <1>14, <1>15, <1>16, <1>17 DEF ChargesInv

-----------------------------------------------------------------------------
\* What staff settle closes no session but at Stripe, and records an expiry only
\* of a session that Stripe ended.
LEMMA SettleStep ==
    ASSUME ChargesInv, NEW ps \in SUBSET Payments, NEW target \in ByStaff,
           SettleAll(ps, target)
    PROVE  ChargesInv'
<1>1. /\ PaymentsTypeOK /\ ObjectsInv /\ RailsInv /\ ExpiryInv /\ SentInv
      /\ AckedInv /\ PaidInv /\ SessionsNotStranded
  BY DEF ChargesInv
<1>2. /\ \A p \in ps : payment[p].status = "pending"
      /\ acked' = acked /\ processed' = processed /\ anomalies' = anomalies
      /\ credentials' = credentials
  BY DEF SettleAll
<1>3. PICK reached \in SUBSET {p \in ToExpire(ps) : SessionState(p) = "open"} :
         \E confirmed \in SUBSET
               (reached \cup {p \in ToExpire(ps) : SessionState(p) = "expired"}) :
            /\ stripe' = [p \in Payments |->
                  IF p \in reached
                  THEN [stripe[p] EXCEPT ![payment[p].session].state = "expired"]
                  ELSE stripe[p]]
            /\ sent' = sent \cup UNION {Report(p, payment[p].session, {"expired"}) :
                                          p \in reached}
            /\ payment' = [p \in Payments |->
                  IF p \notin ps THEN payment[p]
                  ELSE [payment[p] EXCEPT !.status = target,
                           !.expired = IF p \in confirmed THEN payment[p].session ELSE @]]
  BY DEF SettleAll
<1>4. PICK confirmed \in SUBSET
               (reached \cup {p \in ToExpire(ps) : SessionState(p) = "expired"}) :
         payment' = [p \in Payments |->
            IF p \notin ps THEN payment[p]
            ELSE [payment[p] EXCEPT !.status = target,
                     !.expired = IF p \in confirmed THEN payment[p].session ELSE @]]
  BY <1>3
<1> DEFINE Ended(p, r) == p \in reached /\ r = payment[p].session
<1>5. \A p \in Payments : payment[p] \in PaymentRow
  BY <1>1 DEF PaymentsTypeOK
<1>6. \A p \in ToExpire(ps) : p \in ps /\ p \in Payments /\ payment[p].session \in Sessions
                             /\ payment[p].expired = None
  BY <1>5 DEF ToExpire, PaymentRow
<1>7. /\ payment' \in [Payments -> PaymentRow]
      /\ \A p \in Payments :
            /\ payment'[p].rail = payment[p].rail
            /\ payment'[p].session = payment[p].session
            /\ payment'[p].intent = payment[p].intent
            /\ payment'[p].status = IF p \in ps THEN target ELSE payment[p].status
            /\ payment'[p].expired = IF p \in confirmed THEN payment[p].session
                                     ELSE payment[p].expired
  <2>1. target \in Statuses
    BY DEF Statuses, Terminal
  <2>2. confirmed \subseteq ps
    BY <1>6
  <2>3. \A p \in Payments :
           payment'[p] = IF p \notin ps THEN payment[p]
                         ELSE [payment[p] EXCEPT !.status = target,
                                 !.expired = IF p \in confirmed THEN payment[p].session ELSE @]
    BY <1>4
  <2>4. \A p \in Payments :
            /\ payment'[p] \in PaymentRow
            /\ payment'[p].rail = payment[p].rail
            /\ payment'[p].session = payment[p].session
            /\ payment'[p].intent = payment[p].intent
            /\ payment'[p].status = IF p \in ps THEN target ELSE payment[p].status
            /\ payment'[p].expired = IF p \in confirmed THEN payment[p].session
                                     ELSE payment[p].expired
    <3> SUFFICES ASSUME NEW p \in Payments
                 PROVE  /\ payment'[p] \in PaymentRow
                        /\ payment'[p].rail = payment[p].rail
                        /\ payment'[p].session = payment[p].session
                        /\ payment'[p].intent = payment[p].intent
                        /\ payment'[p].status = IF p \in ps THEN target ELSE payment[p].status
                        /\ payment'[p].expired = IF p \in confirmed THEN payment[p].session
                                                 ELSE payment[p].expired
      OBVIOUS
    <3>1. payment[p] \in PaymentRow
      BY <1>5
    <3>2. CASE p \notin ps
      BY <2>2, <2>3, <3>1, <3>2
    <3>3. CASE p \in ps /\ p \in confirmed
      <4>1. payment'[p] = [payment[p] EXCEPT !.status = target,
                                             !.expired = payment[p].session]
        BY <2>3, <3>3
      <4> QED
        BY <2>1, <3>1, <3>3, <4>1 DEF PaymentRow
    <3>4. CASE p \in ps /\ p \notin confirmed
      <4>1. payment'[p] = [payment[p] EXCEPT !.status = target,
                                             !.expired = payment[p].expired]
        BY <2>3, <3>4
      <4> QED
        BY <2>1, <3>1, <3>4, <4>1 DEF PaymentRow
    <3> QED
      BY <3>2, <3>3, <3>4
  <2> QED
    BY <1>4, <2>4
<1>8. /\ stripe' \in [Payments -> [Refs -> StripeObject]]
      /\ \A p \in Payments, r \in Refs :
            /\ stripe'[p][r].handed = stripe[p][r].handed
            /\ stripe'[p][r].account = stripe[p][r].account
            /\ stripe'[p][r].state = IF Ended(p, r) THEN "expired" ELSE stripe[p][r].state
            /\ Ended(p, r) => stripe[p][r].state = "open" /\ r \in Sessions
  <2>1. /\ stripe \in [Payments -> [Refs -> StripeObject]]
        /\ \A p \in Payments, r \in Refs : stripe[p][r] \in StripeObject
    BY <1>1 DEF PaymentsTypeOK
  <2>2. \A p \in reached : p \in Payments /\ payment[p].session \in Sessions
                           /\ stripe[p][payment[p].session].state = "open"
    BY <1>6 DEF SessionState
  <2>3. \A p \in Payments : stripe'[p] = IF p \in reached
             THEN [stripe[p] EXCEPT ![payment[p].session].state = "expired"]
             ELSE stripe[p]
    BY <1>3
  <2>4. \A p \in Payments :
           /\ stripe'[p] \in [Refs -> StripeObject]
           /\ \A r \in Refs : stripe'[p][r] =
                 IF Ended(p, r) THEN [stripe[p][r] EXCEPT !.state = "expired"]
                 ELSE stripe[p][r]
    <3> SUFFICES ASSUME NEW p \in Payments
                 PROVE  /\ stripe'[p] \in [Refs -> StripeObject]
                        /\ \A r \in Refs : stripe'[p][r] =
                              IF Ended(p, r) THEN [stripe[p][r] EXCEPT !.state = "expired"]
                              ELSE stripe[p][r]
      OBVIOUS
    <3>1. CASE p \notin reached
      BY <2>1, <2>3, <3>1
    <3>2. CASE p \in reached
      <4> DEFINE s == payment[p].session
      <4>1. s \in Refs /\ stripe[p] \in [Refs -> StripeObject]
        BY <2>1, <2>2, <3>2, RefNames
      <4>2. [stripe[p][s] EXCEPT !.state = "expired"] \in StripeObject
        BY <4>1 DEF StripeObject, ObjectStates
      <4>3. stripe'[p] = [stripe[p] EXCEPT ![s] = [stripe[p][s] EXCEPT !.state = "expired"]]
        BY <2>3, <3>2, <4>1
      <4> QED
        BY <3>2, <4>1, <4>2, <4>3
    <3> QED
      BY <3>1, <3>2
  <2>5. stripe' \in [Payments -> [Refs -> StripeObject]]
    BY <1>3, <2>4
  <2>6. \A p \in Payments, r \in Refs :
            /\ stripe'[p][r].handed = stripe[p][r].handed
            /\ stripe'[p][r].account = stripe[p][r].account
            /\ stripe'[p][r].state = IF Ended(p, r) THEN "expired" ELSE stripe[p][r].state
    <3> SUFFICES ASSUME NEW p \in Payments, NEW r \in Refs
                 PROVE  /\ stripe'[p][r].handed = stripe[p][r].handed
                        /\ stripe'[p][r].account = stripe[p][r].account
                        /\ stripe'[p][r].state = IF Ended(p, r) THEN "expired"
                                                 ELSE stripe[p][r].state
      OBVIOUS
    <3>1. stripe[p][r] \in StripeObject
      BY <2>1
    <3>2. CASE Ended(p, r)
      <4>1. stripe'[p][r] = [stripe[p][r] EXCEPT !.state = "expired"]
        BY <2>4, <3>2
      <4> QED
        BY <3>1, <3>2, <4>1 DEF StripeObject
    <3>3. CASE ~Ended(p, r)
      <4>1. stripe'[p][r] = stripe[p][r]
        BY <2>4, <3>3
      <4> QED
        BY <3>3, <4>1
    <3> QED
      BY <3>2, <3>3
  <2> QED
    BY <2>2, <2>5, <2>6
<1>9. /\ \A e \in sent' : e \in sent \/ /\ Ended(e.payment, e.ref) /\ e.kind = "expired"
                                        /\ e.account = stripe[e.payment][e.ref].account
      /\ sent \subseteq sent'
      /\ \A p \in Payments, r \in Refs : Ended(p, r) =>
            [payment |-> p, ref |-> r, kind |-> "expired",
             account |-> stripe[p][r].account] \in sent'
  <2> DEFINE told(p) == [payment |-> p, ref |-> payment[p].session, kind |-> "expired",
                         account |-> stripe[p][payment[p].session].account]
  <2>1. \A p \in reached : Report(p, payment[p].session, {"expired"}) = {told(p)}
    BY DEF Report
  <2>2. sent' = sent \cup {told(p) : p \in reached}
    <3>1. sent' = sent \cup UNION {Report(p, payment[p].session, {"expired"}) : p \in reached}
      BY <1>3
    <3> HIDE DEF told
    <3> QED
      BY <2>1, <3>1
  <2>3. \A e \in sent' : e \in sent \/ \E p \in reached : e = told(p)
    BY <2>2
  <2>4. \A p \in Payments, r \in Refs : Ended(p, r) =>
            [payment |-> p, ref |-> r, kind |-> "expired",
             account |-> stripe[p][r].account] \in sent'
    BY <2>2
  <2> QED
    BY <2>2, <2>3, <2>4
<1> HIDE DEF Ended
<1>10. PaymentsTypeOK'
  <2>1. \A p \in Payments, r \in Refs : Ended(p, r) =>
           stripe[p][r].account \in Accounts
    BY <1>1, <1>8 DEF ObjectsInv
  <2>2. sent' \subseteq Events
    <3>1. \A p \in reached : p \in Payments /\ payment[p].session \in Refs
      BY <1>6, RefNames
    <3>2. sent' = sent \cup UNION {Report(p, payment[p].session, {"expired"}) :
                                     p \in reached}
      BY <1>3
    <3>3. \A p \in reached : Report(p, payment[p].session, {"expired"}) \subseteq Events
      BY <2>1, <3>1 DEF Report, Events, Kinds, Ended
    <3> QED
      BY <1>1, <3>2, <3>3 DEF PaymentsTypeOK
  <2> QED
    BY <1>1, <1>2, <1>7, <1>8, <1>9, <2>2 DEF PaymentsTypeOK
<1>11. \A q \in Payments : Settled(q) => Settled(q)'
  BY <1>2, <1>7 DEF Settled
<1>12. ObjectsInv'
  <2>1. target # "absent"
    BY DEF ByStaff
  <2> QED
    BY <1>1, <1>7, <1>8, <2>1 DEF ObjectsInv
<1>13. RailsInv'
  <2>1. \A p \in Payments, r \in Refs :
           stripe[p][r].state = "expired" => stripe'[p][r].state = "expired"
    BY <1>8
  <2>2. \A p \in Payments, s \in Sessions : stripe'[p][s].handed =>
           /\ payment'[p].rail = "checkout"
           /\ payment'[p].session = s \/ stripe'[p][s].state = "expired"
    BY <1>1, <1>7, <1>8, <2>1, RefNames DEF RailsInv
  <2>3. \A p \in Payments, r \in Natives : stripe'[p][r].handed =>
           payment'[p].rail = "native" /\ payment'[p].intent = r
    BY <1>1, <1>7, <1>8, RefNames DEF RailsInv
  <2> QED
    BY <2>2, <2>3 DEF RailsInv
<1>14. ExpiryInv'
  <2> SUFFICES ASSUME NEW p \in Payments, payment'[p].session # None,
                      payment'[p].expired # None
               PROVE  stripe'[p][payment[p].session].state = "expired"
    BY <1>7 DEF ExpiryInv, SessionState
  <2>1. payment[p].session \in Refs
    BY <1>5, <1>7, RefNames DEF PaymentRow
  <2>2. CASE p \in confirmed
    <3>1. p \in reached \/ SessionState(p) = "expired"
      BY <2>2
    <3> QED
      BY <1>8, <2>1, <3>1 DEF SessionState, Ended
  <2>3. CASE p \notin confirmed
    BY <1>1, <1>7, <1>8, <2>1, <2>3 DEF ExpiryInv, SessionState
  <2> QED
    BY <2>2, <2>3
<1>15. SentInv'
  <2>1. \A e \in sent : e.payment \in Payments /\ e.ref \in Refs
    BY <1>1 DEF PaymentsTypeOK, Events
  <2>2. \A e \in sent' :
           /\ e.kind \in OfCharge => stripe'[e.payment][e.ref].state = "paid"
           /\ e.kind = "expired" => stripe'[e.payment][e.ref].state = "expired"
    <3>1. \A e \in sent : /\ e.kind \in OfCharge => stripe'[e.payment][e.ref].state = "paid"
                          /\ e.kind = "expired" => stripe'[e.payment][e.ref].state = "expired"
      BY <1>1, <1>8, <2>1 DEF SentInv
    <3>2. \A e : Ended(e.payment, e.ref) => e.payment \in Payments /\ e.ref \in Refs
      BY <1>6, RefNames DEF Ended
    <3>3. "expired" \notin OfCharge
      BY DEF OfCharge
    <3> QED
      BY <1>8, <1>9, <3>1, <3>2, <3>3
  <2>3. \A p \in Payments, r \in Refs :
           stripe'[p][r].state = "paid" =>
              \E e \in sent' : e.payment = p /\ e.ref = r /\ Tells(e)
    BY <1>1, <1>8, <1>9 DEF SentInv
  <2>4. \A p \in Payments, r \in Refs :
           stripe'[p][r].state = "expired" =>
              \E e \in sent' : e.payment = p /\ e.ref = r /\ e.kind = "expired"
    <3>1. \A p \in Payments, r \in Refs : Ended(p, r) =>
              \E e \in sent' : e.payment = p /\ e.ref = r /\ e.kind = "expired"
      <4> SUFFICES ASSUME NEW p \in Payments, NEW r \in Refs, Ended(p, r)
                   PROVE  \E e \in sent' : e.payment = p /\ e.ref = r /\ e.kind = "expired"
        OBVIOUS
      <4> DEFINE e == [payment |-> p, ref |-> r, kind |-> "expired",
                       account |-> stripe[p][r].account]
      <4>1. e \in sent'
        BY <1>9
      <4> QED
        BY <4>1
    <3> QED
      BY <1>1, <1>8, <1>9, <3>1 DEF SentInv
  <2> QED
    BY <2>2, <2>3, <2>4 DEF SentInv, Tells
<1>16. AckedInv'
  <2>1. \A e \in acked : e.payment \in Payments
    BY <1>1 DEF PaymentsTypeOK, Events
  <2> QED
    BY <1>1, <1>2, <1>7, <1>11, <2>1 DEF AckedInv, Tells
<1>17. PaidInv'
  <2>1. \A q \in Payments : Collected(q) \subseteq Collected(q)'
    BY <1>8 DEF Collected
  <2>2. target # "paid_online"
    BY DEF ByStaff
  <2> QED
    BY <1>1, <1>7, <2>1, <2>2 DEF PaidInv
<1>18. SessionsNotStranded'
  <2>1. \A q \in Payments, s \in Sessions : Outstanding(q, s)' => Outstanding(q, s)
    BY <1>8, <1>11, RefNames DEF Outstanding
  <2> QED
    BY <1>1, <1>2, <1>8, <2>1, RefNames DEF SessionsNotStranded
<1> QED
  BY <1>10, <1>12, <1>13, <1>14, <1>15, <1>16, <1>17, <1>18 DEF ChargesInv

\* A session that a member could still pay is the row's and its expiry is not
\* recorded, so its payment is among those the change of credentials asks about.
LEMMA CredentialsStep ==
    ASSUME ChargesInv, NEW account \in 0..MaxAccounts, update_payment_settings(account)
    PROVE  ChargesInv'
<1>1. /\ PaymentsTypeOK /\ ObjectsInv /\ RailsInv /\ ExpiryInv /\ SentInv
      /\ AckedInv /\ PaidInv /\ SessionsNotStranded
  BY DEF ChargesInv
<1>2. /\ \A p \in PotentiallyLive : Closed(p)
      /\ credentials' = account
      /\ payment' = [p \in Payments |->
            IF p \in PotentiallyLive
            THEN [payment[p] EXCEPT !.expired = payment[p].session, !.session = None]
            ELSE payment[p]]
      /\ stripe' = stripe /\ sent' = sent /\ acked' = acked
      /\ processed' = processed /\ anomalies' = anomalies
  BY DEF update_payment_settings, webhooks
<1>3. \A p \in PotentiallyLive : /\ p \in Payments /\ payment[p].session \in Sessions
                                 /\ stripe[p][payment[p].session].state = "expired"
  BY <1>1, <1>2 DEF PotentiallyLive, Closed, SessionState, PaymentsTypeOK, PaymentRow
<1>4. /\ payment' \in [Payments -> PaymentRow]
      /\ \A p \in Payments :
            /\ payment'[p].rail = payment[p].rail
            /\ payment'[p].intent = payment[p].intent
            /\ payment'[p].status = payment[p].status
            /\ IF p \in PotentiallyLive THEN payment'[p].session = None
               ELSE payment'[p] = payment[p]
  <2>1. \A p \in Payments :
           /\ payment'[p] \in PaymentRow
           /\ payment'[p].rail = payment[p].rail
           /\ payment'[p].intent = payment[p].intent
           /\ payment'[p].status = payment[p].status
           /\ IF p \in PotentiallyLive THEN payment'[p].session = None
              ELSE payment'[p] = payment[p]
    <3> SUFFICES ASSUME NEW p \in Payments
                 PROVE  /\ payment'[p] \in PaymentRow
                        /\ payment'[p].rail = payment[p].rail
                        /\ payment'[p].intent = payment[p].intent
                        /\ payment'[p].status = payment[p].status
                        /\ IF p \in PotentiallyLive THEN payment'[p].session = None
                           ELSE payment'[p] = payment[p]
      OBVIOUS
    <3>1. payment[p] \in PaymentRow
      BY <1>1 DEF PaymentsTypeOK
    <3>2. CASE p \in PotentiallyLive
      <4>1. payment'[p] = [payment[p] EXCEPT !.expired = payment[p].session,
                                             !.session = None]
        BY <1>2, <3>2
      <4> QED
        BY <1>3, <3>1, <3>2, <4>1 DEF PaymentRow
    <3>3. CASE p \notin PotentiallyLive
      BY <1>2, <3>1, <3>3
    <3> QED
      BY <3>2, <3>3
  <2> QED
    BY <1>2, <2>1
<1>5. \A q \in Payments : Settled(q)' = Settled(q) /\ Collected(q)' = Collected(q)
  BY <1>2, <1>4 DEF Settled, Collected
<1>6. PaymentsTypeOK'
  BY <1>1, <1>2, <1>4 DEF PaymentsTypeOK
<1>7. ObjectsInv'
  BY <1>1, <1>2, <1>4 DEF ObjectsInv
<1>8. RailsInv'
  <2>1. \A p \in Payments, s \in Sessions : stripe[p][s].handed =>
           /\ payment'[p].rail = "checkout"
           /\ payment'[p].session = s \/ stripe[p][s].state = "expired"
    BY <1>1, <1>3, <1>4 DEF RailsInv
  <2>2. \A p \in Payments, r \in Natives : stripe[p][r].handed =>
           payment'[p].rail = "native" /\ payment'[p].intent = r
    BY <1>1, <1>4 DEF RailsInv
  <2> QED
    BY <1>2, <2>1, <2>2 DEF RailsInv
<1>9. ExpiryInv'
  <2>1. \A p \in Payments : payment'[p].session # None => payment'[p] = payment[p]
    BY <1>4
  <2> QED
    BY <1>1, <1>2, <2>1 DEF ExpiryInv, SessionState
<1>10. SentInv'
  <2>1. stripe' = stripe /\ sent' = sent
    BY <1>2
  <2> QED
    BY <1>1, <2>1 DEF SentInv, Tells
<1>11. AckedInv'
  <2>1. \A e \in acked : e.payment \in Payments /\ e.ref \in Refs
    BY <1>1 DEF PaymentsTypeOK, Events
  <2> QED
    <3>1. \A e \in acked : e.kind = "expired" => payment'[e.payment].session # e.ref
      BY <1>1, <1>4, <2>1, RefNames DEF AckedInv
    <3>2. \A e \in acked : Tells(e) => Settled(e.payment)'
      BY <1>1, <1>5, <2>1 DEF AckedInv
    <3> QED
      BY <1>2, <3>1, <3>2 DEF AckedInv, Tells
<1>12. PaidInv'
  BY <1>1, <1>4, <1>5 DEF PaidInv
<1>13. SessionsNotStranded'
  <2>1. \A p \in Payments, s \in Sessions : ~Outstanding(p, s)
    <3> SUFFICES ASSUME NEW p \in Payments, NEW s \in Sessions, Outstanding(p, s)
                 PROVE  FALSE
      OBVIOUS
    <3>1. /\ stripe[p][s].handed /\ stripe[p][s].state # "expired" /\ s \in Refs
          /\ s # None
      BY RefNames DEF Outstanding
    <3>2. payment[p].session = s /\ payment[p].rail = "checkout"
      BY <1>1, <3>1 DEF RailsInv
    <3>3. payment[p].expired = None
      BY <1>1, <3>1, <3>2 DEF ExpiryInv, SessionState
    <3>4. payment[p].status # "paid_online"
      <4> SUFFICES ASSUME payment[p].status = "paid_online"
                   PROVE  FALSE
        OBVIOUS
      <4>1. PICK x \in Collected(p) : TRUE
        BY <1>1 DEF PaidInv
      <4>2. x \in Refs /\ stripe[p][x].state = "paid" /\ stripe[p][x].handed
        BY <1>1, <4>1 DEF Collected, ObjectsInv
      <4>3. x \in Sessions
        BY <1>1, <3>2, <4>2, RefNames DEF RailsInv
      <4>4. x = s
        BY <1>1, <3>2, <4>2, <4>3 DEF RailsInv
      <4> QED
        BY <4>2, <4>4 DEF Outstanding, Settled
    <3>5. p \in PotentiallyLive
      BY <3>1, <3>2, <3>3, <3>4 DEF PotentiallyLive
    <3> QED
      BY <1>3, <3>1, <3>2, <3>5
  <2>2. \A p \in Payments, s \in Sessions : Outstanding(p, s)' => Outstanding(p, s)
    BY <1>2, <1>5 DEF Outstanding
  <2> QED
    BY <2>1, <2>2 DEF SessionsNotStranded
<1> QED
  BY <1>6, <1>7, <1>8, <1>9, <1>10, <1>11, <1>12, <1>13 DEF ChargesInv

-----------------------------------------------------------------------------
LEMMA ChargesStay ==
    ASSUME ChargesInv, UNCHANGED vars
    PROVE  ChargesInv'
<1>1. /\ PaymentsTypeOK /\ ObjectsInv /\ RailsInv /\ ExpiryInv /\ SentInv
      /\ AckedInv /\ PaidInv /\ SessionsNotStranded
  BY DEF ChargesInv
<1>2. PaymentsTypeOK' /\ ObjectsInv' /\ RailsInv' /\ ExpiryInv'
  BY <1>1 DEF vars, PaymentsTypeOK, ObjectsInv, RailsInv, ExpiryInv, SessionState
<1>3. SentInv' /\ AckedInv'
  BY <1>1 DEF vars, SentInv, AckedInv, Tells, Settled
<1>4. PaidInv' /\ SessionsNotStranded'
  BY <1>1 DEF vars, PaidInv, Collected, SessionsNotStranded, Outstanding, Settled
<1> QED
  BY <1>2, <1>3, <1>4 DEF ChargesInv

LEMMA ChargesKept == ChargesInv /\ [Next]_vars => ChargesInv'
<1> SUFFICES ASSUME ChargesInv, [Next]_vars PROVE ChargesInv'
  OBVIOUS
<1>1. CASE StripeSteps
  BY <1>1, StripeStep DEF StripeSteps
<1>2. CASE ServerSteps
  <2>1. ASSUME NEW p \in Payments, create_payment(p) PROVE ChargesInv'
    BY <2>1, CreateStep
  <2>2. ASSUME NEW p \in Payments, create_checkout_url(p) \/ create_checkout_url_lost(p)
        PROVE  ChargesInv'
    BY <2>2, CheckoutStep
  <2>3. ASSUME NEW p \in Payments, create_mobile_intent(p) \/ create_mobile_intent_lost(p)
        PROVE  ChargesInv'
    BY <2>3, IntentStep
  <2>4. ASSUME NEW p \in Payments, cancel_pending(p) PROVE ChargesInv'
    BY <2>4, SettleStep DEF cancel_pending, ByStaff
  <2>5. ASSUME NEW ps \in SUBSET Payments, NEW target \in {"paid_offline", "waived"},
               reconcile_payments(ps, target)
        PROVE  ChargesInv'
    BY <2>5, SettleStep DEF reconcile_payments, ByStaff
  <2>6. ASSUME NEW e \in sent, apply_webhook_event(e) PROVE ChargesInv'
    BY <2>6, WebhookStep
  <2>7. ASSUME NEW account \in 0..MaxAccounts, update_payment_settings(account)
        PROVE  ChargesInv'
    BY <2>7, CredentialsStep
  <2> QED
    BY <1>2, <2>1, <2>2, <2>3, <2>4, <2>5, <2>6, <2>7 DEF ServerSteps
<1>3. CASE UNCHANGED vars
  BY <1>3, ChargesStay
<1> QED
  BY <1>1, <1>2, <1>3 DEF Next

\* What Stripe holds, what was sent and answered, and what the payment row
\* knows agree at every step of every call (payments/services.py and
\* services_webhooks.py).
THEOREM ChargesInvariant == Spec => []ChargesInv
<1> QED
  BY ChargesStart, ChargesKept, PTL DEF Spec

\* Every row, object at Stripe and webhook is one the code and Stripe can make
\* (payments/models.py, payments/stripe_client.py), webhooks are answered only when they
\* were sent, and recorded, or noted, only when they are answered.
THEOREM PaymentsTypeCorrect == Spec => []PaymentsTypeOK
<1>1. ChargesInv => PaymentsTypeOK
  BY DEF ChargesInv
<1> QED
  BY <1>1, ChargesInvariant, PTL

\* Whatever sessions expire, transactions die after Stripe answered, rails are
\* tried in turn and credentials change, one payment is collected at most once
\* (create_checkout_url, create_mobile_intent).
THEOREM NoDoubleCharge == Spec => []ChargedOnce
<1>1. ChargesInv => ChargedOnce
  <2> SUFFICES ASSUME ChargesInv, NEW p \in Payments
               PROVE  Cardinality(Collected(p)) <= 1
    BY DEF ChargedOnce
  <2>1. CASE Collected(p) = {}
    BY <2>1, FS_EmptySet
  <2>2. CASE Collected(p) # {}
    <3>1. PICK x \in Collected(p) : TRUE
      BY <2>2
    <3>2. Collected(p) = {x}
      BY <3>1, OneCollected DEF ChargesInv
    <3>3. Cardinality({x}) = 1
      BY FS_Singleton
    <3> QED
      BY <3>2, <3>3
  <2> QED
    BY <2>1, <2>2
<1> QED
  BY <1>1, ChargesInvariant, PTL

\* Collected money is booked or noted, or a webhook that tells of it is still to
\* be answered (_apply_checkout_paid, _record_paid_after_terminal, _record_once).
THEOREM CollectedIsKnown == Spec => []ChargeNotLost
<1>1. ChargesInv => ChargeNotLost
  BY DEF ChargesInv, ChargeNotLost, SentInv, AckedInv, Collected
<1> QED
  BY <1>1, ChargesInvariant, PTL

\* The webhook that takes an expired link off a pending payment is still to come
\* (checkout.session.expired).
THEOREM DeadLinksGo == Spec => []DeadLinkHeals
<1>1. ChargesInv => DeadLinkHeals
  <2> SUFFICES ASSUME ChargesInv, NEW p \in Payments, payment[p].session # None,
                      SessionState(p) = "expired"
               PROVE  \E e \in sent \ acked : /\ e.payment = p /\ e.kind = "expired"
                                              /\ e.ref = payment[p].session
    BY DEF DeadLinkHeals
  <2>1. payment[p].session \in Refs
    BY RefNames DEF ChargesInv, PaymentsTypeOK, PaymentRow
  <2>2. PICK e \in sent : /\ e.payment = p /\ e.kind = "expired"
                          /\ e.ref = payment[p].session
    BY <2>1 DEF ChargesInv, SentInv, SessionState
  <2>3. e \notin acked
    BY <2>2 DEF ChargesInv, AckedInv
  <2> QED
    BY <2>2, <2>3
<1> QED
  BY <1>1, ChargesInvariant, PTL

\* A change of credentials leaves no session behind that a member could still
\* pay (update_payment_settings asks Stripe about every one it does not know to
\* be over, and paid_online is the only status it takes for that).
THEOREM NoneStranded == Spec => []SessionsNotStranded
<1>1. ChargesInv => SessionsNotStranded
  BY DEF ChargesInv
<1> QED
  BY <1>1, ChargesInvariant, PTL

-----------------------------------------------------------------------------
\* Settlement, read off the rows and Stripe's objects.
Status == [p \in Payments |-> payment[p].status]
Charged == {p \in Payments : Collected(p) # {}}
Noted == {e.payment : e \in anomalies}

Unseen == Status' = Status /\ Charged' = Charged /\ Noted' = Noted

LEMMA UnseenStutters == Unseen => UNCHANGED Abstract!vars
BY DEF Unseen, Status, Charged, Noted, Abstract!vars

\* Rows with the same statuses, objects with the same state.
LEMMA SameRows ==
    ASSUME \A p \in Payments : payment'[p].status = payment[p].status
    PROVE  Status' = Status
BY DEF Status

LEMMA SameCollected ==
    ASSUME \A p \in Payments : Collected(p)' = Collected(p)
    PROVE  Charged' = Charged
BY DEF Charged

LEMMA SameNotes == anomalies' = anomalies => Noted' = Noted
BY DEF Noted

LEMMA StripeSettles ==
    ASSUME ChargesInv, NEW p \in Payments, NEW r \in Refs,
           member_pays(p, r) \/ bank_answers(p, r) \/ session_expires(p, r)
    PROVE  Abstract!Charge(p) \/ Unseen
<1>1. PICK from \in {"open", "processing"}, to \in ObjectStates \ {"absent"} :
         \E kinds : Becomes(p, r, from, to, kinds)
  BY DEF member_pays, bank_answers, session_expires, ObjectStates
<1>2. /\ stripe[p][r].state = from /\ stripe' = [stripe EXCEPT ![p][r].state = to]
      /\ payment' = payment /\ anomalies' = anomalies
  BY <1>1 DEF Becomes, serverVars
<1>3. /\ stripe \in [Payments -> [Refs -> StripeObject]] /\ stripe[p][r] \in StripeObject
      /\ payment[p].status # "absent"
  BY <1>2 DEF ChargesInv, PaymentsTypeOK, ObjectsInv
<1>4. \A q \in Payments, t \in Refs :
         stripe'[q][t].state = IF q = p /\ t = r THEN to ELSE stripe[q][t].state
  BY <1>2, <1>3 DEF StripeObject
<1>5. \A q \in Payments \ {p} : Collected(q)' = Collected(q)
  BY <1>4 DEF Collected
<1>6. Status' = Status /\ Noted' = Noted
  BY <1>2 DEF Status, Noted
<1>7. CASE to = "paid"
  <2>1. r \in Collected(p)'
    BY <1>4, <1>7 DEF Collected
  <2>2. Charged' = Charged \cup {p}
    BY <1>5, <2>1 DEF Charged
  <2>3. Status[p] # "absent"
    BY <1>3 DEF Status
  <2> QED
    BY <1>6, <2>2, <2>3 DEF Abstract!Charge, Status, Charged, Noted
<1>8. CASE to # "paid"
  <2>1. Collected(p)' = Collected(p)
    BY <1>2, <1>4, <1>8 DEF Collected
  <2> QED
    BY <1>5, <1>6, <2>1, SameCollected DEF Unseen
<1> QED
  BY <1>7, <1>8

LEMMA AskingSettles ==
    ASSUME ChargesInv, NEW p \in Payments,
           \/ create_checkout_url(p) \/ create_checkout_url_lost(p)
           \/ create_mobile_intent(p) \/ create_mobile_intent_lost(p)
    PROVE  Unseen
<1>1. PICK r \in Refs : Puts(p, r, Asked(p, r)) \/ Puts(p, r, Handed(p, r))
  <2>1. credentials # 0 =>
           <<"native", credentials>> \in Refs /\ AnsweredWith(p) \subseteq Refs
    <3>1. credentials # 0 => credentials \in Accounts
      BY PaymentsAssumption DEF ChargesInv, PaymentsTypeOK, Accounts, PaymentsAssumption
    <3> QED
      BY <3>1, RefNames DEF AnsweredWith, Remembered, FirstUnused
  <2> QED
    BY <2>1 DEF create_checkout_url, create_checkout_url_lost, create_mobile_intent,
       create_mobile_intent_lost, CanCheckout, CanUseIntent, Puts
<1>2. credentials # 0 /\ payment[p].status = "pending" /\ anomalies' = anomalies
  BY DEF create_checkout_url, create_checkout_url_lost, create_mobile_intent,
     create_mobile_intent_lost, CanCheckout, CanUseIntent, webhooks
<1>3. \A q \in Payments : payment'[q].status = payment[q].status
  <2>1. payment \in [Payments -> PaymentRow] /\ payment[p] \in PaymentRow
    BY DEF ChargesInv, PaymentsTypeOK
  <2>2. \/ payment' = payment
        \/ \E s : payment' = [payment EXCEPT ![p].session = s, ![p].expired = None,
                                             ![p].rail = "checkout"]
        \/ \E n : payment' = [payment EXCEPT ![p].rail = "native", ![p].intent = n]
    BY DEF create_checkout_url, create_checkout_url_lost, create_mobile_intent,
           create_mobile_intent_lost
  <2>3. payment'[p].status = payment[p].status
    <3>1. ASSUME NEW s, payment' = [payment EXCEPT ![p].session = s, ![p].expired = None,
                                                   ![p].rail = "checkout"]
          PROVE  payment'[p].status = payment[p].status
      BY <2>1, <3>1 DEF PaymentRow
    <3>2. ASSUME NEW n, payment' = [payment EXCEPT ![p].rail = "native", ![p].intent = n]
          PROVE  payment'[p].status = payment[p].status
      BY <2>1, <3>2 DEF PaymentRow
    <3> QED
      BY <2>2, <3>1, <3>2
  <2> QED
    BY <2>1, <2>2, <2>3
<1>4. /\ stripe \in [Payments -> [Refs -> StripeObject]]
      /\ Asked(p, r).state = "paid" <=> stripe[p][r].state = "paid"
      /\ Handed(p, r).state = "paid" <=> stripe[p][r].state = "paid"
  BY <1>2, AskedObject DEF ChargesInv, PaymentsTypeOK
<1>5. \A q \in Payments, t \in Refs :
         (stripe'[q][t].state = "paid") = (stripe[q][t].state = "paid")
  BY <1>1, <1>4 DEF Puts
<1>6. \A q \in Payments : Collected(q)' = Collected(q)
  BY <1>5 DEF Collected
<1> QED
  BY <1>2, <1>3, <1>6, SameRows, SameCollected, SameNotes DEF Unseen

LEMMA WebhookSettles ==
    ASSUME ChargesInv, NEW e \in sent, apply_webhook_event(e)
    PROVE  \/ Abstract!PayOnline(e.payment) \/ Abstract!Note(e.payment)
           \/ Unseen
<1> DEFINE p == e.payment
<1>1. /\ payment \in [Payments -> PaymentRow] /\ p \in Payments /\ e.ref \in Refs
      /\ payment[p] \in PaymentRow /\ e.kind \in Kinds
  BY DEF ChargesInv, PaymentsTypeOK, Events
<1>2. stripe' = stripe
  BY DEF apply_webhook_event, webhook_ignored, webhook_expired, webhook_paid,
         webhook_after_terminal
<1>3. \A q \in Payments : Collected(q)' = Collected(q)
  BY <1>2 DEF Collected
<1>4. Charged' = Charged
  BY <1>3, SameCollected
<1>5. Applies(e) /\ e.kind # "expired" => p \in Charged /\ payment[p].status # "absent"
  <2>1. Applies(e) /\ e.kind # "expired" => e.kind \in OfCharge
    BY <1>1 DEF Applies, OfCharge, Kinds
  <2>2. e.kind \in OfCharge => stripe[p][e.ref].state = "paid"
    BY DEF ChargesInv, SentInv
  <2> QED
    BY <1>1, <2>1, <2>2 DEF Charged, Collected, ChargesInv, ObjectsInv
<1>6. CASE webhook_ignored(e)
  BY <1>4, <1>6, SameRows, SameNotes DEF webhook_ignored, serverVars, Unseen
<1>7. CASE webhook_expired(e)
  <2>1. \A q \in Payments : payment'[q].status = payment[q].status
    BY <1>1, <1>7 DEF webhook_expired, PaymentRow
  <2>2. anomalies' = anomalies
    BY <1>7 DEF webhook_expired
  <2> QED
    BY <1>4, <2>1, <2>2, SameRows, SameNotes DEF Unseen
<1>8. CASE webhook_paid(e)
  <2>1. /\ p \in Charged /\ payment[p].status = "pending" /\ anomalies' = anomalies
        /\ payment' = [payment EXCEPT ![p].status = "paid_online", ![p].intent = e.ref]
    BY <1>5, <1>8 DEF webhook_paid
  <2>2. \A q \in Payments : payment'[q].status =
                              IF q = p THEN "paid_online" ELSE payment[q].status
    BY <1>1, <2>1 DEF PaymentRow
  <2>3. Status' = [Status EXCEPT ![p] = "paid_online"] /\ Status[p] = "pending"
    BY <1>1, <2>1, <2>2 DEF Status
  <2> QED
    BY <1>4, <2>1, <2>3, SameNotes DEF Abstract!PayOnline, Status, Charged, Noted
<1>9. CASE webhook_after_terminal(e)
  <2>1. /\ p \in Charged /\ payment[p].status \notin {"absent", "pending"}
        /\ payment' = payment /\ anomalies' = anomalies \cup {e}
    BY <1>5, <1>9 DEF webhook_after_terminal
  <2>2. Status' = Status /\ Status[p] \in Terminal
    BY <1>1, <2>1 DEF Status, PaymentRow, Statuses
  <2>3. Noted' = Noted \cup {p}
    BY <2>1 DEF Noted
  <2>4. Abstract!Terminal = Terminal
    BY DEF Abstract!Terminal, Abstract!ByStaff, Terminal, ByStaff
  <2> QED
    BY <1>4, <2>1, <2>2, <2>3, <2>4 DEF Abstract!Note, Status, Charged, Noted
<1> QED
  BY <1>6, <1>7, <1>8, <1>9 DEF apply_webhook_event

LEMMA StaffSettle ==
    ASSUME ChargesInv, NEW ps \in SUBSET Payments, NEW target \in ByStaff,
           SettleAll(ps, target)
    PROVE  Abstract!Settle(ps, target)
<1>1. /\ \A p \in ps : payment[p].status = "pending"
      /\ anomalies' = anomalies
  BY DEF SettleAll
<1>2. PICK reached \in SUBSET {p \in ToExpire(ps) : SessionState(p) = "open"} :
         /\ stripe' = [p \in Payments |->
               IF p \in reached
               THEN [stripe[p] EXCEPT ![payment[p].session].state = "expired"]
               ELSE stripe[p]]
         /\ \E confirmed : payment' = [p \in Payments |->
               IF p \notin ps THEN payment[p]
               ELSE [payment[p] EXCEPT !.status = target,
                        !.expired = IF p \in confirmed THEN payment[p].session ELSE @]]
  BY DEF SettleAll
<1>3. \A p \in Payments : /\ payment[p] \in PaymentRow
                          /\ stripe[p] \in [Refs -> StripeObject]
  BY DEF ChargesInv, PaymentsTypeOK
<1>4. \A p \in Payments :
         payment'[p].status = IF p \in ps THEN target ELSE payment[p].status
  <2> SUFFICES ASSUME NEW p \in Payments
               PROVE  payment'[p].status = IF p \in ps THEN target ELSE payment[p].status
    OBVIOUS
  <2>1. PICK confirmed :
           payment'[p] = IF p \notin ps THEN payment[p]
                      ELSE [payment[p] EXCEPT !.status = target,
                               !.expired = IF p \in confirmed THEN payment[p].session ELSE @]
    BY <1>2
  <2> QED
    BY <1>3, <2>1 DEF PaymentRow
<1>5. \A p \in Payments, r \in Refs :
         (stripe'[p][r].state = "paid") = (stripe[p][r].state = "paid")
  <2> SUFFICES ASSUME NEW p \in Payments, NEW r \in Refs
               PROVE  (stripe'[p][r].state = "paid") = (stripe[p][r].state = "paid")
    OBVIOUS
  <2>1. CASE p \notin reached
    BY <1>2, <2>1
  <2>2. CASE p \in reached
    <3>1. /\ stripe'[p] = [stripe[p] EXCEPT ![payment[p].session].state = "expired"]
          /\ stripe[p][payment[p].session].state = "open"
      BY <1>2, <2>2 DEF SessionState
    <3>2. stripe[p] \in [Refs -> StripeObject] /\ stripe[p][r] \in StripeObject
      BY <1>3
    <3>3. CASE r = payment[p].session
      BY <3>1, <3>2, <3>3 DEF StripeObject
    <3>4. CASE r # payment[p].session
      BY <3>1, <3>2, <3>4
    <3> QED
      BY <3>3, <3>4
  <2> QED
    BY <2>1, <2>2
<1>6. \A p \in Payments : Collected(p)' = Collected(p)
  BY <1>5 DEF Collected
<1>7. Charged' = Charged /\ Noted' = Noted
  BY <1>1, <1>6, SameCollected, SameNotes
<1>8. /\ \A p \in ps : Status[p] = "pending"
      /\ Status' = [p \in Payments |-> IF p \in ps THEN target ELSE Status[p]]
  BY <1>1, <1>4 DEF Status
<1> QED
  BY <1>7, <1>8 DEF Abstract!Settle, Status, Charged, Noted

LEMMA CreateSettles ==
    ASSUME ChargesInv, NEW p \in Payments, create_payment(p)
    PROVE  Abstract!Open(p)
<1>1. /\ payment[p].status = "absent"
      /\ payment' = [payment EXCEPT ![p].status = "pending"]
      /\ stripe' = stripe /\ anomalies' = anomalies
  BY DEF create_payment, webhooks
<1>2. payment \in [Payments -> PaymentRow] /\ payment[p] \in PaymentRow
  BY DEF ChargesInv, PaymentsTypeOK
<1>3. \A q \in Payments : payment'[q].status =
                            IF q = p THEN "pending" ELSE payment[q].status
  BY <1>1, <1>2 DEF PaymentRow
<1>4. Status' = [Status EXCEPT ![p] = "pending"] /\ Status[p] = "absent"
  BY <1>1, <1>3 DEF Status
<1>5. \A q \in Payments : Collected(q)' = Collected(q)
  BY <1>1 DEF Collected
<1> QED
  BY <1>1, <1>4, <1>5, SameCollected, SameNotes DEF Abstract!Open, Status, Charged, Noted

LEMMA CredentialsSettle ==
    ASSUME ChargesInv, NEW account \in 0..MaxAccounts, update_payment_settings(account)
    PROVE  Unseen
<1>1. /\ payment' = [p \in Payments |->
            IF p \in PotentiallyLive
            THEN [payment[p] EXCEPT !.expired = payment[p].session, !.session = None]
            ELSE payment[p]]
      /\ stripe' = stripe /\ anomalies' = anomalies
  BY DEF update_payment_settings, webhooks
<1>2. \A p \in Payments : payment[p] \in PaymentRow
  BY DEF ChargesInv, PaymentsTypeOK
<1>3. \A p \in Payments : payment'[p].status = payment[p].status
  BY <1>1, <1>2 DEF PaymentRow
<1>4. \A p \in Payments : Collected(p)' = Collected(p)
  BY <1>1 DEF Collected
<1> QED
  BY <1>1, <1>3, <1>4, SameRows, SameCollected, SameNotes DEF Unseen

\* Every step of the app and of Stripe is a step of Settlement, or none.
LEMMA SettlementStep ==
    ASSUME ChargesInv, [Next]_vars
    PROVE  [Abstract!Next]_(Abstract!vars)
<1> USE DEF Abstract!Next
<1>1. Abstract!ByStaff = ByStaff
  BY DEF Abstract!ByStaff, ByStaff
<1>2. ASSUME NEW p \in Payments, NEW r \in Refs,
             member_pays(p, r) \/ bank_answers(p, r) \/ session_expires(p, r)
      PROVE  [Abstract!Next]_(Abstract!vars)
  BY <1>2, StripeSettles, UnseenStutters
<1>3. ASSUME NEW p \in Payments, create_payment(p)
      PROVE  Abstract!Next
  BY <1>3, CreateSettles
<1>4. ASSUME NEW p \in Payments,
             \/ create_checkout_url(p) \/ create_checkout_url_lost(p)
             \/ create_mobile_intent(p) \/ create_mobile_intent_lost(p)
      PROVE  UNCHANGED Abstract!vars
  BY <1>4, AskingSettles, UnseenStutters
<1>5. ASSUME NEW ps \in SUBSET Payments, NEW target \in ByStaff, SettleAll(ps, target)
      PROVE  Abstract!Next
  BY <1>1, <1>5, StaffSettle
<1>6. ASSUME NEW e \in sent, apply_webhook_event(e)
      PROVE  [Abstract!Next]_(Abstract!vars)
  <2>1. e.payment \in Payments
    BY DEF ChargesInv, PaymentsTypeOK, Events
  <2> QED
    BY <1>6, <2>1, WebhookSettles, UnseenStutters
<1>7. ASSUME NEW account \in 0..MaxAccounts, update_payment_settings(account)
      PROVE  UNCHANGED Abstract!vars
  BY <1>7, CredentialsSettle, UnseenStutters
<1>8. CASE UNCHANGED vars
  <2>1. payment' = payment /\ stripe' = stripe /\ anomalies' = anomalies
    BY <1>8 DEF vars
  <2>2. Status' = Status /\ Noted' = Noted
    BY <2>1 DEF Status, Noted
  <2>3. \A p \in Payments : Collected(p)' = Collected(p)
    BY <2>1 DEF Collected
  <2> QED
    BY <2>2, <2>3, SameCollected, UnseenStutters DEF Unseen
<1>9. CASE StripeSteps
  BY <1>2, <1>9 DEF StripeSteps
<1>10. CASE ServerSteps
  <2>1. \A p \in Payments : cancel_pending(p) => Abstract!Next
    BY <1>5 DEF cancel_pending, ByStaff
  <2>2. \A ps \in SUBSET Payments, target \in {"paid_offline", "waived"} :
           reconcile_payments(ps, target) => Abstract!Next
    BY <1>5 DEF reconcile_payments, ByStaff
  <2> QED
    BY <1>3, <1>4, <1>6, <1>7, <1>10, <2>1, <2>2 DEF ServerSteps
<1> QED
  BY <1>8, <1>9, <1>10 DEF Next

\* The app keeps what Settlement promises of a charge: it is settled once, paid
\* online only when Stripe collected the money, and what comes in for a charge
\* settled otherwise is noted (payments/services.py, payments/stripe_client.py).
THEOREM PaymentsRefineSettlement == Spec => SettlementKept
<1>1. Init => Abstract!Init
  <2> SUFFICES ASSUME Init PROVE Abstract!Init
    OBVIOUS
  <2>1. Status = [p \in Payments |-> "absent"]
    BY DEF Init, Status, NewPayment
  <2>2. \A p \in Payments : Collected(p) = {}
    BY DEF Init, Collected, NoObject
  <2>3. Charged = {} /\ Noted = {}
    BY <2>2 DEF Init, Charged, Noted
  <2> QED
    BY <2>1, <2>3 DEF Abstract!Init, Status, Charged, Noted
<1>2. ChargesInv /\ [Next]_vars => [Abstract!Next]_(Abstract!vars)
  BY SettlementStep
<1> QED
  BY <1>1, <1>2, ChargesInvariant, PTL DEF Spec, SettlementKept, Abstract!Spec
=============================================================================
