------------------------------- MODULE Custody -------------------------------
(***************************************************************************)
(* What lending promises of the units of a product, whichever flow moves   *)
(* them: a unit that a request was promised or has out came off the shelf  *)
(* for it, and is accounted for on the request by the step that puts it    *)
(* back on the shelf or aside, once.  Corrections of staff never touch a   *)
(* request.  Module HardwareLending implements this.                       *)
(***************************************************************************)
EXTENDS Integers

CONSTANTS Products, Requests

VARIABLES
    phase,   \* of a request: none, asked, promised, out or over
    held,    \* units it was promised, or has out
    back,    \* units of it that went back on the shelf
    spoilt,  \* units of it that were set aside
    shelf,   \* units of a product that can be lent
    aside    \* units of a product that are damaged, lost or to be fixed

custodyVars == <<phase, held, back, spoilt, shelf, aside>>

Nothing == [r \in Requests |-> [p \in Products |-> 0]]

Init ==
    /\ phase = [r \in Requests |-> "none"]
    /\ held = Nothing /\ back = Nothing /\ spoilt = Nothing
    /\ shelf \in [Products -> Nat]
    /\ aside = [p \in Products |-> 0]

\* A step of one request.
Goes(r, from, to) ==
    /\ phase[r] = from /\ phase' = [phase EXCEPT ![r] = to]
    /\ \A x \in Requests \ {r} :
          held'[x] = held[x] /\ back'[x] = back[x] /\ spoilt'[x] = spoilt[x]

Ask(r) ==
    /\ Goes(r, "none", "asked")
    /\ UNCHANGED <<held, back, spoilt, shelf, aside>>

Decline(r) ==
    /\ Goes(r, "asked", "over")
    /\ UNCHANGED <<held, back, spoilt, shelf, aside>>

\* What is promised, or lent at once, comes off the shelf.
TakeOff(r) ==
    /\ \A p \in Products :
          /\ held[r][p] = 0 /\ held'[r][p] \in 0..shelf[p]
          /\ shelf'[p] = shelf[p] - held'[r][p]
    /\ UNCHANGED <<back, spoilt, aside>>

Promise(r) == Goes(r, "asked", "promised") /\ TakeOff(r)

Lend(r) == Goes(r, "none", "out") /\ TakeOff(r)

\* Of a product, the units found broken at the handover are all set aside or
\* all thrown away.
HandOver(r) ==
    /\ Goes(r, "promised", "out")
    /\ \A p \in Products :
          /\ held'[r][p] \in 0..held[r][p]
          /\ spoilt'[r][p] - spoilt[r][p] \in {0, held[r][p] - held'[r][p]}
          /\ aside'[p] - aside[p] = spoilt'[r][p] - spoilt[r][p]
    /\ UNCHANGED <<back, shelf>>

\* The request is over when nothing of it is out any more.
TakeBack(r) ==
    /\ Goes(r, "out", IF \A p \in Products : held'[r][p] = 0 THEN "over" ELSE "out")
    /\ \A p \in Products :
          /\ held'[r][p] \in 0..held[r][p]
          /\ back'[r][p] >= back[r][p] /\ spoilt'[r][p] >= spoilt[r][p]
          /\ held[r][p] - held'[r][p]
                = (back'[r][p] - back[r][p]) + (spoilt'[r][p] - spoilt[r][p])
          /\ shelf'[p] - shelf[p] = back'[r][p] - back[r][p]
          /\ aside'[p] - aside[p] = spoilt'[r][p] - spoilt[r][p]

\* Staff, a triage or a stocktake correct the stock.
Correct ==
    /\ shelf' \in [Products -> Nat] /\ aside' \in [Products -> Nat]
    /\ UNCHANGED <<phase, held, back, spoilt>>

Next ==
    \/ \E r \in Requests :
          \/ Ask(r) \/ Decline(r) \/ Promise(r) \/ Lend(r)
          \/ HandOver(r) \/ TakeBack(r)
    \/ Correct

Spec == Init /\ [][Next]_custodyVars
=============================================================================
