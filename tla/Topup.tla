-------------------------------- MODULE Topup --------------------------------
(***************************************************************************)
(* The prepaid balance of one wallet, and everything that moves it:        *)
(*                                                                         *)
(*   - top-ups, paid in USDC on Solana and recognised by four confirmers   *)
(*     that know nothing of each other: the Helius webhook, the client's   *)
(*     confirm with its intent, the status poll of the QR flow, and the    *)
(*     confirm of a bare transfer;                                         *)
(*   - the deduction after each paid chat reply;                           *)
(*   - the promo credit of a new account.                                  *)
(*                                                                         *)
(* Every database call is one step.  Each payment, each deduction and the  *)
(* promo credit is one unit.                                               *)
(***************************************************************************)
EXTENDS Integers, FiniteSets

CONSTANTS
    Intents,      \* top-up intents, each with a reference key of its own
    Payments,     \* USDC transfers to the treasury, by signature
    IntentOf,     \* the intent whose reference a payment carries, if any
    Sessions,     \* requests in flight at most
    MaxCalls,     \* bound: requests
    MaxFaults,    \* bound: crashes and rejected database calls
    NoIntent, NoPayment

ASSUME TopupAssumption ==
    /\ NoIntent \notin Intents /\ NoPayment \notin Payments
    /\ IntentOf \in [Payments -> Intents \cup {NoIntent}]
    /\ MaxCalls \in Nat /\ MaxFaults \in Nat

VARIABLES
    \* the chain
    landed,      \* payments confirmed on chain
    newest,      \* the last one that carries each intent's reference
    \* the database
    intent,      \* chat_topups rows made by /topup/intent: status, tx_hash
    direct,      \* payments with a confirmed chat_topups row of their own
    account,     \* the chat_balances row: balance_usdc, total_deposited, total_spent
    registered,  \* the wallet has an agent_keys row
    \* requests: position, kind, payment, intent, balance row as read
    sess,
    \* bounds and history
    calls, faults,
    credits,     \* how often each payment was added to the balance
    debits,      \* replies whose cost was taken off the balance
    unpaid,      \* of these, the ones that found it empty
    promo,       \* promo credits given
    exposed,     \* payments two requests took to one intent before either had
                 \* marked it, or whose mark by a webhook was rejected
    astray,      \* payments put on another row while the intent they carry the
                 \* reference of was pending
    dropped,     \* payments whose credit was cut short by a crash or an error
    clash        \* two requests were between read and write of the balance at
                 \* once, or the promo credit met a balance

chain  == <<landed, newest>>
ledger == <<credits, debits, unpaid, promo>>
vars   == <<chain, intent, direct, account, registered, sess, calls, faults,
            ledger, exposed, astray, dropped, clash>>

Account == [row : BOOLEAN, bal : Nat, dep : Nat, spent : Nat]
NoRow   == [row |-> FALSE, bal |-> 0, dep |-> 0, spent |-> 0]
Idle    == [pc |-> "idle", kind |-> "none", x |-> NoPayment, i |-> NoIntent,
            read |-> NoRow]

Init ==
    /\ landed = {} /\ newest = [i \in Intents |-> NoPayment]
    /\ intent = [i \in Intents |-> [status |-> "absent", tx |-> NoPayment]]
    /\ direct = {}
    /\ account = NoRow
    /\ registered = FALSE
    /\ sess = [s \in Sessions |-> Idle]
    /\ calls = 0 /\ faults = 0
    /\ credits = [x \in Payments |-> 0] /\ debits = 0 /\ unpaid = 0 /\ promo = 0
    /\ exposed = {} /\ astray = {} /\ dropped = {} /\ clash = FALSE

Move(s, pc) == sess' = [sess EXCEPT ![s].pc = pc]
End(s)      == sess' = [sess EXCEPT ![s] = Idle]

-----------------------------------------------------------------------------
(* The wallet and its payments.                                            *)

Writing == \E s \in Sessions : sess[s].pc \in {"credit", "deduct"}

(* First login: the promo credit is upserted over whatever row is there.   *)
Register ==
    /\ ~registered
    /\ registered' = TRUE
    /\ promo' = 1
    /\ account' = [row |-> TRUE, bal |-> 1, dep |-> 1, spent |-> 0]
    /\ clash' = (clash \/ account.row \/ Writing)
    /\ UNCHANGED <<chain, intent, direct, sess, calls, faults, credits, debits,
                   unpaid, exposed, astray, dropped>>

CreateIntent(i) ==
    /\ registered
    /\ intent[i].status = "absent"
    /\ intent' = [intent EXCEPT ![i].status = "pending"]
    /\ UNCHANGED <<chain, direct, account, registered, sess, calls, faults,
                   ledger, exposed, astray, dropped, clash>>

Pay(x) ==
    /\ x \notin landed
    /\ IntentOf[x] # NoIntent => intent[IntentOf[x]].status # "absent"
    /\ landed' = landed \cup {x}
    /\ newest' = IF IntentOf[x] = NoIntent THEN newest
                 ELSE [newest EXCEPT ![IntentOf[x]] = x]
    /\ UNCHANGED <<intent, direct, account, registered, sess, calls, faults,
                   ledger, exposed, astray, dropped, clash>>

-----------------------------------------------------------------------------
(* The four confirmers, up to the point where the payment is on record.    *)

(* Requests that have decided to record a payment and have not done so.    *)
Deciding == {s \in Sessions : sess[s].pc \in {"mark", "webhookMark", "insert"}}

(* Those a new request may get in the way of, at the intent it marks.      *)
Rivals(i) == {o \in Deciding : i # NoIntent /\ sess[o].i = i}

Start(s, kind, pc, x, i) ==
    /\ sess[s] = Idle
    /\ calls < MaxCalls
    /\ calls' = calls + 1
    /\ sess' = [sess EXCEPT ![s] = [Idle EXCEPT !.pc = pc, !.kind = kind,
                                                !.x = x, !.i = i]]
    /\ exposed' = IF Rivals(i) = {} THEN exposed
                  ELSE exposed \cup {x} \cup {sess[o].x : o \in Rivals(i)}
    /\ UNCHANGED <<chain, intent, direct, account, registered, ledger, astray,
                   dropped, clash>>

(* Mutant: any intent with the reference matches, the confirmed one too.   *)
WebhookAny(s, x) ==
    /\ x \in landed
    /\ IF IntentOf[x] # NoIntent THEN Start(s, "webhook", "webhookMark", x, IntentOf[x])
       ELSE Start(s, "webhook", "insert", x, NoIntent)
    /\ UNCHANGED faults

(* The webhook looks for a pending intent whose reference the transaction  *)
(* carries; without one it falls back to a row of the payment's own.       *)
Webhook(s, x) ==
    /\ x \in landed
    /\ IF IntentOf[x] # NoIntent /\ intent[IntentOf[x]].status = "pending"
       THEN Start(s, "webhook", "webhookMark", x, IntentOf[x])
       ELSE Start(s, "webhook", "insert", x, NoIntent)
    /\ UNCHANGED faults

(* Mutant: the confirm without its already_confirmed return.               *)
ConfirmAgain(s, x, i) ==
    /\ intent[i].status # "absent"
    /\ Start(s, "confirm", "mark", x, i)
    /\ UNCHANGED faults

(* /topup/confirm of an intent with any signature: already confirmed, or   *)
(* on to a verification that waits for the transaction for over a minute.  *)
(* Whose reference the payment carries is not looked at.                   *)
Confirm(s, x, i) ==
    /\ intent[i].status = "pending"
    /\ Start(s, "confirm", "mark", x, i)
    /\ UNCHANGED faults

(* /topup/status: the newest transaction that carries the reference.       *)
StatusPoll(s, i) ==
    /\ intent[i].status = "pending"
    /\ newest[i] # NoPayment
    /\ Start(s, "poll", "mark", newest[i], i)
    /\ UNCHANGED faults

(* UNIQUE (tx_hash): the signature is on the row of another intent than i, *)
(* or on one of its own.                                                   *)
Taken(x, i) == x \in direct \/ \E j \in Intents \ {i} : intent[j].tx = x

(* /topup/confirm without an intent: any payment whose signature is on no  *)
(* row, also one that carries the reference of a pending intent.           *)
ConfirmDirect(s, x) ==
    /\ ~Taken(x, NoIntent)
    /\ Start(s, "direct", "insert", x, NoIntent)
    /\ UNCHANGED faults

(* The verification never finds the transaction, or the RPC fails.         *)
VerificationFails(s) ==
    /\ sess[s].kind \in {"confirm", "poll", "direct"}
    /\ sess[s].pc \in {"mark", "insert"}
    /\ End(s)
    /\ UNCHANGED <<chain, intent, direct, account, registered, calls, faults,
                   ledger, exposed, astray, dropped, clash>>

Confirmed(x) == [status |-> "confirmed", tx |-> x]

(* A payment goes on the row of intent i, or, without one, on its own: its *)
(* reference no longer counts if another intent, still pending, has it.    *)
Recorded(x, i) ==
    LET j == IntentOf[x] IN
    astray' = IF j \notin {i, NoIntent} /\ intent[j].status = "pending"
              THEN astray \cup {x} ELSE astray

(* The verified payment is written to its intent if that is still pending; *)
(* whether a row matched is not looked at.  A duplicate signature ends it. *)
MarkIntent(s) ==
    LET x == sess[s].x  i == sess[s].i IN
    /\ sess[s].pc = "mark"
    /\ x \in landed
    /\ \/ /\ intent[i].status = "pending" /\ Taken(x, i)
          /\ End(s)
          /\ UNCHANGED <<intent, astray>>
       \/ /\ intent[i].status = "pending" /\ ~Taken(x, i)
          /\ intent' = [intent EXCEPT ![i] = Confirmed(x)]
          /\ Recorded(x, i)
          /\ Move(s, "read")
       \/ /\ intent[i].status # "pending"
          /\ Move(s, "read")
          /\ UNCHANGED <<intent, astray>>
    /\ UNCHANGED <<chain, direct, account, registered, calls, faults, ledger,
                   exposed, dropped, clash>>

(* The webhook writes the intent by id alone and ignores the error.        *)
WebhookMark(s) ==
    LET x == sess[s].x  i == sess[s].i IN
    /\ sess[s].pc = "webhookMark"
    /\ intent' = IF Taken(x, i) THEN intent
                 ELSE [intent EXCEPT ![i] = Confirmed(x)]
    /\ Move(s, "read")
    /\ UNCHANGED <<chain, direct, account, registered, calls, faults, ledger,
                   exposed, astray, dropped, clash>>

(* creditBalance: a row of the payment's own, refused if the signature is  *)
(* on any row.                                                             *)
InsertTopup(s) ==
    LET x == sess[s].x IN
    /\ sess[s].pc = "insert"
    /\ x \in landed
    /\ IF Taken(x, NoIntent)
       THEN End(s) /\ UNCHANGED <<direct, astray>>
       ELSE Move(s, "read") /\ direct' = direct \cup {x} /\ Recorded(x, NoIntent)
    /\ UNCHANGED <<chain, intent, account, registered, calls, faults, ledger,
                   exposed, dropped, clash>>

-----------------------------------------------------------------------------
(* The balance, read and written back.                                     *)

(* Mutant: no row is made for a wallet that has none.                      *)
ReadExistingBalance(s) ==
    /\ sess[s].pc = "read"
    /\ sess' = [sess EXCEPT ![s] = IF account.row
                   THEN [@ EXCEPT !.pc = "credit", !.read = account] ELSE Idle]
    /\ UNCHANGED <<chain, intent, direct, account, registered, calls, faults,
                   ledger, exposed, astray, dropped, clash>>

ReadBalance(s) ==
    /\ sess[s].pc = "read"
    /\ sess' = [sess EXCEPT ![s].pc = "credit", ![s].read = account]
    /\ clash' = (clash \/ Writing)
    /\ UNCHANGED <<chain, intent, direct, account, registered, calls, faults,
                   ledger, exposed, astray, dropped>>

(* A credit that failed: the webhook goes on to its fallback, where the    *)
(* signature it has just recorded stops it; the others give up.            *)
CreditFails(s) ==
    /\ IF sess[s].kind = "webhook" /\ sess[s].i # NoIntent
       THEN sess' = [sess EXCEPT ![s] = [@ EXCEPT !.pc = "insert", !.read = NoRow,
                                                  !.i = NoIntent]]
       ELSE End(s)
    /\ dropped' = dropped \cup {sess[s].x}
    /\ UNCHANGED <<account, credits>>

(* The sums are written over the row; a wallet that had no row gets one,   *)
(* unless another request made it in the meantime.                         *)
WriteCredit(s) ==
    LET r == sess[s].read IN
    /\ sess[s].pc = "credit"
    /\ \/ /\ ~r.row /\ account.row
          /\ CreditFails(s)
       \/ /\ r.row \/ ~account.row
          /\ account' = [row |-> TRUE, bal |-> r.bal + 1, dep |-> r.dep + 1,
                         spent |-> IF r.row THEN account.spent ELSE 0]
          /\ credits' = [credits EXCEPT ![sess[s].x] = @ + 1]
          /\ End(s)
          /\ UNCHANGED dropped
    /\ UNCHANGED <<chain, intent, direct, registered, calls, faults, debits,
                   unpaid, promo, exposed, astray, clash>>

(* Mutant: the deduction from the balance of the pre-check.                *)
StartReplyKeepingBalance(s) ==
    /\ registered
    /\ account.bal >= 1
    /\ sess[s] = Idle
    /\ calls < MaxCalls
    /\ calls' = calls + 1
    /\ sess' = [sess EXCEPT ![s] = [Idle EXCEPT !.pc = "deduct",
                                       !.kind = "reply", !.read = account]]
    /\ UNCHANGED <<chain, intent, direct, account, registered, faults, ledger,
                   exposed, astray, dropped, clash>>

(* A chat reply of a paid model: the balance must cover a small one.       *)
StartReply(s) ==
    /\ registered
    /\ account.bal >= 1
    /\ Start(s, "reply", "reply", NoPayment, NoIntent)
    /\ UNCHANGED faults

(* Once the reply is streamed, the balance is read again ...               *)
ReadForDeduction(s) ==
    /\ sess[s].pc = "reply"
    /\ sess' = [sess EXCEPT ![s].pc = "deduct", ![s].read = account]
    /\ clash' = (clash \/ Writing)
    /\ UNCHANGED <<chain, intent, direct, account, registered, calls, faults,
                   ledger, exposed, astray, dropped>>

(* Mutant: the cost is added.                                              *)
DeductWrongSign(s) ==
    LET r == sess[s].read IN
    /\ sess[s].pc = "deduct"
    /\ account' = [account EXCEPT !.bal = r.bal + 1, !.spent = r.spent + 1]
    /\ debits' = debits + 1
    /\ unpaid' = unpaid + (IF r.bal >= 1 THEN 0 ELSE 1)
    /\ End(s)
    /\ UNCHANGED <<chain, intent, direct, registered, calls, faults, credits,
                   promo, exposed, astray, dropped, clash>>

(* Mutant: the balance is not kept at zero.                                *)
DeductBelowZero(s) ==
    LET r == sess[s].read IN
    /\ sess[s].pc = "deduct"
    /\ account' = [account EXCEPT !.bal = r.bal - 1, !.spent = r.spent + 1]
    /\ debits' = debits + 1
    /\ unpaid' = unpaid + (IF r.bal >= 1 THEN 0 ELSE 1)
    /\ End(s)
    /\ UNCHANGED <<chain, intent, direct, registered, calls, faults, credits,
                   promo, exposed, astray, dropped, clash>>

(* ... and written back, never below zero.                                 *)
WriteDeduction(s) ==
    LET r == sess[s].read IN
    /\ sess[s].pc = "deduct"
    /\ account' = [account EXCEPT !.bal = IF r.bal >= 1 THEN r.bal - 1 ELSE 0,
                                  !.spent = r.spent + 1]
    /\ debits' = debits + 1
    /\ unpaid' = unpaid + (IF r.bal >= 1 THEN 0 ELSE 1)
    /\ End(s)
    /\ UNCHANGED <<chain, intent, direct, registered, calls, faults, credits,
                   promo, exposed, astray, dropped, clash>>

-----------------------------------------------------------------------------
(* Faults.                                                                 *)

Fault == faults < MaxFaults /\ faults' = faults + 1

(* The write of a balance is rejected; or its read is, which looks like a  *)
(* wallet without a row, so that the insert that follows is refused.       *)
BalanceWriteFails(s) ==
    /\ Fault
    /\ sess[s].pc = "credit"
    /\ CreditFails(s)
    /\ UNCHANGED <<chain, intent, direct, registered, calls, debits, unpaid,
                   promo, exposed, astray, clash>>

(* The webhook's read of the pending intents is rejected, or the direct    *)
(* confirm's of the signature: each goes on as if there were none.         *)
LookupLost(s, x) ==
    /\ Fault
    /\ \/ x \in landed /\ Start(s, "webhook", "insert", x, NoIntent)
       \/ Start(s, "direct", "insert", x, NoIntent)

(* The webhook's update of the intent is rejected, and it credits all the  *)
(* same: the intent stays pending.                                         *)
WebhookMarkLost(s) ==
    /\ Fault
    /\ sess[s].pc = "webhookMark"
    /\ Move(s, "read")
    /\ exposed' = exposed \cup {sess[s].x}
    /\ UNCHANGED <<chain, intent, direct, account, registered, calls, ledger,
                   astray, dropped, clash>>

Crash ==
    /\ Fault
    /\ sess' = [s \in Sessions |-> Idle]
    /\ dropped' = dropped \cup
          {sess[s].x : s \in {s \in Sessions : sess[s].pc \in {"read", "credit"}}}
    /\ UNCHANGED <<chain, intent, direct, account, registered, calls, ledger,
                   exposed, astray, clash>>

-----------------------------------------------------------------------------
Request(s) ==
    \/ \E x \in Payments : Webhook(s, x) \/ ConfirmDirect(s, x)
    \/ \E x \in Payments, i \in Intents : Confirm(s, x, i)
    \/ \E i \in Intents : StatusPoll(s, i)
    \/ StartReply(s)
Step(s) ==
    \/ VerificationFails(s) \/ MarkIntent(s) \/ WebhookMark(s) \/ InsertTopup(s)
    \/ ReadBalance(s) \/ WriteCredit(s) \/ ReadForDeduction(s) \/ WriteDeduction(s)
Faults ==
    \/ \E s \in Sessions : BalanceWriteFails(s) \/ WebhookMarkLost(s)
    \/ \E s \in Sessions, x \in Payments : LookupLost(s, x)
    \/ Crash

Next == \/ Register
        \/ \E i \in Intents : CreateIntent(i)
        \/ \E x \in Payments : Pay(x)
        \/ \E s \in Sessions : Request(s) \/ Step(s)
        \/ Faults

Spec == Init /\ [][Next]_vars

-----------------------------------------------------------------------------
(* Properties.                                                             *)

(* What chat_topups, chat_balances and the requests may hold: a balance is *)
(* never negative (the NUMERIC columns; Math.max in the deduction).        *)
TypeOK ==
    /\ landed \subseteq Payments
    /\ newest \in [Intents -> Payments \cup {NoPayment}]
    /\ intent \in [Intents -> [status : {"absent", "pending", "confirmed"},
                               tx : Payments \cup {NoPayment}]]
    /\ direct \subseteq Payments
    /\ account \in Account
    /\ registered \in BOOLEAN
    /\ sess \in [Sessions ->
          [pc : {"idle", "mark", "webhookMark", "insert", "read", "credit",
                 "reply", "deduct"},
           kind : {"none", "webhook", "confirm", "poll", "direct", "reply"},
           x : Payments \cup {NoPayment}, i : Intents \cup {NoIntent},
           read : Account]]
    /\ calls \in 0..MaxCalls /\ faults \in 0..MaxFaults
    /\ credits \in [Payments -> Nat] /\ debits \in Nat /\ unpaid \in Nat
    /\ promo \in 0..1
    /\ exposed \subseteq Payments /\ astray \subseteq Payments
    /\ dropped \subseteq Payments
    /\ clash \in BOOLEAN

(* A payment is added to the balance once, however often, by whichever of  *)
(* the four confirmers and for whichever intent it is reported, with two   *)
(* exceptions.  Two requests that both took a payment to one intent before *)
(* either had marked it: the guarded update that then matches no row does  *)
(* not stop the second credit.  And a payment confirmed directly, or for   *)
(* another intent, while the intent it pays was pending: the webhook still *)
(* matches that intent, and ignores that its update is refused.            *)
CreditedOnce == \A x \in Payments \ (exposed \cup astray) : credits[x] <= 1

(* A payment on record has been added to the balance, is about to be, or   *)
(* lost its credit to a crash or an error in between.                      *)
RecordedIsCredited ==
    \A x \in direct \cup {intent[i].tx : i \in Intents} :
        \/ x = NoPayment
        \/ credits[x] > 0
        \/ \E s \in Sessions : sess[s].x = x /\ sess[s].pc \in {"read", "credit"}
        \/ x \in dropped

(* All that was ever added to the balance: the promo credit, and each time *)
(* a payment was credited.                                                 *)
Deposits == UNION {{x} \X (1..credits[x]) : x \in Payments}
Given    == promo + Cardinality(Deposits)

(* No interleaving of credits, deductions and crashes shows more money     *)
(* than was credited: an update may be lost, never made up.                *)
BalanceBacked == account.bal <= Given /\ account.dep <= Given

(* Requests that do not overlap in their read-modify-write leave the row   *)
(* exact: every credit and every deduction is in it, and only a deduction  *)
(* that found the balance empty went uncollected.                          *)
BalanceExact ==
    clash \/ /\ account.dep = Given
             /\ account.spent = debits
             /\ account.bal + account.spent = account.dep + unpaid

(* A confirmed intent keeps its signature, so that the UNIQUE constraint   *)
(* goes on refusing the payment, unless a race for the intent exposed it.  *)
SignatureKept ==
    [][\A i \in Intents :
          intent[i].status = "confirmed" /\ intent[i].tx \notin exposed
             => intent'[i] = intent[i]]_vars
=============================================================================
