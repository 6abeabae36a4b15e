------------------------------- MODULE TopupProofs -------------------------------
(***************************************************************************)
(* What TLAPS proves of Topup, for any intents, payments and requests in   *)
(* flight: its types, that a payment is credited once unless two of the    *)
(* confirmers raced for an intent or it was confirmed beside its own, that *)
(* what is on record was credited, that a confirmed intent keeps its       *)
(* signature, and that the balance is backed and, without overlapping      *)
(* writes, exact.                                                          *)
(***************************************************************************)
EXTENDS Topup, FiniteSetTheorems, TLAPS

SessionRow == [pc : {"idle", "mark", "webhookMark", "insert", "read", "credit", "reply",
                   "deduct"},
             kind : {"none", "webhook", "confirm", "poll", "direct", "reply"},
             x : Payments \cup {NoPayment}, i : Intents \cup {NoIntent}, read : Account]
IntentRow == [status : {"absent", "pending", "confirmed"}, tx : Payments \cup {NoPayment}]

(* The stages of a request that holds a payment, and that holds an intent. *)
Paying  == {"mark", "webhookMark", "insert", "read", "credit"}
Marking == {"mark", "webhookMark"}
AtWork  == {"read", "credit"}

(* A request that has confirmed a payment holds it, and one that marks an  *)
(* intent holds the intent, the webhook the one its payment refers to; a   *)
(* payment comes after the intent it refers to.                            *)
Shape ==
    /\ \A s \in Sessions :
        /\ sess[s].pc = "idle" => sess[s] = Idle
        /\ sess[s].pc \in Paying => sess[s].x \in Payments
        /\ sess[s].pc \in Marking => sess[s].i # NoIntent
        /\ sess[s].i # NoIntent => sess[s].pc \in Paying
        /\ sess[s].pc = "webhookMark" => IntentOf[sess[s].x] = sess[s].i
    /\ \A i \in Intents : (intent[i].tx # NoPayment) <=> (intent[i].status = "confirmed")
    /\ \A x \in landed : IntentOf[x] # NoIntent => intent[IntentOf[x]].status # "absent"

Types ==
    /\ landed \subseteq Payments /\ newest \in [Intents -> Payments \cup {NoPayment}]
    /\ intent \in [Intents -> IntentRow] /\ direct \subseteq Payments
    /\ account \in Account /\ registered \in BOOLEAN
    /\ sess \in [Sessions -> SessionRow]
    /\ calls \in 0..MaxCalls /\ faults \in 0..MaxFaults
    /\ credits \in [Payments -> Nat] /\ debits \in Nat /\ unpaid \in Nat
    /\ promo = (IF registered THEN 1 ELSE 0)
    /\ exposed \subseteq Payments /\ astray \subseteq Payments
    /\ dropped \subseteq Payments /\ clash \in BOOLEAN
    /\ Shape

(* A row of chat_topups carries the signature of payment x.                *)
OnRecord(x) == x \in direct \/ \E i \in Intents : intent[i].tx = x

Crediting(s, x) == sess[s].pc \in AtWork /\ sess[s].x = x

(* Two requests that have decided to mark the same intent expose what they *)
(* carry, and so does one whose intent is no longer pending, with the      *)
(* payment that is on it.                                                  *)
MarkInv ==
    /\ \A s, o \in Deciding : s # o /\ sess[s].i # NoIntent /\ sess[s].i = sess[o].i
          => sess[s].x \in exposed
    /\ \A s \in Sessions : sess[s].pc \in Marking
          => \/ intent[sess[s].i].status = "pending"
             \/ sess[s].x \in exposed /\ intent[sess[s].i].tx \in exposed

(* A payment that has not gone astray is on no row while the intent it     *)
(* refers to is unconfirmed.                                               *)
OwnInv ==
    \A x \in Payments \ astray :
        IntentOf[x] # NoIntent /\ intent[IntentOf[x]].status # "confirmed" => ~OnRecord(x)

(* A payment neither exposed nor astray is credited by the request that    *)
(* recorded it, and no other.                                              *)
CreditOf(x) ==
    /\ credits[x] <= 1
    /\ credits[x] = 1 => OnRecord(x) /\ \A s \in Sessions : ~Crediting(s, x)
    /\ \A s \in Sessions : Crediting(s, x) => OnRecord(x)
    /\ \A s, o \in Sessions : Crediting(s, x) /\ Crediting(o, x) => s = o

CreditInv == \A x \in Payments \ (exposed \cup astray) : CreditOf(x)

(* What was read of the balance is backed as the balance itself is.        *)
BackedInv ==
    /\ IsFiniteSet(Deposits)
    /\ BalanceBacked
    /\ \A s \in Sessions : sess[s].read.bal <= Given /\ sess[s].read.dep <= Given

(* Without a clash one request at a time holds the balance, as it is.      *)
Holding(s) == sess[s].pc \in {"credit", "deduct"}

ExactInv ==
    /\ account.row \/ (account = NoRow /\ \A s \in Sessions : sess[s].pc \notin {"reply", "deduct"})
    /\ BalanceExact
    /\ ~clash => /\ \A s \in Sessions : Holding(s) => sess[s].read = account
                 /\ \A s, o \in Sessions : Holding(s) /\ Holding(o) => s = o

(***************************************************************************)
(* Types.                                                                  *)
(***************************************************************************)
LEMMA TypesAreTypes == Types => TypeOK
BY DEF Types, TypeOK, SessionRow, IntentRow

LEMMA TypesInit == Init => Types
<1> SUFFICES ASSUME Init PROVE Types
  OBVIOUS
<1>1. Idle \in SessionRow /\ Idle.pc = "idle" /\ Idle.i = NoIntent /\ NoRow \in Account
  BY DEF Idle, SessionRow, NoRow, Account
<1>2. sess \in [Sessions -> SessionRow] /\ \A s \in Sessions : sess[s] = Idle
  BY <1>1 DEF Init
<1>3. intent \in [Intents -> IntentRow] /\ newest \in [Intents -> Payments \cup {NoPayment}]
  BY DEF Init, IntentRow
<1>4. Shape
  BY <1>1, <1>2 DEF Init, Shape, Paying, Marking
<1> QED
  <2>1. calls \in 0..MaxCalls /\ faults \in 0..MaxFaults
    BY TopupAssumption DEF Init
  <2>2. credits \in [Payments -> Nat] /\ debits \in Nat /\ unpaid \in Nat
        /\ promo = (IF registered THEN 1 ELSE 0)
    BY DEF Init
  <2>3. /\ landed \subseteq Payments /\ direct \subseteq Payments
        /\ account \in Account /\ registered \in BOOLEAN
        /\ exposed \subseteq Payments /\ astray \subseteq Payments
        /\ dropped \subseteq Payments /\ clash \in BOOLEAN
    BY <1>1 DEF Init
  <2> QED
    BY <1>2, <1>3, <1>4, <2>1, <2>2, <2>3 DEF Types

(* A request comes in, some of them with a lookup that was rejected.       *)
Asks(s) == Request(s) \/ \E x \in Payments : LookupLost(s, x)

(* What a request that is let in starts with.                              *)
Admitted(s, kind, pc, x, i) ==
    /\ Start(s, kind, pc, x, i)
    /\ faults' \in 0..MaxFaults
    /\ \/ pc = "reply" /\ x = NoPayment /\ i = NoIntent /\ account.bal >= 1
       \/ pc = "insert" /\ x \in Payments /\ i = NoIntent
       \/ /\ pc \in Marking /\ x \in Payments /\ i \in Intents
          /\ intent[i].status = "pending" /\ (pc = "webhookMark" => IntentOf[x] = i)

Kinds == {"none", "webhook", "confirm", "poll", "direct", "reply"}

LetIn(s) == \E x, i : \E kind \in Kinds, pc \in {"mark", "webhookMark", "insert", "reply"} :
                Admitted(s, kind, pc, x, i)

LEMMA AskIsAdmitted ==
    ASSUME Types, NEW s \in Sessions, Asks(s)
    PROVE  LetIn(s)
<1> USE DEF LetIn, Marking, Kinds
<1>1. /\ \A x \in Payments : IntentOf[x] \in Intents \cup {NoIntent}
      /\ NoIntent \notin Intents /\ NoPayment \notin Payments
      /\ faults \in 0..MaxFaults /\ MaxFaults \in Nat
  BY TopupAssumption DEF Types
<1>2. ASSUME NEW x \in Payments, Webhook(s, x)
      PROVE  LetIn(s)
  <2>1. CASE IntentOf[x] # NoIntent /\ intent[IntentOf[x]].status = "pending"
    <3>1. Admitted(s, "webhook", "webhookMark", x, IntentOf[x])
      BY <1>1, <1>2, <2>1 DEF Webhook, Admitted
    <3> QED
      BY <3>1
  <2>2. CASE ~(IntentOf[x] # NoIntent /\ intent[IntentOf[x]].status = "pending")
    <3>1. Admitted(s, "webhook", "insert", x, NoIntent)
      BY <1>1, <1>2, <2>2 DEF Webhook, Admitted
    <3> QED
      BY <3>1
  <2> QED
    BY <2>1, <2>2
<1>3. ASSUME NEW x \in Payments, ConfirmDirect(s, x) \/ LookupLost(s, x)
      PROVE  LetIn(s)
  <2>1. faults' \in 0..MaxFaults
    BY <1>1, <1>3 DEF ConfirmDirect, LookupLost, Fault
  <2>2. \/ Admitted(s, "webhook", "insert", x, NoIntent)
        \/ Admitted(s, "direct", "insert", x, NoIntent)
    BY <1>3, <2>1 DEF ConfirmDirect, LookupLost, Admitted
  <2> QED
    BY <2>2
<1>4. ASSUME NEW i \in Intents, NEW x \in Payments, Confirm(s, x, i)
      PROVE  LetIn(s)
  <2>1. Admitted(s, "confirm", "mark", x, i)
    BY <1>1, <1>4 DEF Confirm, Admitted
  <2> QED
    BY <2>1
<1>5. ASSUME NEW i \in Intents, StatusPoll(s, i)
      PROVE  LetIn(s)
  <2>1. newest[i] \in Payments
    BY <1>5 DEF StatusPoll, Types
  <2>2. Admitted(s, "poll", "mark", newest[i], i)
    BY <1>1, <1>5, <2>1 DEF StatusPoll, Admitted
  <2> QED
    BY <2>2
<1>6. ASSUME StartReply(s)
      PROVE  LetIn(s)
  <2>1. Admitted(s, "reply", "reply", NoPayment, NoIntent)
    BY <1>1, <1>6 DEF StartReply, Admitted
  <2> QED
    BY <2>1
<1> QED
  BY <1>2, <1>3, <1>4, <1>5, <1>6 DEF Asks, Request

(* The record of a request that is let in, field by field.                 *)
LEMMA StartRow ==
    ASSUME Types, NEW s \in Sessions, NEW kind \in Kinds, NEW x, NEW i,
           NEW pc \in {"mark", "webhookMark", "insert", "reply"}, Admitted(s, kind, pc, x, i)
    PROVE  /\ sess[s] = Idle
           /\ sess' \in [Sessions -> SessionRow]
           /\ \A o \in Sessions \ {s} : sess'[o] = sess[o]
           /\ sess'[s].pc = pc /\ sess'[s].x = x /\ sess'[s].i = i /\ sess'[s].read = NoRow
<1> DEFINE R == [Idle EXCEPT !.pc = pc, !.kind = kind, !.x = x, !.i = i]
<1>1. sess[s] = Idle /\ sess' = [sess EXCEPT ![s] = R]
  BY DEF Admitted, Start
<1>2. x \in Payments \cup {NoPayment} /\ i \in Intents \cup {NoIntent}
  BY DEF Admitted, Marking
<1>3. R.pc = pc /\ R.x = x /\ R.i = i /\ R.read = NoRow
  BY DEF Idle
<1>4. R \in SessionRow
  BY <1>2 DEF Idle, SessionRow, Kinds, NoRow, Account
<1> HIDE DEF R
<1> QED
  BY <1>1, <1>3, <1>4 DEF Types

LEMMA StartTypes ==
    ASSUME Types, NEW s \in Sessions, NEW kind \in Kinds, NEW x, NEW i,
           NEW pc \in {"mark", "webhookMark", "insert", "reply"}, Admitted(s, kind, pc, x, i)
    PROVE  Types'
<1> USE DEF chain, ledger
<1>1. \A o \in Deciding : sess[o].x \in Payments
  BY DEF Deciding, Types, Shape, Paying
<1>2. x \in Payments \cup {NoPayment} /\ i \in Intents \cup {NoIntent}
      /\ (pc # "reply" => x \in Payments)
  BY DEF Admitted, Marking
<1>3. exposed' \subseteq Payments
  <2>1. pc = "reply" => exposed' = exposed
    BY TopupAssumption DEF Admitted, Start, Rivals, Marking
  <2> QED
    BY <1>1, <1>2, <2>1 DEF Admitted, Start, Rivals, Types
<1>4. Shape'
  <2>1. /\ pc \in Marking => i # NoIntent
        /\ i # NoIntent => pc \in Paying
        /\ pc = "webhookMark" => IntentOf[x] = i
    BY TopupAssumption DEF Admitted, Marking, Paying
  <2>2. UNCHANGED <<intent, newest, landed>>
    BY DEF Admitted, Start
  <2> QED
    BY <1>2, <2>1, <2>2, StartRow DEF Types, Shape, Paying
<1>5. calls' \in 0..MaxCalls /\ faults' \in 0..MaxFaults
  BY TopupAssumption DEF Admitted, Start, Types
<1>6. /\ UNCHANGED <<landed, newest, intent, direct, account, registered>>
      /\ UNCHANGED <<credits, debits, unpaid, promo, astray, dropped, clash>>
  BY DEF Admitted, Start
<1>7. sess' \in [Sessions -> SessionRow]
  BY StartRow
<1> QED
  BY <1>3, <1>4, <1>5, <1>6, <1>7 DEF Types

(* How a step of request s moves it from one stage to the next, or ends it.*)
FallsBack(s) == sess' = [sess EXCEPT ![s] =
                   [@ EXCEPT !.pc = "insert", !.read = NoRow, !.i = NoIntent]]
ReadsRow(s, pc) == sess' = [sess EXCEPT ![s].pc = pc, ![s].read = account]
Moves(s) ==
    /\ sess[s].pc # "idle"
    /\ \/ End(s)
       \/ sess[s].pc \in Marking \cup {"insert"} /\ Move(s, "read")
       \/ sess[s].pc = "read" /\ ReadsRow(s, "credit")
       \/ sess[s].pc = "reply" /\ ReadsRow(s, "deduct")
       \/ sess[s].pc = "credit" /\ FallsBack(s)

LEMMA MoveTypes ==
    ASSUME Types, NEW s \in Sessions, Moves(s)
    PROVE  /\ sess' \in [Sessions -> SessionRow]
           /\ \A o \in Sessions \ {s} : sess'[o] = sess[o]
           /\ sess'[s].pc = "idle" => sess'[s] = Idle
           /\ sess'[s].pc \in Paying => sess'[s].x \in Payments
           /\ sess'[s].pc \in Marking => sess'[s].i # NoIntent
           /\ sess'[s].i # NoIntent => sess'[s].pc \in Paying
           /\ sess'[s].pc # "webhookMark"
           /\ sess'[s] = Idle \/ sess'[s].x = sess[s].x
<1>1. /\ sess[s] \in SessionRow /\ account \in Account /\ NoRow \in Account
      /\ sess[s].pc \in Paying => sess[s].x \in Payments
      /\ sess[s].i # NoIntent => sess[s].pc \in Paying
  BY DEF Types, Shape, NoRow, Account
<1>2. ASSUME NEW y \in SessionRow, sess' = [sess EXCEPT ![s] = y]
      PROVE  /\ sess' \in [Sessions -> SessionRow] /\ sess'[s] = y
             /\ \A o \in Sessions \ {s} : sess'[o] = sess[o]
  BY <1>2 DEF Types
<1>3. CASE End(s)
  <2>1. Idle \in SessionRow
    BY <1>1 DEF Idle, SessionRow
  <2>2. sess' = [sess EXCEPT ![s] = Idle]
    BY <1>3 DEF End
  <2>3. Idle.pc = "idle" /\ Idle.i = NoIntent
    BY DEF Idle
  <2> QED
    BY <1>2, <2>1, <2>2, <2>3 DEF Paying, Marking
<1>4. CASE sess[s].pc \in Marking \cup {"insert"} /\ Move(s, "read")
  <2>1. [sess[s] EXCEPT !.pc = "read"] \in SessionRow
    BY <1>1 DEF SessionRow
  <2>2. sess'[s] = [sess[s] EXCEPT !.pc = "read"]
        /\ sess' \in [Sessions -> SessionRow] /\ \A o \in Sessions \ {s} : sess'[o] = sess[o]
    BY <1>2, <1>4, <2>1 DEF Move
  <2> QED
    BY <1>1, <1>4, <2>2 DEF Paying, Marking, SessionRow
<1>5. ASSUME NEW pc \in {"credit", "deduct"}, ReadsRow(s, pc)
      PROVE  /\ sess' \in [Sessions -> SessionRow]
             /\ \A o \in Sessions \ {s} : sess'[o] = sess[o]
             /\ sess'[s] = [sess[s] EXCEPT !.pc = pc, !.read = account]
  BY <1>1, <1>5 DEF SessionRow, Types, ReadsRow
<1>6. CASE sess[s].pc = "read" /\ ReadsRow(s, "credit")
  BY <1>1, <1>5, <1>6 DEF Paying, Marking, SessionRow
<1>7. CASE sess[s].pc = "reply" /\ ReadsRow(s, "deduct")
  BY <1>1, <1>5, <1>7 DEF Paying, Marking, SessionRow
<1>8. CASE sess[s].pc = "credit" /\ FallsBack(s)
  <2>1. [sess[s] EXCEPT !.pc = "insert", !.read = NoRow, !.i = NoIntent] \in SessionRow
    BY <1>1 DEF SessionRow
  <2>2. sess'[s] = [sess[s] EXCEPT !.pc = "insert", !.read = NoRow, !.i = NoIntent]
        /\ sess' \in [Sessions -> SessionRow] /\ \A o \in Sessions \ {s} : sess'[o] = sess[o]
    BY <1>2, <1>8, <2>1 DEF FallsBack
  <2> QED
    BY <1>1, <1>8, <2>2 DEF Paying, Marking, SessionRow
<1> QED
  BY <1>3, <1>4, <1>6, <1>7, <1>8 DEF Moves

(* The only write to an intent confirms it with the payment of a request   *)
(* that marks it.                                                          *)
Confirms(s) == sess[s].pc \in Marking
               /\ intent' = [intent EXCEPT ![sess[s].i] = Confirmed(sess[s].x)]

LEMMA StepMoves ==
    ASSUME Types, NEW s \in Sessions, Step(s) \/ BalanceWriteFails(s) \/ WebhookMarkLost(s)
    PROVE  /\ Moves(s)
           /\ Confirms(s) \/ UNCHANGED intent
           /\ UNCHANGED <<landed, newest, registered, calls, promo>>
<1> USE DEF chain, ledger
<1>1. VerificationFails(s) \/ ReadBalance(s) \/ ReadForDeduction(s) \/ WriteDeduction(s)
      \/ InsertTopup(s) => Moves(s) /\ UNCHANGED intent
  BY DEF VerificationFails, ReadBalance, ReadForDeduction, WriteDeduction, InsertTopup, Moves,
         Marking, ReadsRow
<1>2. CASE WriteCredit(s) \/ BalanceWriteFails(s)
  BY <1>2 DEF WriteCredit, BalanceWriteFails, CreditFails, Moves, FallsBack
<1>3. CASE WebhookMark(s) \/ WebhookMarkLost(s)
  BY <1>3 DEF WebhookMark, WebhookMarkLost, Moves, Marking, Confirms
<1>4. CASE MarkIntent(s)
  <2>1. CASE intent[sess[s].i].status = "pending"
    BY <1>4, <2>1 DEF MarkIntent, Moves, Marking, Confirms
  <2>2. CASE intent[sess[s].i].status # "pending"
    BY <1>4, <2>2 DEF MarkIntent, Moves, Marking, Confirms, Types
  <2> QED
    BY <2>1, <2>2
<1>5. UNCHANGED <<landed, newest, registered, calls, promo>>
  BY DEF Step, VerificationFails, ReadBalance, ReadForDeduction, WriteDeduction, InsertTopup,
         WriteCredit, BalanceWriteFails, WebhookMark, WebhookMarkLost, MarkIntent
<1> QED
  BY <1>1, <1>2, <1>3, <1>4, <1>5 DEF Step

LEMMA StepShape ==
    ASSUME Types, NEW s \in Sessions, Moves(s), UNCHANGED <<landed, newest>>,
           Confirms(s) \/ UNCHANGED intent
    PROVE  intent' \in [Intents -> IntentRow] /\ Shape'
<1>1. /\ \A o \in Sessions \ {s} : sess'[o] = sess[o]
      /\ sess'[s].pc = "idle" => sess'[s] = Idle
      /\ sess'[s].pc \in Paying => sess'[s].x \in Payments
      /\ sess'[s].pc \in Marking => sess'[s].i # NoIntent
      /\ sess'[s].i # NoIntent => sess'[s].pc \in Paying
      /\ sess'[s].pc # "webhookMark"
  BY MoveTypes
<1>2. CASE UNCHANGED intent
  BY <1>1, <1>2 DEF Types, Shape
<1>3. CASE Confirms(s)
  <2>1. PICK i \in Intents, x \in Payments : i = sess[s].i /\ x = sess[s].x
    BY <1>3, TopupAssumption DEF Confirms, Types, Shape, SessionRow, Marking, Paying
  <2>2. intent' = [intent EXCEPT ![i] = Confirmed(x)]
    BY <1>3, <2>1 DEF Confirms
  <2>3. intent' \in [Intents -> IntentRow] /\ intent'[i] = Confirmed(x)
        /\ \A j \in Intents \ {i} : intent'[j] = intent[j]
    BY <2>2 DEF Types, IntentRow, Confirmed
  <2>4. Confirmed(x).status = "confirmed" /\ Confirmed(x).tx = x /\ x # NoPayment
    BY TopupAssumption DEF Confirmed
  <2>5. \A y \in landed : IntentOf[y] # NoIntent => IntentOf[y] \in Intents
    BY TopupAssumption DEF Types
  <2> QED
    BY <1>1, <2>1, <2>3, <2>4, <2>5 DEF Types, Shape
<1> QED
  BY <1>2, <1>3

(* A payment goes astray by its record, and stays so.                      *)
LEMMA StepAstray ==
    ASSUME Types, NEW s \in Sessions, Step(s) \/ BalanceWriteFails(s) \/ WebhookMarkLost(s)
    PROVE  astray \subseteq astray' /\ astray' \subseteq Payments
<1>1. astray \subseteq Payments /\ (sess[s].pc \in Paying => sess[s].x \in Payments)
  BY DEF Types, Shape
<1>2. CASE MarkIntent(s) \/ InsertTopup(s)
  BY <1>1, <1>2 DEF MarkIntent, InsertTopup, Recorded, Paying
<1>3. CASE ~(MarkIntent(s) \/ InsertTopup(s))
  <2>1. astray' = astray
    BY <1>3 DEF Step, VerificationFails, WebhookMark, ReadBalance, WriteCredit,
       ReadForDeduction, WriteDeduction, BalanceWriteFails, WebhookMarkLost
  <2> QED
    BY <1>1, <2>1
<1> QED
  BY <1>2, <1>3

LEMMA StepTypes ==
    ASSUME Types, NEW s \in Sessions, Step(s) \/ BalanceWriteFails(s) \/ WebhookMarkLost(s)
    PROVE  Types'
<1> USE DEF chain, ledger
<1>1. sess' \in [Sessions -> SessionRow] /\ intent' \in [Intents -> IntentRow] /\ Shape'
      /\ UNCHANGED <<landed, newest, registered, calls, promo>> /\ astray' \subseteq Payments
  BY StepMoves, StepShape, MoveTypes, StepAstray
<1>2. /\ sess[s] \in SessionRow /\ sess[s].read \in Account /\ sess[s].read.bal \in Nat
      /\ sess[s].read.dep \in Nat /\ sess[s].read.spent \in Nat
      /\ account \in Account /\ account.spent \in Nat
      /\ sess[s].pc \in Paying => sess[s].x \in Payments
  BY DEF Types, Shape, SessionRow, Account
<1>3. CASE WriteCredit(s)
  <2>1. account' \in Account /\ credits' \in [Payments -> Nat]
    <3>1. CASE ~sess[s].read.row /\ account.row /\ CreditFails(s)
      BY <3>1 DEF CreditFails, Types
    <3>2. CASE account' = [row |-> TRUE, bal |-> sess[s].read.bal + 1, dep |-> sess[s].read.dep + 1,
                           spent |-> IF sess[s].read.row THEN account.spent ELSE 0]
               /\ credits' = [credits EXCEPT ![sess[s].x] = @ + 1]
      <4>1. account' \in Account
        BY <1>2, <3>2 DEF Account
      <4>2. PICK x \in Payments : sess[s].x = x /\ credits[x] \in Nat
        BY <1>2, <1>3 DEF WriteCredit, Paying, Types
      <4>3. credits' = [credits EXCEPT ![x] = credits[x] + 1]
        BY <3>2, <4>2
      <4> QED
        BY <4>1, <4>2, <4>3 DEF Types
    <3> QED
      BY <1>3, <3>1, <3>2 DEF WriteCredit
  <2>2. dropped' \subseteq Payments
    BY <1>2, <1>3 DEF WriteCredit, CreditFails, Types, Paying
  <2>3. UNCHANGED <<direct, faults, debits, unpaid, exposed, clash>>
    BY <1>3 DEF WriteCredit
  <2> QED
    BY <1>1, <2>1, <2>2, <2>3 DEF Types
<1>4. CASE WriteDeduction(s)
  <2>1. account' \in Account
    <3>1. account' = [account EXCEPT !.bal = IF sess[s].read.bal >= 1 THEN sess[s].read.bal - 1 ELSE 0,
                                     !.spent = sess[s].read.spent + 1]
      BY <1>4 DEF WriteDeduction
    <3>2. (IF sess[s].read.bal >= 1 THEN sess[s].read.bal - 1 ELSE 0) \in Nat
          /\ sess[s].read.spent + 1 \in Nat
      BY <1>2
    <3> QED
      BY <1>2, <3>1, <3>2 DEF Account
  <2>2. debits' \in Nat /\ unpaid' \in Nat
    BY <1>4 DEF WriteDeduction, Types
  <2> QED
    BY <1>1, <1>4, <2>1, <2>2 DEF WriteDeduction, Types
<1>5. CASE InsertTopup(s)
  <2>1. direct' \subseteq Payments
    BY <1>2, <1>5 DEF InsertTopup, Paying, Types
  <2>2. UNCHANGED <<account, faults, credits, debits, unpaid, exposed, dropped, clash>>
    BY <1>5 DEF InsertTopup
  <2> QED
    BY <1>1, <2>1, <2>2 DEF Types
<1>6. CASE VerificationFails(s) \/ MarkIntent(s) \/ WebhookMark(s)
  <2>1. UNCHANGED <<direct, account, faults, credits, debits, unpaid, exposed, dropped, clash>>
    BY <1>6 DEF VerificationFails, MarkIntent, WebhookMark
  <2> QED
    BY <1>1, <2>1 DEF Types
<1>7. CASE ReadBalance(s) \/ ReadForDeduction(s)
  <2>1. UNCHANGED <<direct, account, faults, credits, debits, unpaid, exposed, dropped>>
        /\ clash' = (clash \/ Writing)
    BY <1>7 DEF ReadBalance, ReadForDeduction
  <2>2. clash' \in BOOLEAN
    BY <2>1 DEF Types
  <2> QED
    BY <1>1, <2>1, <2>2 DEF Types
<1>8. CASE BalanceWriteFails(s) \/ WebhookMarkLost(s)
  <2>1. exposed' \subseteq Payments /\ dropped' \subseteq Payments
    BY <1>2, <1>8 DEF BalanceWriteFails, WebhookMarkLost, CreditFails, Paying, Types
  <2>2. UNCHANGED <<direct, account, credits, debits, unpaid, clash>>
    BY <1>8 DEF BalanceWriteFails, WebhookMarkLost, CreditFails
  <2>3. faults' \in 0..MaxFaults
    BY <1>8, TopupAssumption DEF BalanceWriteFails, WebhookMarkLost, Fault, Types
  <2> QED
    BY <1>1, <2>1, <2>2, <2>3 DEF Types
<1> QED
  BY <1>3, <1>4, <1>5, <1>6, <1>7, <1>8 DEF Step

LEMMA WalletTypes ==
    ASSUME Types, \/ Register \/ Crash
                  \/ \E i \in Intents : CreateIntent(i)
                  \/ \E x \in Payments : Pay(x)
    PROVE  Types'
<1> USE DEF chain, ledger
<1>1. CASE Register
  <2>1. [row |-> TRUE, bal |-> 1, dep |-> 1, spent |-> 0] \in Account
    BY DEF Account
  <2> QED
    BY <1>1, <2>1 DEF Register, Types, Shape
<1>2. CASE \E i \in Intents : CreateIntent(i)
  <2>1. PICK i \in Intents : CreateIntent(i)
    BY <1>2
  <2>2. intent[i] \in IntentRow /\ intent[i].tx = NoPayment
    BY <2>1 DEF CreateIntent, Types, Shape
  <2>3. intent' = [intent EXCEPT ![i] = [intent[i] EXCEPT !.status = "pending"]]
    BY <2>1 DEF CreateIntent
  <2>4. intent' \in [Intents -> IntentRow] /\ intent'[i].status = "pending" /\ intent'[i].tx = NoPayment
        /\ \A j \in Intents \ {i} : intent'[j] = intent[j]
    BY <2>2, <2>3 DEF Types, IntentRow
  <2>5. Shape'
    BY <2>1, <2>4, TopupAssumption DEF CreateIntent, Types, Shape
  <2> QED
    BY <2>1, <2>4, <2>5 DEF CreateIntent, Types
<1>3. CASE \E x \in Payments : Pay(x)
  <2>1. PICK x \in Payments : Pay(x)
    BY <1>3
  <2>2. newest' \in [Intents -> Payments \cup {NoPayment}]
    <3>1. CASE IntentOf[x] # NoIntent
      BY <2>1, <3>1, TopupAssumption DEF Pay, Types
    <3>2. CASE IntentOf[x] = NoIntent
      BY <2>1, <3>2 DEF Pay, Types
    <3> QED
      BY <3>1, <3>2
  <2>3. Shape'
    BY <2>1, <2>2 DEF Pay, Types, Shape
  <2> QED
    BY <2>1, <2>2, <2>3 DEF Pay, Types
<1>4. CASE Crash
  <2>1. Idle \in SessionRow /\ Idle.pc = "idle" /\ Idle.i = NoIntent
    BY DEF Idle, SessionRow, NoRow, Account
  <2>2. sess' \in [Sessions -> SessionRow] /\ \A s \in Sessions : sess'[s] = Idle
    BY <1>4, <2>1 DEF Crash
  <2>3. dropped' \subseteq Payments
    BY <1>4 DEF Crash, Types, Shape, Paying
  <2>4. faults' \in 0..MaxFaults
    BY <1>4, TopupAssumption DEF Crash, Fault, Types
  <2>5. Shape'
    BY <1>4, <2>1, <2>2 DEF Crash, Types, Shape, Paying, Marking
  <2>6. UNCHANGED <<chain, intent, direct, account, registered, calls, ledger, exposed, astray,
                   clash>>
    BY <1>4 DEF Crash
  <2> QED
    BY <2>2, <2>3, <2>4, <2>5, <2>6 DEF Types
<1> QED
  BY <1>1, <1>2, <1>3, <1>4

LEMMA TypesStep == Types /\ [Next]_vars => Types'
<1> SUFFICES ASSUME Types, [Next]_vars PROVE Types'
  OBVIOUS
<1>1. CASE \E s \in Sessions : Asks(s)
  <2>1. PICK s \in Sessions : LetIn(s)
    BY <1>1, AskIsAdmitted
  <2> QED
    BY <2>1, StartTypes DEF LetIn
<1>2. CASE UNCHANGED vars
  BY <1>2 DEF vars, chain, ledger, Types, Shape
<1> QED
  BY <1>1, <1>2, StepTypes, WalletTypes DEF Next, Faults, Asks

(* What the tables and the requests hold keeps its type; the balance is    *)
(* never negative (Math.max in the deduction).                             *)
THEOREM TopupTyping == Spec => []TypeOK
<1>1. Spec => []Types
  BY TypesInit, TypesStep, PTL DEF Spec
<1> QED
  BY <1>1, TypesAreTypes, PTL

(***************************************************************************)
(* What is on record was credited, is about to be, or lost its credit.     *)
(***************************************************************************)
Covered(x) == credits[x] > 0 \/ (\E s \in Sessions : Crediting(s, x)) \/ x \in dropped

RecordedInv == \A x \in Payments : OnRecord(x) => Covered(x)

(* A step of request s moves no other request.                             *)
LEMMA OthersKept ==
    ASSUME Types, NEW s \in Sessions,
           Asks(s) \/ Step(s) \/ BalanceWriteFails(s) \/ WebhookMarkLost(s)
    PROVE  \A o \in Sessions \ {s} : sess'[o] = sess[o]
<1>1. CASE Asks(s)
  <2>1. LetIn(s)
    BY <1>1, AskIsAdmitted
  <2> QED
    BY <2>1, StartRow DEF LetIn
<1> QED
  BY <1>1, StepMoves, MoveTypes

(* A payment once covered stays so: its credit is made or cut short.       *)
LEMMA CoverStays ==
    ASSUME Types, [Next]_vars, NEW x \in Payments, Covered(x)
    PROVE  Covered(x)'
<1> USE DEF chain, ledger
<1>1. /\ credits \in [Payments -> Nat] /\ sess \in [Sessions -> SessionRow]
      /\ \A s \in Sessions : sess[s].pc \in AtWork => sess[s].x \in Payments
      /\ \A s \in Sessions : sess[s].pc \in AtWork => sess[s] # Idle
  BY DEF Types, Shape, AtWork, Paying, Idle
<1>2. ASSUME NEW s \in Sessions, Asks(s)
      PROVE  Covered(x)'
  <2>1. LetIn(s)
    BY <1>2, AskIsAdmitted
  <2>2. sess[s] = Idle /\ UNCHANGED <<credits, dropped>>
    BY <2>1 DEF LetIn, Admitted, Start
  <2> QED
    BY <1>1, <1>2, <2>2, OthersKept DEF Covered, Crediting
<1>3. ASSUME NEW s \in Sessions, Step(s) \/ BalanceWriteFails(s) \/ WebhookMarkLost(s)
      PROVE  Covered(x)'
  <2>1. credits'[x] >= credits[x] /\ dropped \subseteq dropped'
    BY <1>1, <1>3 DEF Step, VerificationFails, MarkIntent, WebhookMark, InsertTopup, ReadBalance,
       WriteCredit, CreditFails, ReadForDeduction, WriteDeduction, BalanceWriteFails, WebhookMarkLost,
       AtWork
  <2>2. ASSUME Crediting(s, x) PROVE Covered(x)'
    <3>1. CASE ReadBalance(s)
      <4>1. sess'[s].pc = "credit" /\ sess'[s].x = sess[s].x
        BY <1>1, <3>1 DEF ReadBalance, SessionRow
      <4> QED
        BY <2>2, <4>1 DEF Covered, Crediting, AtWork
    <3>2. CASE WriteCredit(s) \/ BalanceWriteFails(s)
      BY <1>1, <2>2, <3>2 DEF WriteCredit, BalanceWriteFails, CreditFails, Covered, Crediting
    <3> QED
      BY <1>3, <2>2, <3>1, <3>2 DEF Step, VerificationFails, MarkIntent, WebhookMark, InsertTopup,
         ReadForDeduction, WriteDeduction, WebhookMarkLost, Crediting, AtWork
  <2>3. CASE credits[x] > 0 \/ x \in dropped
    <3>1. credits'[x] \in Nat /\ credits[x] \in Nat
      BY <1>3, StepTypes DEF Types
    <3> QED
      BY <2>1, <2>3, <3>1 DEF Covered
  <2>4. ASSUME NEW o \in Sessions \ {s}, Crediting(o, x) PROVE Covered(x)'
    BY <1>3, <2>4, OthersKept DEF Covered, Crediting
  <2> QED
    BY <2>2, <2>3, <2>4 DEF Covered
<1>4. CASE Crash
  BY <1>1, <1>4 DEF Crash, Covered, Crediting, AtWork
<1>5. CASE \/ Register \/ UNCHANGED vars
           \/ \E i \in Intents : CreateIntent(i)
           \/ \E y \in Payments : Pay(y)
  BY <1>5 DEF Register, CreateIntent, Pay, vars, Covered, Crediting
<1> QED
  BY <1>2, <1>3, <1>4, <1>5 DEF Next, Faults, Asks

(* Whoever puts a payment on record goes on to credit it.                  *)
LEMMA RecordedByCrediting ==
    ASSUME Types, [Next]_vars, NEW x \in Payments, OnRecord(x)', ~OnRecord(x)
    PROVE  \E s \in Sessions :
              /\ InsertTopup(s) \/ MarkIntent(s) \/ WebhookMark(s)
              /\ sess[s].x = x /\ Crediting(s, x)'
<1> USE DEF chain, ledger
<1>1. CASE \E s \in Sessions : InsertTopup(s) \/ MarkIntent(s) \/ WebhookMark(s)
  <2>1. PICK s \in Sessions : InsertTopup(s) \/ MarkIntent(s) \/ WebhookMark(s)
    BY <1>1
  <2>2. (sess[s].pc \in Marking \/ sess[s].pc = "insert") /\ sess[s] \in SessionRow
    BY <2>1 DEF InsertTopup, MarkIntent, WebhookMark, Marking, Types
  <2>3. Move(s, "read") => Crediting(s, sess[s].x)' /\ sess'[s].x = sess[s].x
    BY <2>2 DEF Move, Crediting, AtWork, SessionRow, Types
  <2>4. CASE InsertTopup(s)
    BY <2>1, <2>3, <2>4 DEF InsertTopup, OnRecord, Crediting
  <2>5. CASE MarkIntent(s) \/ WebhookMark(s)
    <3>1. CASE UNCHANGED intent
      BY <2>5, <3>1 DEF MarkIntent, WebhookMark, OnRecord
    <3>2. CASE ~UNCHANGED intent
      <4>1. Confirms(s) /\ Move(s, "read") /\ UNCHANGED direct
        BY <2>5, <3>2, StepMoves DEF MarkIntent, WebhookMark, Step
      <4>2. sess[s].x = x
        BY <4>1 DEF Confirms, Confirmed, OnRecord, Types
      <4> QED
        BY <2>1, <2>3, <4>1, <4>2
    <3> QED
      BY <3>1, <3>2
  <2> QED
    BY <2>1, <2>4, <2>5
<1>2. CASE ~\E s \in Sessions : InsertTopup(s) \/ MarkIntent(s) \/ WebhookMark(s)
  <2>1. direct' = direct /\ \A i \in Intents : intent'[i].tx = intent[i].tx
    <3>1. CASE \E i \in Intents : CreateIntent(i)
      BY <3>1 DEF CreateIntent, Types, IntentRow
    <3>2. CASE \E s \in Sessions : Asks(s)
      <4>1. PICK s \in Sessions : LetIn(s)
        BY <3>2, AskIsAdmitted
      <4> QED
        BY <4>1 DEF LetIn, Admitted, Start
    <3>3. CASE \E s \in Sessions : Step(s) \/ BalanceWriteFails(s) \/ WebhookMarkLost(s)
      BY <1>2, <3>3 DEF Step, VerificationFails, ReadBalance, WriteCredit, ReadForDeduction,
         WriteDeduction, BalanceWriteFails, WebhookMarkLost
    <3>4. CASE Register \/ Crash \/ UNCHANGED vars \/ \E y \in Payments : Pay(y)
      BY <3>4 DEF Register, Crash, vars, Pay
    <3> QED
      BY <3>1, <3>2, <3>3, <3>4 DEF Next, Faults, Asks
  <2> QED
    BY <2>1 DEF OnRecord
<1> QED
  BY <1>1, <1>2

LEMMA RecordedStep == Types /\ RecordedInv /\ [Next]_vars => RecordedInv'
BY CoverStays, RecordedByCrediting DEF RecordedInv, Covered

(* A payment on record has been added to the balance, is about to be, or   *)
(* lost its credit to a crash or an error in between.                      *)
THEOREM RecordedMeansCredited == Spec => []RecordedIsCredited
<1>1. Init => RecordedInv
  BY TopupAssumption DEF Init, RecordedInv, OnRecord
<1>2. Spec => [](Types /\ RecordedInv)
  BY <1>1, TypesInit, TypesStep, RecordedStep, PTL DEF Spec
<1>3. Types /\ RecordedInv => RecordedIsCredited
  BY DEF RecordedIsCredited, RecordedInv, OnRecord, Covered, Crediting, AtWork, Types, IntentRow
<1> QED
  BY <1>2, <1>3, PTL

(***************************************************************************)
(* The balance is backed by what was given.                                *)
(***************************************************************************)
LEMMA DepositsGrow ==
    ASSUME credits \in [Payments -> Nat], NEW x \in Payments,
           credits' = [credits EXCEPT ![x] = @ + 1]
    PROVE  /\ Deposits' = Deposits \cup {<<x, credits[x] + 1>>}
           /\ <<x, credits[x] + 1>> \notin Deposits
<1>1. /\ \A y \in Payments : credits[y] \in Nat /\ (y # x => credits'[y] = credits[y])
      /\ credits'[x] = credits[x] + 1
  OBVIOUS
<1>2. 1..(credits[x] + 1) = (1..credits[x]) \cup {credits[x] + 1}
  BY <1>1
<1>3. \A d : d \in Deposits <=> \E y \in Payments : \E k \in 1..credits[y] : d = <<y, k>>
  BY DEF Deposits
<1>4. \A d : d \in Deposits' <=> \E y \in Payments : \E k \in 1..credits'[y] : d = <<y, k>>
  BY DEF Deposits
<1>5. ASSUME NEW d, d \in Deposits' PROVE d \in Deposits \cup {<<x, credits[x] + 1>>}
  <2>1. PICK y \in Payments : \E k \in 1..credits'[y] : d = <<y, k>>
    BY <1>4, <1>5
  <2>2. CASE y = x
    BY <1>1, <1>2, <1>3, <2>1, <2>2
  <2>3. CASE y # x
    BY <1>1, <1>3, <2>1, <2>3
  <2> QED
    BY <2>2, <2>3
<1>6. ASSUME NEW d, d \in Deposits \cup {<<x, credits[x] + 1>>} PROVE d \in Deposits'
  <2>1. CASE d = <<x, credits[x] + 1>>
    <3>1. credits[x] + 1 \in 1..credits'[x]
      BY <1>1
    <3> QED
      BY <1>4, <2>1, <3>1
  <2>2. CASE d \in Deposits
    <3>1. PICK y \in Payments : \E k \in 1..credits[y] : d = <<y, k>>
      BY <1>3, <2>2
    <3>2. 1..credits[y] \subseteq 1..credits'[y]
      BY <1>1, <1>2
    <3> QED
      BY <1>4, <3>1, <3>2
  <2> QED
    BY <1>6, <2>1, <2>2
<1>7. <<x, credits[x] + 1>> \notin Deposits
  <2> SUFFICES ASSUME <<x, credits[x] + 1>> \in Deposits PROVE FALSE
    OBVIOUS
  <2>1. PICK y \in Payments : \E k \in 1..credits[y] : <<x, credits[x] + 1>> = <<y, k>>
    BY <1>3
  <2> QED
    BY <1>1, <2>1
<1> QED
  BY <1>5, <1>6, <1>7

LEMMA GivenIsNat == ASSUME Types, IsFiniteSet(Deposits) PROVE Given \in Nat
BY FS_CardinalityType DEF Given, Types

LEMMA GivenGrows ==
    ASSUME Types, IsFiniteSet(Deposits), NEW x \in Payments, UNCHANGED promo,
           credits' = [credits EXCEPT ![x] = @ + 1]
    PROVE  IsFiniteSet(Deposits)' /\ Given' = Given + 1
<1>1. /\ Deposits' = Deposits \cup {<<x, credits[x] + 1>>}
      /\ <<x, credits[x] + 1>> \notin Deposits
  BY DepositsGrow DEF Types
<1>2. IsFiniteSet(Deposits') /\ Cardinality(Deposits') = Cardinality(Deposits) + 1
  BY <1>1, FS_AddElement
<1>3. Cardinality(Deposits) \in Nat /\ promo \in Nat
  BY FS_CardinalityType DEF Types
<1> QED
  BY <1>2, <1>3 DEF Given

LEMMA GivenOtherwise ==
    ASSUME Types, IsFiniteSet(Deposits), UNCHANGED credits
    PROVE  /\ IsFiniteSet(Deposits)'
           /\ UNCHANGED promo => Given' = Given
           /\ Register => Given' = Given + 1
<1>1. Deposits' = Deposits /\ Cardinality(Deposits) \in Nat
  BY FS_CardinalityType DEF Deposits
<1>2. Register => promo = 0 /\ promo' = 1
  BY DEF Register, Types
<1> QED
  BY <1>1, <1>2 DEF Given

(* A request reads the row as it is, or drops what it has read.            *)
LEMMA ReadsAre ==
    ASSUME Types, [Next]_vars, NEW o \in Sessions
    PROVE  sess'[o].read \in {sess[o].read, account, NoRow}
<1>1. Idle.read = NoRow
  BY DEF Idle
<1>2. ASSUME NEW s \in Sessions, Asks(s)
      PROVE  sess'[o].read \in {sess[o].read, account, NoRow}
  <2>1. LetIn(s)
    BY <1>2, AskIsAdmitted
  <2> QED
    BY <2>1, StartRow DEF LetIn
<1>3. ASSUME NEW s \in Sessions, Step(s) \/ BalanceWriteFails(s) \/ WebhookMarkLost(s)
      PROVE  sess'[o].read \in {sess[o].read, account, NoRow}
  <2>1. CASE o = s
    <3>1. Moves(s) /\ sess[s] \in SessionRow /\ sess \in [Sessions -> SessionRow]
      BY <1>3, StepMoves DEF Types
    <3>2. End(s) => sess'[s].read = NoRow
      BY <1>1, <3>1 DEF End
    <3>3. Move(s, "read") => sess'[s].read = sess[s].read
      BY <3>1 DEF Move, SessionRow
    <3>4. \A pc : ReadsRow(s, pc) => sess'[s].read = account
      BY <3>1 DEF ReadsRow, SessionRow
    <3>5. FallsBack(s) => sess'[s].read = NoRow
      BY <3>1 DEF FallsBack, SessionRow
    <3> QED
      BY <2>1, <3>1, <3>2, <3>3, <3>4, <3>5 DEF Moves
  <2> QED
    BY <1>3, <2>1, OthersKept
<1>4. CASE Crash
  BY <1>1, <1>4 DEF Crash
<1>5. CASE \/ Register \/ UNCHANGED vars
           \/ \E i \in Intents : CreateIntent(i)
           \/ \E y \in Payments : Pay(y)
  BY <1>5 DEF Register, CreateIntent, Pay, vars
<1> QED
  BY <1>2, <1>3, <1>4, <1>5 DEF Next, Faults, Asks

(* The steps that write the balance; all others leave the row and what was *)
(* given as they are.                                                      *)
CreditLands(s) ==
    /\ sess[s].pc = "credit"
    /\ sess[s].read.row \/ ~account.row
    /\ account' = [row |-> TRUE, bal |-> sess[s].read.bal + 1, dep |-> sess[s].read.dep + 1,
                   spent |-> IF sess[s].read.row THEN account.spent ELSE 0]
    /\ credits' = [credits EXCEPT ![sess[s].x] = @ + 1]
    /\ End(s)
    /\ UNCHANGED <<intent, direct, debits, unpaid, promo, exposed, dropped, clash>>

LEMMA BalanceWriters ==
    ASSUME Types, [Next]_vars
    PROVE  \/ Register
           \/ \E s \in Sessions : CreditLands(s) \/ WriteDeduction(s)
           \/ UNCHANGED <<account, credits, debits, unpaid, promo>>
<1> USE DEF chain, ledger
<1>1. ASSUME NEW s \in Sessions, Asks(s)
      PROVE  UNCHANGED <<account, credits, debits, unpaid, promo>>
  <2>1. LetIn(s)
    BY <1>1, AskIsAdmitted
  <2> QED
    BY <2>1 DEF LetIn, Admitted, Start
<1>2. ASSUME NEW s \in Sessions, WriteCredit(s)
      PROVE  CreditLands(s) \/ UNCHANGED <<account, credits, debits, unpaid, promo>>
  BY <1>2 DEF WriteCredit, CreditFails, CreditLands
<1>3. ASSUME NEW s \in Sessions, Step(s) \/ BalanceWriteFails(s) \/ WebhookMarkLost(s),
             ~WriteCredit(s), ~WriteDeduction(s)
      PROVE  UNCHANGED <<account, credits, debits, unpaid, promo>>
  BY <1>3 DEF Step, VerificationFails, MarkIntent, WebhookMark, InsertTopup, ReadBalance,
     ReadForDeduction, BalanceWriteFails, CreditFails, WebhookMarkLost
<1>4. CASE \/ Crash \/ UNCHANGED vars
           \/ \E i \in Intents : CreateIntent(i)
           \/ \E y \in Payments : Pay(y)
  BY <1>4 DEF Crash, CreateIntent, Pay, vars
<1> QED
  BY <1>1, <1>2, <1>3, <1>4 DEF Next, Faults, Asks

LEMMA BackedStep == Types /\ BackedInv /\ [Next]_vars => BackedInv'
<1> SUFFICES ASSUME Types, BackedInv, [Next]_vars PROVE BackedInv'
  OBVIOUS
<1> DEFINE Fits(a) == a.bal <= Given /\ a.dep <= Given
<1>1. /\ IsFiniteSet(Deposits) /\ Given \in Nat /\ account \in Account
      /\ \A s \in Sessions : sess[s].read \in Account
  BY GivenIsNat DEF BackedInv, Types, SessionRow
<1>2. \A a \in Account : a.bal \in Nat /\ a.dep \in Nat
  BY DEF Account
<1>3. NoRow \in Account /\ Fits(NoRow)
  BY <1>1 DEF NoRow, Account
<1>4. Fits(account) /\ \A s \in Sessions : Fits(sess[s].read)
  BY DEF BackedInv, BalanceBacked
<1> DEFINE Grown == /\ IsFiniteSet(Deposits)' /\ Given' \in Nat /\ Given' >= Given
                    /\ account'.bal <= Given' /\ account'.dep <= Given'
<1>5. Grown
  <2>1. CASE Register
    <3>1. IsFiniteSet(Deposits)' /\ Given' = Given + 1
      BY <1>1, <2>1, GivenOtherwise DEF Register, chain
    <3>2. account'.bal = 1 /\ account'.dep = 1
      BY <2>1 DEF Register
    <3> QED
      BY <1>1, <3>1, <3>2
  <2>2. ASSUME NEW s \in Sessions, CreditLands(s)
        PROVE  Grown
    <3>1. sess[s].x \in Payments
      BY <2>2 DEF CreditLands, Types, Shape, Paying
    <3>2. IsFiniteSet(Deposits)' /\ Given' = Given + 1
      BY <1>1, <2>2, <3>1, GivenGrows DEF CreditLands
    <3>3. account'.bal = sess[s].read.bal + 1 /\ account'.dep = sess[s].read.dep + 1
      BY <2>2 DEF CreditLands
    <3> QED
      BY <1>1, <1>2, <1>4, <3>2, <3>3
  <2>3. ASSUME NEW s \in Sessions, WriteDeduction(s)
        PROVE  Grown
    <3>1. IsFiniteSet(Deposits)' /\ Given' = Given
      BY <1>1, <2>3, GivenOtherwise DEF WriteDeduction
    <3>2. /\ account'.bal = IF sess[s].read.bal >= 1 THEN sess[s].read.bal - 1 ELSE 0
          /\ account'.dep = account.dep
      BY <1>1, <2>3 DEF WriteDeduction, Account
    <3> QED
      BY <1>1, <1>2, <1>4, <3>1, <3>2
  <2>4. CASE UNCHANGED <<account, credits, debits, unpaid, promo>>
    <3>1. IsFiniteSet(Deposits)' /\ Given' = Given /\ account' = account
      BY <1>1, <2>4, GivenOtherwise
    <3> QED
      BY <1>1, <1>4, <3>1
  <2> QED
    BY <2>1, <2>2, <2>3, <2>4, BalanceWriters
<1>6. ASSUME NEW s \in Sessions PROVE sess'[s].read.bal <= Given' /\ sess'[s].read.dep <= Given'
  <2>1. PICK a \in {sess[s].read, account, NoRow} : sess'[s].read = a
    BY ReadsAre
  <2>2. a \in Account /\ Fits(a)
    BY <1>1, <1>3, <1>4, <2>1
  <2> QED
    BY <1>1, <1>2, <1>5, <2>1, <2>2
<1> QED
  BY <1>5, <1>6 DEF BackedInv, BalanceBacked

LEMMA BackedInit == Init => BackedInv
<1> SUFFICES ASSUME Init PROVE BackedInv
  OBVIOUS
<1>1. Deposits = {}
  BY DEF Init, Deposits
<1>2. IsFiniteSet(Deposits) /\ Given = 0
  BY <1>1, FS_EmptySet DEF Given, Init
<1> QED
  BY <1>2 DEF Init, BackedInv, BalanceBacked, Idle, NoRow

(* No interleaving of credits, deductions and crashes shows more money     *)
(* than was credited: an update may be lost, never made up.                *)
THEOREM MoneyIsNeverMadeUp == Spec => []BalanceBacked
<1>1. Spec => [](Types /\ BackedInv)
  BY TypesInit, TypesStep, BackedInit, BackedStep, PTL DEF Spec
<1> QED
  BY <1>1, PTL DEF BackedInv

(***************************************************************************)
(* Without overlapping writes the balance is exact.                        *)
(***************************************************************************)

LEMMA NextStage ==
    ASSUME Types, NEW s \in Sessions
    PROVE  /\ End(s) => sess'[s].pc = "idle"
           /\ Move(s, "read") => sess'[s].pc = "read"
           /\ ReadsRow(s, "credit") => sess'[s].pc = "credit"
           /\ ReadsRow(s, "deduct") => sess'[s].pc = "deduct"
           /\ FallsBack(s) => sess'[s].pc = "insert"
<1>1. sess \in [Sessions -> SessionRow] /\ sess[s] \in SessionRow
  BY DEF Types
<1>2. End(s) => sess'[s].pc = "idle"
  BY <1>1 DEF End, Idle
<1>3. Move(s, "read") => sess'[s].pc = "read"
  BY <1>1 DEF Move, SessionRow
<1>4. /\ ReadsRow(s, "credit") => sess'[s].pc = "credit"
      /\ ReadsRow(s, "deduct") => sess'[s].pc = "deduct"
  BY <1>1 DEF ReadsRow, SessionRow
<1>5. FallsBack(s) => sess'[s].pc = "insert"
  BY <1>1 DEF FallsBack, SessionRow
<1> QED
  BY <1>2, <1>3, <1>4, <1>5

(* The requests that hold the balance after a step held it before, with    *)
(* what they had read, or have just read it.                               *)
LEMMA HoldersAre ==
    ASSUME Types, [Next]_vars, NEW o \in Sessions, Holding(o)'
    PROVE  (Holding(o) /\ sess'[o] = sess[o]) \/ ReadBalance(o) \/ ReadForDeduction(o)
<1>1. sess \in [Sessions -> SessionRow]
  BY DEF Types
<1>2. ASSUME NEW s \in Sessions, Asks(s)
      PROVE  Holding(o) /\ sess'[o] = sess[o]
  <2>1. LetIn(s)
    BY <1>2, AskIsAdmitted
  <2>2. sess'[s].pc \in {"mark", "webhookMark", "insert", "reply"}
    BY <2>1, StartRow DEF LetIn
  <2> QED
    BY <1>2, <2>2, OthersKept DEF Holding
<1>3. ASSUME NEW s \in Sessions, Step(s) \/ BalanceWriteFails(s) \/ WebhookMarkLost(s)
      PROVE  (Holding(o) /\ sess'[o] = sess[o]) \/ ReadBalance(o) \/ ReadForDeduction(o)
  <2>1. CASE sess[s].pc \in {"read", "reply"}
    <3>1. ReadBalance(s) \/ ReadForDeduction(s)
      BY <1>3, <2>1 DEF Step, VerificationFails, MarkIntent, WebhookMark, InsertTopup, WriteCredit,
         WriteDeduction, BalanceWriteFails, WebhookMarkLost
    <3> QED
      BY <1>3, <3>1, OthersKept DEF Holding
  <2>2. CASE sess[s].pc \notin {"read", "reply"}
    <3>1. End(s) \/ Move(s, "read") \/ FallsBack(s)
      BY <1>3, <2>2, StepMoves DEF Moves
    <3>2. sess'[s].pc \in {"idle", "read", "insert"}
      BY <3>1, NextStage
    <3> QED
      BY <1>3, <3>2, OthersKept DEF Holding
  <2> QED
    BY <2>1, <2>2
<1>4. CASE Crash
  BY <1>4 DEF Crash, Holding, Idle
<1>5. CASE \/ Register \/ UNCHANGED vars
           \/ \E i \in Intents : CreateIntent(i)
           \/ \E y \in Payments : Pay(y)
  BY <1>5 DEF Register, CreateIntent, Pay, vars, Holding
<1> QED
  BY <1>2, <1>3, <1>4, <1>5 DEF Next, Faults, Asks

(* A reply under way was under way, or has found a balance.                *)
Replying(s) == sess[s].pc \in {"reply", "deduct"}

LEMMA RepliesAre ==
    ASSUME Types, [Next]_vars, NEW o \in Sessions, Replying(o)'
    PROVE  Replying(o) \/ account.bal >= 1
<1>1. sess \in [Sessions -> SessionRow]
  BY DEF Types
<1>2. ASSUME NEW s \in Sessions, Asks(s)
      PROVE  Replying(o) \/ account.bal >= 1
  <2>1. LetIn(s)
    BY <1>2, AskIsAdmitted
  <2>2. sess'[s].pc \in {"reply", "deduct"} => account.bal >= 1
    BY <2>1, StartRow DEF LetIn, Admitted, Marking
  <2> QED
    BY <1>2, <2>2, OthersKept DEF Replying
<1>3. ASSUME NEW s \in Sessions, Step(s) \/ BalanceWriteFails(s) \/ WebhookMarkLost(s)
      PROVE  Replying(o)
  <2>1. End(s) \/ Move(s, "read") \/ FallsBack(s) \/ ReadsRow(s, "credit") \/ sess[s].pc = "reply"
    BY <1>3, StepMoves DEF Moves
  <2>2. sess'[s].pc \in {"idle", "read", "insert", "credit"} \/ sess[s].pc = "reply"
    BY <2>1, NextStage
  <2> QED
    BY <1>3, <2>2, OthersKept DEF Replying
<1>4. CASE Crash
  BY <1>4 DEF Crash, Replying, Idle
<1>5. CASE \/ Register \/ UNCHANGED vars
           \/ \E i \in Intents : CreateIntent(i)
           \/ \E y \in Payments : Pay(y)
  BY <1>5 DEF Register, CreateIntent, Pay, vars, Replying
<1> QED
  BY <1>2, <1>3, <1>4, <1>5 DEF Next, Faults, Asks

LEMMA ClashStays ==
    ASSUME Types, [Next]_vars
    PROVE  /\ clash => clash'
           /\ \A s \in Sessions : ReadBalance(s) \/ ReadForDeduction(s) => (Writing => clash')
           /\ Register => (account.row \/ Writing => clash')
<1> USE DEF chain, ledger
<1>1. ASSUME NEW s \in Sessions, Asks(s)
      PROVE  clash' = clash
  <2>1. LetIn(s)
    BY <1>1, AskIsAdmitted
  <2> QED
    BY <2>1 DEF LetIn, Admitted, Start
<1>2. ASSUME NEW s \in Sessions, Step(s) \/ BalanceWriteFails(s) \/ WebhookMarkLost(s)
      PROVE  clash => clash'
  BY <1>2 DEF Step, VerificationFails, MarkIntent, WebhookMark, InsertTopup, ReadBalance,
     WriteCredit, ReadForDeduction, WriteDeduction, BalanceWriteFails, WebhookMarkLost
<1>3. ASSUME \/ Register \/ Crash \/ UNCHANGED vars
             \/ \E i \in Intents : CreateIntent(i)
             \/ \E y \in Payments : Pay(y)
      PROVE  clash => clash'
  <2>1. Register => (clash => clash')
    BY DEF Register
  <2>2. CASE Crash \/ UNCHANGED vars
    BY <2>2 DEF Crash, vars
  <2>3. CASE (\E i \in Intents : CreateIntent(i)) \/ \E y \in Payments : Pay(y)
    BY <2>3 DEF CreateIntent, Pay
  <2> QED
    BY <1>3, <2>1, <2>2, <2>3
<1>4. /\ \A s \in Sessions : ReadBalance(s) \/ ReadForDeduction(s) => (Writing => clash')
      /\ Register => (account.row \/ Writing => clash')
  BY DEF ReadBalance, ReadForDeduction, Register
<1> QED
  BY <1>1, <1>2, <1>3, <1>4 DEF Next, Faults, Asks

LEMMA ExactStep == Types /\ BackedInv /\ ExactInv /\ [Next]_vars => ExactInv'
<1> SUFFICES ASSUME Types, BackedInv, ExactInv, [Next]_vars PROVE ExactInv'
  OBVIOUS
<1>1. /\ account \in Account /\ debits \in Nat /\ unpaid \in Nat
      /\ sess \in [Sessions -> SessionRow]
      /\ account.bal \in Nat /\ account.dep \in Nat /\ account.spent \in Nat
      /\ IsFiniteSet(Deposits) /\ Given \in Nat
  BY GivenIsNat DEF Types, Account, BackedInv
<1>2. ASSUME NEW s \in Sessions, CreditLands(s)
      PROVE  /\ sess'[s] = Idle /\ Holding(s) /\ \A o \in Sessions \ {s} : sess'[o] = sess[o]
             /\ Given' = Given + 1 /\ account'.row = TRUE /\ UNCHANGED <<debits, unpaid>>
  <2>1. sess[s].x \in Payments
    BY <1>2 DEF CreditLands, Types, Shape, Paying
  <2>2. Given' = Given + 1
    BY <1>1, <1>2, <2>1, GivenGrows DEF CreditLands
  <2> QED
    BY <1>1, <1>2, <2>2 DEF CreditLands, End, Holding
<1>3. ASSUME NEW s \in Sessions, WriteDeduction(s)
      PROVE  /\ sess'[s] = Idle /\ Holding(s) /\ \A o \in Sessions \ {s} : sess'[o] = sess[o]
             /\ Given' = Given /\ account'.row = account.row /\ Replying(s)
             /\ account'.bal = IF sess[s].read.bal >= 1 THEN sess[s].read.bal - 1 ELSE 0
             /\ account'.spent = sess[s].read.spent + 1 /\ account'.dep = account.dep
  <2>1. Given' = Given
    BY <1>1, <1>3, GivenOtherwise DEF WriteDeduction
  <2>2. account' = [account EXCEPT !.bal = IF sess[s].read.bal >= 1 THEN sess[s].read.bal - 1 ELSE 0,
                                   !.spent = sess[s].read.spent + 1]
    BY <1>3 DEF WriteDeduction
  <2>3. /\ account'.row = account.row
        /\ account'.bal = IF sess[s].read.bal >= 1 THEN sess[s].read.bal - 1 ELSE 0
        /\ account'.spent = sess[s].read.spent + 1 /\ account'.dep = account.dep
    BY <1>1, <2>2 DEF Account
  <2> QED
    BY <1>1, <1>3, <2>1, <2>3 DEF WriteDeduction, End, Holding, Replying
<1>4. account'.row \/ (account' = NoRow /\ \A s \in Sessions : sess'[s].pc \notin {"reply", "deduct"})
  <2>1. account.row => account'.row
    <3>1. Register => account'.row
      BY DEF Register
    <3> QED
      BY <1>2, <1>3, <3>1, BalanceWriters
  <2>2. CASE ~account.row
    <3>1. account = NoRow /\ \A s \in Sessions : ~Replying(s)
      BY <2>2 DEF ExactInv, Replying
    <3>2. \A s \in Sessions : ~(Replying(s)')
      BY <3>1, RepliesAre DEF NoRow
    <3>3. Register => account'.row
      BY DEF Register
    <3> QED
      BY <1>2, <1>3, <3>1, <3>2, <3>3, BalanceWriters DEF Replying
  <2> QED
    BY <2>1, <2>2
<1>5. ASSUME ~clash'
      PROVE  /\ \A s \in Sessions : Holding(s)' => sess'[s].read = account'
             /\ \A s, o \in Sessions : Holding(s)' /\ Holding(o)' => s = o
  <2>1. /\ \A s \in Sessions : Holding(s) => sess[s].read = account
        /\ \A s, o \in Sessions : Holding(s) /\ Holding(o) => s = o
    BY <1>5, ClashStays DEF ExactInv
  <2>2. ASSUME NEW s \in Sessions, ReadBalance(s) \/ ReadForDeduction(s)
        PROVE  /\ \A o \in Sessions : Holding(o)' => o = s
               /\ sess'[s].read = account'
    <3>1. \A o \in Sessions : ~Holding(o)
      BY <1>5, <2>2, ClashStays DEF Writing, Holding
    <3>2. \A o \in Sessions \ {s} : sess'[o] = sess[o]
      BY <2>2, OthersKept DEF Step
    <3>3. sess'[s].read = account /\ account' = account
      BY <1>1, <2>2 DEF ReadBalance, ReadForDeduction, SessionRow
    <3> QED
      BY <3>1, <3>2, <3>3 DEF Holding
  <2>3. CASE \A s \in Sessions : ~ReadBalance(s) /\ ~ReadForDeduction(s)
    <3>1. \A s \in Sessions : Holding(s)' => Holding(s) /\ sess'[s] = sess[s]
      BY <2>3, HoldersAre
    <3>2. CASE Register
      <4>1. \A s \in Sessions : ~Holding(s)
        BY <1>5, <3>2, ClashStays DEF Writing, Holding
      <4> QED
        BY <3>1, <4>1
    <3>3. CASE \E s \in Sessions : CreditLands(s) \/ WriteDeduction(s)
      <4>1. PICK s \in Sessions : CreditLands(s) \/ WriteDeduction(s)
        BY <3>3
      <4>2. Holding(s) /\ ~(Holding(s)')
        <5>1. Holding(s) /\ sess'[s] = Idle
          BY <1>2, <1>3, <4>1
        <5> QED
          BY <5>1 DEF Holding, Idle
      <4> QED
        BY <2>1, <3>1, <4>2
    <3>4. CASE UNCHANGED account
      BY <2>1, <3>1, <3>4
    <3> QED
      BY <3>2, <3>3, <3>4, BalanceWriters
  <2> QED
    BY <2>2, <2>3
<1>6. ASSUME ~clash'
      PROVE  /\ account'.dep = Given'
             /\ account'.spent = debits'
             /\ account'.bal + account'.spent = account'.dep + unpaid'
  <2>1. /\ account.dep = Given /\ account.spent = debits
        /\ account.bal + account.spent = account.dep + unpaid
        /\ \A s \in Sessions : Holding(s) => sess[s].read = account
    BY <1>6, ClashStays DEF ExactInv, BalanceExact
  <2>2. CASE Register
    <3>1. account = NoRow
      BY <1>6, <2>2, ClashStays DEF ExactInv
    <3>2. Given = 0 /\ debits = 0 /\ unpaid = 0
      BY <1>1, <2>1, <3>1 DEF NoRow
    <3>3. Given' = 1
      BY <1>1, <2>2, <3>2, GivenOtherwise DEF Register
    <3>4. account' = [row |-> TRUE, bal |-> 1, dep |-> 1, spent |-> 0] /\ UNCHANGED <<debits, unpaid>>
      BY <2>2 DEF Register
    <3> QED
      BY <3>2, <3>3, <3>4
  <2>3. ASSUME NEW s \in Sessions, CreditLands(s)
        PROVE  /\ account'.dep = Given'
               /\ account'.spent = debits'
               /\ account'.bal + account'.spent = account'.dep + unpaid'
    <3>1. sess[s].read = account
      BY <1>2, <2>1, <2>3
    <3>2. account.row \/ account.spent = 0
      BY DEF ExactInv, NoRow
    <3>3. account'.bal = account.bal + 1 /\ account'.dep = account.dep + 1 /\ account'.spent = account.spent
      BY <2>3, <3>1, <3>2 DEF CreditLands
    <3>4. Given' = Given + 1 /\ debits' = debits /\ unpaid' = unpaid
      BY <1>2, <2>3
    <3> QED
      BY <1>1, <2>1, <3>3, <3>4
  <2>4. ASSUME NEW s \in Sessions, WriteDeduction(s)
        PROVE  /\ account'.dep = Given'
               /\ account'.spent = debits'
               /\ account'.bal + account'.spent = account'.dep + unpaid'
    <3>1. sess[s].read = account
      BY <1>3, <2>1, <2>4
    <3>2. debits' = debits + 1 /\ unpaid' = unpaid + (IF account.bal >= 1 THEN 0 ELSE 1)
      BY <2>4, <3>1 DEF WriteDeduction
    <3>3. account'.bal = (IF account.bal >= 1 THEN account.bal - 1 ELSE 0)
          /\ account'.spent = account.spent + 1 /\ account'.dep = account.dep /\ Given' = Given
      BY <1>3, <2>4, <3>1
    <3>4. CASE account.bal >= 1
      BY <1>1, <2>1, <3>2, <3>3, <3>4
    <3>5. CASE account.bal = 0
      BY <1>1, <2>1, <3>2, <3>3, <3>5
    <3> QED
      BY <1>1, <3>4, <3>5
  <2>5. CASE UNCHANGED <<account, credits, debits, unpaid, promo>>
    <3>1. Given' = Given
      BY <1>1, <2>5, GivenOtherwise
    <3> QED
      BY <2>1, <2>5, <3>1
  <2> QED
    BY <2>2, <2>3, <2>4, <2>5, BalanceWriters
<1> QED
  BY <1>4, <1>5, <1>6 DEF ExactInv, BalanceExact

(* Requests that do not overlap in their read-modify-write leave the row   *)
(* exact: every credit and every deduction is in it, and only a deduction  *)
(* that found the balance empty went uncollected.                          *)
THEOREM SumsAreExact == Spec => []BalanceExact
<1>1. Init => ExactInv
  <2> SUFFICES ASSUME Init PROVE ExactInv
    OBVIOUS
  <2>1. Deposits = {}
    BY DEF Init, Deposits
  <2>2. Given = 0
    BY <2>1, FS_EmptySet DEF Given, Init
  <2> QED
    BY <2>2 DEF Init, ExactInv, BalanceExact, Holding, Idle, NoRow
<1>2. Spec => [](Types /\ BackedInv /\ ExactInv)
  BY <1>1, TypesInit, TypesStep, BackedInit, BackedStep, ExactStep, PTL DEF Spec
<1> QED
  BY <1>2, PTL DEF ExactInv

(***************************************************************************)
(* A confirmed intent keeps its signature.                                 *)
(***************************************************************************)

(* What a step does to a request: nothing, the end, its admission, the     *)
(* record of its payment, a read of the balance, or the webhook's fallback.*)
LEMMA StageChanges ==
    ASSUME Types, [Next]_vars, NEW o \in Sessions
    PROVE  \/ sess'[o] = sess[o]
           \/ sess'[o] = Idle
           \/ LetIn(o)
           \/ /\ InsertTopup(o) \/ MarkIntent(o) \/ WebhookMark(o) \/ WebhookMarkLost(o)
              /\ Move(o, "read")
           \/ ReadBalance(o) \/ ReadForDeduction(o)
           \/ (WriteCredit(o) \/ BalanceWriteFails(o)) /\ sess[o].pc = "credit" /\ FallsBack(o)
<1>1. sess \in [Sessions -> SessionRow]
  BY DEF Types
<1>2. ASSUME NEW s \in Sessions, Asks(s)
      PROVE  LetIn(o) \/ sess'[o] = sess[o]
  BY <1>2, AskIsAdmitted, OthersKept
<1>3. ASSUME Step(o) \/ BalanceWriteFails(o) \/ WebhookMarkLost(o)
      PROVE  \/ sess'[o] = Idle
             \/ /\ InsertTopup(o) \/ MarkIntent(o) \/ WebhookMark(o) \/ WebhookMarkLost(o)
                /\ Move(o, "read")
             \/ ReadBalance(o) \/ ReadForDeduction(o)
             \/ (WriteCredit(o) \/ BalanceWriteFails(o)) /\ sess[o].pc = "credit" /\ FallsBack(o)
  <2>1. End(o) => sess'[o] = Idle
    BY <1>1 DEF End
  <2>2. CASE WriteCredit(o) \/ BalanceWriteFails(o)
    BY <2>1, <2>2 DEF WriteCredit, BalanceWriteFails, CreditFails, FallsBack
  <2> QED
    BY <1>3, <2>1, <2>2 DEF Step, VerificationFails, MarkIntent, WebhookMark, InsertTopup,
       WriteDeduction, WebhookMarkLost
<1>4. ASSUME NEW s \in Sessions, s # o, Step(s) \/ BalanceWriteFails(s) \/ WebhookMarkLost(s)
      PROVE  sess'[o] = sess[o]
  BY <1>4, OthersKept
<1>5. Crash => sess'[o] = Idle
  BY DEF Crash
<1>6. CASE \/ Register \/ UNCHANGED vars
           \/ \E i \in Intents : CreateIntent(i)
           \/ \E y \in Payments : Pay(y)
  BY <1>6 DEF Register, CreateIntent, Pay, vars
<1> QED
  BY <1>2, <1>3, <1>4, <1>5, <1>6 DEF Next, Faults, Asks

LEMMA ExposedStays ==
    ASSUME Types, [Next]_vars
    PROVE  exposed \subseteq exposed' /\ astray \subseteq astray'
<1> USE DEF chain, ledger
<1>1. ASSUME NEW s \in Sessions, Asks(s)
      PROVE  exposed \subseteq exposed' /\ astray \subseteq astray'
  <2>1. LetIn(s)
    BY <1>1, AskIsAdmitted
  <2> QED
    BY <2>1 DEF LetIn, Admitted, Start
<1>2. ASSUME NEW s \in Sessions, Step(s) \/ BalanceWriteFails(s) \/ WebhookMarkLost(s)
      PROVE  exposed \subseteq exposed' /\ astray \subseteq astray'
  BY <1>2, StepAstray DEF Step, VerificationFails, MarkIntent, WebhookMark, InsertTopup, ReadBalance,
     WriteCredit, ReadForDeduction, WriteDeduction, BalanceWriteFails, WebhookMarkLost
<1>3. CASE \/ Register \/ Crash \/ UNCHANGED vars
           \/ \E i \in Intents : CreateIntent(i)
           \/ \E y \in Payments : Pay(y)
  BY <1>3 DEF Register, Crash, CreateIntent, Pay, vars
<1> QED
  BY <1>1, <1>2, <1>3 DEF Next, Faults, Asks

(* An intent is written by its creation and by a request that confirms it. *)
LEMMA IntentWriters ==
    ASSUME Types, [Next]_vars, ~UNCHANGED intent
    PROVE  \/ \E i \in Intents : CreateIntent(i)
           \/ \E s \in Sessions : (MarkIntent(s) \/ WebhookMark(s)) /\ Confirms(s)
<1> USE DEF chain, ledger
<1>1. ASSUME NEW s \in Sessions, Asks(s)
      PROVE  UNCHANGED intent
  <2>1. LetIn(s)
    BY <1>1, AskIsAdmitted
  <2> QED
    BY <2>1 DEF LetIn, Admitted, Start
<1>2. ASSUME NEW s \in Sessions, MarkIntent(s) \/ WebhookMark(s)
      PROVE  Confirms(s) \/ UNCHANGED intent
  BY <1>2, StepMoves DEF Step
<1>3. ASSUME NEW s \in Sessions, Step(s) \/ BalanceWriteFails(s) \/ WebhookMarkLost(s),
             ~MarkIntent(s), ~WebhookMark(s)
      PROVE  UNCHANGED intent
  BY <1>3 DEF Step, VerificationFails, InsertTopup, ReadBalance,
     WriteCredit, ReadForDeduction, WriteDeduction, BalanceWriteFails, WebhookMarkLost
<1>4. CASE Register \/ Crash \/ UNCHANGED vars \/ \E y \in Payments : Pay(y)
  BY <1>4 DEF Register, Crash, Pay, vars
<1> QED
  BY <1>1, <1>2, <1>3, <1>4 DEF Next, Faults, Asks

LEMMA DecidingAre ==
    ASSUME Types, [Next]_vars, NEW o \in Sessions,
           sess'[o].pc \in {"mark", "webhookMark", "insert"}
    PROVE  \/ sess'[o] = sess[o] /\ o \in Deciding
           \/ LetIn(o)
           \/ /\ WriteCredit(o) \/ BalanceWriteFails(o)
              /\ sess[o].pc = "credit" /\ sess'[o].pc = "insert"
              /\ sess'[o].x = sess[o].x /\ sess'[o].i = NoIntent
<1>1. sess \in [Sessions -> SessionRow] /\ sess[o] \in SessionRow
  BY DEF Types
<1>2. sess'[o] # Idle
  BY DEF Idle
<1>3. ~Move(o, "read")
  BY NextStage
<1>4. ReadBalance(o) \/ ReadForDeduction(o) => sess'[o].pc \in {"credit", "deduct"}
  BY <1>1 DEF ReadBalance, ReadForDeduction, SessionRow
<1>5. FallsBack(o) => sess'[o].pc = "insert" /\ sess'[o].x = sess[o].x /\ sess'[o].i = NoIntent
  BY <1>1 DEF FallsBack, SessionRow
<1> QED
  BY <1>2, <1>3, <1>4, <1>5, StageChanges DEF Deciding

(* What a request is let in with.                                          *)
LEMMA LetInAs ==
    ASSUME Types, NEW s \in Sessions, LetIn(s)
    PROVE  /\ sess[s] = Idle /\ \A o \in Sessions \ {s} : sess'[o] = sess[o]
           /\ UNCHANGED <<intent, direct, credits, account, promo>>
           /\ sess'[s].pc \in {"mark", "webhookMark", "insert", "reply"}
           /\ sess'[s].pc \in Marking =>
                 sess'[s].i \in Intents /\ intent[sess'[s].i].status = "pending"
<1>1. PICK x, i : \E kind \in Kinds, pc \in {"mark", "webhookMark", "insert", "reply"} :
                      Admitted(s, kind, pc, x, i)
  BY DEF LetIn
<1>2. PICK kind \in Kinds, pc \in {"mark", "webhookMark", "insert", "reply"} :
                      Admitted(s, kind, pc, x, i)
  BY <1>1
<1>3. /\ sess[s] = Idle /\ \A o \in Sessions \ {s} : sess'[o] = sess[o]
      /\ sess'[s].pc = pc /\ sess'[s].x = x /\ sess'[s].i = i
  BY <1>2, StartRow
<1>4. UNCHANGED <<intent, direct, credits, account, promo>>
  BY <1>2 DEF Admitted, Start, ledger
<1> QED
  BY <1>2, <1>3, <1>4 DEF Admitted, Marking

(* A request let in next to another one exposes what they compete for.     *)
LEMMA RivalsExposed ==
    ASSUME Types, NEW s \in Sessions, LetIn(s), NEW o \in Deciding,
           sess'[s].i # NoIntent, sess[o].i = sess'[s].i
    PROVE  /\ o # s /\ o \in Sessions /\ sess'[o] = sess[o]
           /\ sess[o].x \in exposed' /\ sess'[s].x \in exposed'
<1>1. PICK x, i : \E kind \in Kinds, pc \in {"mark", "webhookMark", "insert", "reply"} :
                      Admitted(s, kind, pc, x, i)
  BY DEF LetIn
<1>2. PICK kind \in Kinds, pc \in {"mark", "webhookMark", "insert", "reply"} :
                      Admitted(s, kind, pc, x, i)
  BY <1>1
<1>3. /\ sess[s] = Idle /\ \A q \in Sessions \ {s} : sess'[q] = sess[q]
      /\ sess'[s].x = x /\ sess'[s].i = i
  BY <1>2, StartRow
<1>4. o # s /\ o \in Sessions
  BY <1>3 DEF Deciding, Idle
<1>5. o \in Rivals(i)
  BY <1>3 DEF Rivals
<1>6. x \in exposed' /\ \A q \in Rivals(i) : sess[q].x \in exposed'
  BY <1>2, <1>5 DEF Admitted, Start
<1> QED
  BY <1>3, <1>4, <1>5, <1>6

(* Only a request that marks the intent can change a confirmed one, and    *)
(* the payment on that intent is then exposed.                             *)
LEMMA ConfirmedStays ==
    ASSUME Types, [Next]_vars, NEW i \in Intents
    PROVE  /\ intent[i].status = "confirmed" => intent'[i].status = "confirmed"
           /\ intent[i].status = "pending" => intent'[i].status \in {"pending", "confirmed"}
           /\ MarkInv /\ intent[i].status = "confirmed" /\ intent[i].tx \notin exposed
                => intent'[i] = intent[i]
<1>1. intent \in [Intents -> IntentRow]
  BY DEF Types
<1>2. ASSUME NEW j \in Intents, CreateIntent(j)
      PROVE  intent[j].status = "absent" /\ \A k \in Intents \ {j} : intent'[k] = intent[k]
  BY <1>1, <1>2 DEF CreateIntent
<1>3. ASSUME NEW s \in Sessions, Confirms(s)
      PROVE  /\ \A k \in Intents : k # sess[s].i => intent'[k] = intent[k]
             /\ \A k \in Intents : k = sess[s].i => intent'[k].status = "confirmed"
             /\ MarkInv /\ i = sess[s].i /\ intent[i].status = "confirmed" => intent[i].tx \in exposed
  <2>1. /\ \A k \in Intents : k # sess[s].i => intent'[k] = intent[k]
        /\ \A k \in Intents : k = sess[s].i => intent'[k].status = "confirmed"
    BY <1>1, <1>3 DEF Confirms, Confirmed
  <2>2. MarkInv /\ i = sess[s].i /\ intent[i].status = "confirmed" => intent[i].tx \in exposed
    BY <1>3 DEF Confirms, MarkInv
  <2> QED
    BY <2>1, <2>2
<1> QED
  BY <1>2, <1>3, IntentWriters

LEMMA MarkStep == Types /\ MarkInv /\ [Next]_vars => MarkInv'
<1> SUFFICES ASSUME Types, MarkInv, [Next]_vars PROVE MarkInv'
  OBVIOUS
<1>1. exposed \subseteq exposed'
  BY ExposedStays
<1>2. ASSUME NEW s \in Sessions, NEW o \in Sessions, s # o,
             sess'[s].pc \in {"mark", "webhookMark", "insert"},
             sess'[o].pc \in {"mark", "webhookMark", "insert"},
             sess'[s].i # NoIntent, sess'[s].i = sess'[o].i
      PROVE  sess'[s].x \in exposed'
  <2>1. CASE LetIn(s)
    <3>1. sess'[o] = sess[o] /\ o \in Deciding
      BY <1>2, <2>1, StartRow DEF LetIn, Deciding
    <3> QED
      BY <1>2, <2>1, <3>1, RivalsExposed
  <2>2. CASE LetIn(o)
    <3>1. sess'[s] = sess[s] /\ s \in Deciding
      BY <1>2, <2>2, StartRow DEF LetIn, Deciding
    <3> QED
      BY <1>2, <2>2, <3>1, RivalsExposed
  <2>3. CASE ~LetIn(s) /\ ~LetIn(o)
    <3>1. sess'[s] = sess[s] /\ s \in Deciding /\ sess'[o] = sess[o] /\ o \in Deciding
      BY <1>2, <2>3, DecidingAre
    <3> QED
      BY <1>1, <1>2, <3>1 DEF MarkInv
  <2> QED
    BY <2>1, <2>2, <2>3
<1>3. ASSUME NEW s \in Sessions, sess'[s].pc \in Marking
      PROVE  \/ intent'[sess'[s].i].status = "pending"
             \/ sess'[s].x \in exposed' /\ intent'[sess'[s].i].tx \in exposed'
  <2>1. CASE LetIn(s)
    BY <1>3, <2>1, LetInAs
  <2>2. CASE ~LetIn(s)
    <3>1. sess'[s] = sess[s] /\ s \in Deciding /\ sess[s].pc \in Marking
      BY <1>3, <2>2, DecidingAre DEF Marking
    <3>2. PICK i \in Intents : i = sess[s].i /\ i # NoIntent
      BY <3>1, TopupAssumption DEF Types, Shape, SessionRow
    <3>3. CASE intent'[i] = intent[i]
      BY <1>1, <3>1, <3>2, <3>3 DEF MarkInv
    <3>4. CASE intent'[i] # intent[i]
      <4>1. CASE \E j \in Intents : CreateIntent(j)
        <5>1. intent'[i].status = "pending"
          BY <3>4, <4>1 DEF CreateIntent, Types, IntentRow
        <5> QED
          BY <3>1, <3>2, <5>1
      <4>2. CASE ~\E j \in Intents : CreateIntent(j)
        <5>1. PICK o \in Sessions : (MarkIntent(o) \/ WebhookMark(o)) /\ Confirms(o)
          BY <3>4, <4>2, IntentWriters
        <5>2. o # s
          <6>1. MarkIntent(s) \/ WebhookMark(s) => sess'[s].pc \in {"idle", "read"}
            BY NextStage DEF MarkIntent, WebhookMark
          <6> QED
            BY <1>3, <5>1, <6>1 DEF Marking
        <5>3. sess[o].i = i /\ o \in Deciding /\ intent'[i].tx = sess[o].x
          BY <3>4, <5>1 DEF Confirms, Confirmed, Types, Deciding, Marking
        <5>4. sess[s].x \in exposed /\ sess[o].x \in exposed
          BY <3>1, <3>2, <5>2, <5>3 DEF MarkInv
        <5> QED
          BY <1>1, <3>1, <3>2, <5>3, <5>4
      <4> QED
        BY <4>1, <4>2
    <3> QED
      BY <3>3, <3>4
  <2> QED
    BY <2>1, <2>2
<1> QED
  BY <1>2, <1>3 DEF MarkInv, Deciding

LEMMA MarkInit == Init => MarkInv
BY DEF Init, MarkInv, Deciding, Marking, Idle

(* A confirmed intent keeps its signature, so that the UNIQUE constraint   *)
(* goes on refusing the payment, unless a race for the intent exposed it.  *)
THEOREM SignatureStays == Spec => SignatureKept
<1>1. Types /\ MarkInv /\ [Next]_vars
      => [\A i \in Intents : intent[i].status = "confirmed" /\ intent[i].tx \notin exposed
             => intent'[i] = intent[i]]_vars
  BY ConfirmedStays
<1> QED
  BY <1>1, TypesInit, TypesStep, MarkInit, MarkStep, PTL DEF Spec, SignatureKept

(***************************************************************************)
(* A payment is credited once.                                             *)
(***************************************************************************)

(* A request comes to credit a payment by the step that records it.        *)
Records(s) == /\ InsertTopup(s) \/ MarkIntent(s) \/ WebhookMark(s) \/ WebhookMarkLost(s)
              /\ Move(s, "read")

LEMMA CreditingAre ==
    ASSUME Types, [Next]_vars, NEW o \in Sessions, NEW x, Crediting(o, x)', ~Crediting(o, x)
    PROVE  Records(o) /\ sess[o].x = x
<1>1. sess \in [Sessions -> SessionRow] /\ sess[o] \in SessionRow
  BY DEF Types
<1>2. sess'[o] # sess[o]
  BY DEF Crediting
<1>3. sess'[o] # Idle
  BY DEF Crediting, AtWork, Idle
<1>4. ~LetIn(o)
  BY LetInAs DEF Crediting, AtWork
<1>5. ~ReadBalance(o)
  <2>1. ReadBalance(o) => sess[o].pc = "read" /\ sess'[o].x = sess[o].x
    BY <1>1 DEF ReadBalance, SessionRow
  <2> QED
    BY <2>1 DEF Crediting, AtWork
<1>6. ~ReadForDeduction(o)
  <2>1. ReadForDeduction(o) => sess'[o].pc = "deduct"
    BY <1>1 DEF ReadForDeduction, SessionRow
  <2> QED
    BY <2>1 DEF Crediting, AtWork
<1>7. ~FallsBack(o)
  BY NextStage DEF Crediting, AtWork
<1>8. Records(o)
  BY <1>2, <1>3, <1>4, <1>5, <1>6, <1>7, StageChanges DEF Records
<1>9. sess'[o].x = sess[o].x
  BY <1>1, <1>8 DEF Records, Move, SessionRow
<1> QED
  BY <1>8, <1>9 DEF Crediting

LEMMA DirectWriters ==
    ASSUME Types, [Next]_vars
    PROVE  \/ UNCHANGED direct
           \/ \E s \in Sessions : /\ InsertTopup(s) /\ sess[s].pc = "insert"
                                  /\ direct' = direct \cup {sess[s].x}
<1> USE DEF chain, ledger
<1>1. ASSUME NEW s \in Sessions, Asks(s)
      PROVE  UNCHANGED direct
  BY <1>1, AskIsAdmitted, LetInAs
<1>2. ASSUME NEW s \in Sessions, InsertTopup(s)
      PROVE  UNCHANGED direct \/ (sess[s].pc = "insert" /\ direct' = direct \cup {sess[s].x})
  BY <1>2 DEF InsertTopup
<1>3. ASSUME NEW s \in Sessions, Step(s) \/ BalanceWriteFails(s) \/ WebhookMarkLost(s),
             ~InsertTopup(s)
      PROVE  UNCHANGED direct
  BY <1>3 DEF Step, VerificationFails, MarkIntent, WebhookMark, ReadBalance,
     WriteCredit, ReadForDeduction, WriteDeduction, BalanceWriteFails, WebhookMarkLost
<1>4. CASE \/ Register \/ Crash \/ UNCHANGED vars
           \/ \E i \in Intents : CreateIntent(i)
           \/ \E y \in Payments : Pay(y)
  BY <1>4 DEF Register, Crash, CreateIntent, Pay, vars
<1> QED
  BY <1>1, <1>2, <1>3, <1>4 DEF Next, Faults, Asks

(* A payment on record that is not exposed stays on record.                *)
LEMMA RecordStays ==
    ASSUME Types, MarkInv, [Next]_vars, NEW x \in Payments \ exposed, OnRecord(x)
    PROVE  OnRecord(x)'
<1>1. CASE x \in direct
  BY <1>1, DirectWriters DEF OnRecord
<1>2. ASSUME NEW i \in Intents, intent[i].tx = x
      PROVE  intent'[i].tx = x
  <2>1. intent[i].status = "confirmed"
    BY <1>2, TopupAssumption DEF Types, Shape
  <2> QED
    BY <1>2, <2>1, ConfirmedStays
<1> QED
  BY <1>1, <1>2 DEF OnRecord

(* A payment is put on record once it is on chain; off its own intent, it  *)
(* goes astray as long as that is pending.                                 *)
LEMMA OwnStep == Types /\ OwnInv /\ [Next]_vars => OwnInv'
<1> SUFFICES ASSUME Types, OwnInv, [Next]_vars, NEW x \in Payments, x \notin astray',
                    NEW i \in Intents, IntentOf[x] = i, intent'[i].status # "confirmed",
                    OnRecord(x)'
             PROVE  FALSE
  BY TopupAssumption DEF OwnInv
<1>1. x \notin astray /\ intent[i].status # "confirmed"
  BY ExposedStays, ConfirmedStays
<1>2. ~OnRecord(x)
  BY <1>1, TopupAssumption DEF OwnInv
<1>3. PICK s \in Sessions : /\ InsertTopup(s) \/ MarkIntent(s) \/ WebhookMark(s)
                            /\ sess[s].x = x /\ Crediting(s, x)'
  BY <1>2, RecordedByCrediting
<1>4. sess \in [Sessions -> SessionRow] /\ intent \in [Intents -> IntentRow] /\ ~End(s)
  BY <1>3, NextStage DEF Types, Crediting, AtWork
<1>5. CASE InsertTopup(s)
  <2>1. x \in landed /\ Recorded(x, NoIntent)
    BY <1>3, <1>4, <1>5 DEF InsertTopup
  <2>2. intent[i].status = "pending"
    BY <1>1, <1>4, <2>1, TopupAssumption DEF Types, Shape, IntentRow
  <2> QED
    BY <2>1, <2>2, TopupAssumption DEF Recorded
<1>6. CASE MarkIntent(s) \/ WebhookMark(s)
  <2>1. PICK j \in Intents : j = sess[s].i
    BY <1>6 DEF MarkIntent, WebhookMark, Types, Shape, SessionRow, Marking
  <2>2. ~UNCHANGED intent
    BY <1>2, <1>6 DEF MarkIntent, WebhookMark, OnRecord
  <2>3. intent' = [intent EXCEPT ![j] = Confirmed(x)]
    BY <1>3, <1>6, <2>1, <2>2 DEF MarkIntent, WebhookMark
  <2>4. j # i
    BY <1>4, <2>3 DEF Confirmed
  <2>5. CASE MarkIntent(s)
    <3>1. x \in landed /\ Recorded(x, j)
      BY <1>3, <2>1, <2>2, <2>5 DEF MarkIntent
    <3>2. intent[i].status = "pending"
      BY <1>1, <1>4, <3>1, TopupAssumption DEF Types, Shape, IntentRow
    <3> QED
      BY <2>4, <3>1, <3>2, TopupAssumption DEF Recorded
  <2>6. CASE WebhookMark(s)
    BY <1>3, <2>1, <2>4, <2>6 DEF WebhookMark, Types, Shape
  <2> QED
    BY <1>6, <2>5, <2>6
<1> QED
  BY <1>3, <1>5, <1>6

(* Whoever comes to credit a payment finds it not on record and puts it    *)
(* there, unless the payment is exposed or astray.                         *)
LEMMA RecordsOnce ==
    ASSUME Types, MarkInv, OwnInv, [Next]_vars, NEW s \in Sessions, Records(s),
           NEW x \in Payments, x = sess[s].x, x \notin exposed', x \notin astray'
    PROVE  ~OnRecord(x) /\ OnRecord(x)'
<1>1. x \notin exposed /\ x \notin astray
  BY ExposedStays
<1>2. sess \in [Sessions -> SessionRow] /\ intent \in [Intents -> IntentRow]
  BY DEF Types
<1>3. ~End(s)
  BY NextStage DEF Records
<1>4. CASE InsertTopup(s)
  <2>1. ~Taken(x, NoIntent) /\ direct' = direct \cup {x} /\ intent' = intent
    BY <1>3, <1>4 DEF InsertTopup
  <2> QED
    BY <2>1, TopupAssumption DEF Taken, OnRecord
<1>5. CASE MarkIntent(s) \/ WebhookMark(s)
  <2>1. sess[s].pc \in Marking
    BY <1>5 DEF MarkIntent, WebhookMark, Marking
  <2>2. PICK i \in Intents : i = sess[s].i
    BY <2>1 DEF Types, Shape, SessionRow
  <2>3. intent[i].status = "pending"
    BY <1>1, <2>1, <2>2 DEF MarkInv
  <2>4. intent[i].tx # x
    BY <2>3, TopupAssumption DEF Types, Shape
  <2>5. ~OnRecord(x) /\ intent' = [intent EXCEPT ![i] = Confirmed(x)]
    <3>1. CASE MarkIntent(s)
      <4>1. ~Taken(x, i) /\ intent' = [intent EXCEPT ![i] = Confirmed(x)]
        BY <1>3, <2>2, <2>3, <3>1 DEF MarkIntent
      <4> QED
        BY <2>4, <4>1 DEF Taken, OnRecord
    <3>2. CASE WebhookMark(s)
      <4>1. IntentOf[x] = i
        BY <2>2, <3>2 DEF WebhookMark, Types, Shape
      <4>2. ~OnRecord(x)
        BY <1>1, <2>3, <4>1, TopupAssumption DEF OwnInv
      <4>3. ~Taken(x, i)
        BY <4>2 DEF Taken, OnRecord
      <4> QED
        BY <2>2, <3>2, <4>2, <4>3 DEF WebhookMark
    <3> QED
      BY <1>5, <3>1, <3>2
  <2>6. intent'[i].tx = x
    BY <1>2, <2>5 DEF Confirmed
  <2> QED
    BY <2>5, <2>6 DEF OnRecord
<1>6. CASE WebhookMarkLost(s)
  BY <1>6 DEF WebhookMarkLost
<1> QED
  BY <1>4, <1>5, <1>6 DEF Records

LEMMA CreditStep == Types /\ MarkInv /\ OwnInv /\ CreditInv /\ [Next]_vars => CreditInv'
<1> SUFFICES ASSUME Types, MarkInv, OwnInv, CreditInv, [Next]_vars,
                    NEW x \in Payments, x \notin exposed', x \notin astray'
             PROVE  CreditOf(x)'
  BY DEF CreditInv
<1>1. x \notin exposed /\ CreditOf(x) /\ credits[x] \in Nat /\ credits \in [Payments -> Nat]
  BY ExposedStays DEF CreditInv, Types
<1>2. OnRecord(x) => OnRecord(x)'
  BY <1>1, RecordStays
<1>3. ASSUME NEW s \in Sessions, Crediting(s, x)', ~Crediting(s, x)
      PROVE  /\ ~OnRecord(x) /\ OnRecord(x)'
             /\ \A o \in Sessions \ {s} : ~(Crediting(o, x)')
  <2>1. Records(s) /\ sess[s].x = x
    BY <1>3, CreditingAre
  <2>2. ~OnRecord(x) /\ OnRecord(x)'
    BY <2>1, RecordsOnce
  <2>3. \A o \in Sessions : ~Crediting(o, x)
    BY <1>1, <2>2 DEF CreditOf
  <2>4. \A o \in Sessions \ {s} : sess'[o] = sess[o]
    BY <2>1, OthersKept DEF Records, Step
  <2> QED
    BY <2>2, <2>3, <2>4 DEF Crediting
<1>4. /\ credits'[x] <= 1
      /\ credits'[x] = 1 => OnRecord(x)' /\ \A s \in Sessions : ~(Crediting(s, x)')
  <2>1. CASE \E s \in Sessions : CreditLands(s) /\ sess[s].x = x
    <3>1. PICK s \in Sessions : CreditLands(s) /\ sess[s].x = x
      BY <2>1
    <3>2. Crediting(s, x)
      BY <3>1 DEF CreditLands, Crediting, AtWork
    <3>3. OnRecord(x) /\ credits[x] = 0 /\ \A o \in Sessions \ {s} : ~Crediting(o, x)
      BY <1>1, <3>2 DEF CreditOf
    <3>4. credits'[x] = 1
      BY <1>1, <3>1, <3>3 DEF CreditLands
    <3>5. ~(Crediting(s, x)')
      BY <3>1, NextStage DEF CreditLands, Crediting, AtWork
    <3> QED
      BY <1>2, <1>3, <3>3, <3>4, <3>5
  <2>2. CASE ~\E s \in Sessions : CreditLands(s) /\ sess[s].x = x
    <3>1. credits'[x] = credits[x]
      BY <1>1, <2>2, BalanceWriters DEF CreditLands, Register, WriteDeduction
    <3> QED
      BY <1>1, <1>2, <1>3, <3>1 DEF CreditOf
  <2> QED
    BY <2>1, <2>2
<1>5. \A s \in Sessions : Crediting(s, x)' => OnRecord(x)'
  BY <1>1, <1>2, <1>3 DEF CreditOf
<1>6. \A s, o \in Sessions : Crediting(s, x)' /\ Crediting(o, x)' => s = o
  BY <1>1, <1>3 DEF CreditOf
<1> QED
  BY <1>4, <1>5, <1>6 DEF CreditOf

(* A payment is added to the balance once, however often, by whichever of  *)
(* the four confirmers and for whichever intent it is reported, unless two *)
(* requests took a payment to one intent before either had marked it, or   *)
(* it was put on another row while the intent it pays was pending.         *)
THEOREM PaymentsCreditedOnce == Spec => []CreditedOnce
<1>1. Init => CreditInv /\ OwnInv
  BY TopupAssumption DEF Init, CreditInv, OwnInv, CreditOf, OnRecord, Crediting, AtWork, Idle
<1>2. Spec => [](Types /\ MarkInv /\ OwnInv /\ CreditInv)
  BY <1>1, TypesInit, TypesStep, MarkInit, MarkStep, OwnStep, CreditStep, PTL DEF Spec
<1>3. CreditInv => CreditedOnce
  BY DEF CreditInv, CreditedOnce, CreditOf
<1> QED
  BY <1>2, <1>3, PTL
===============================================================================
