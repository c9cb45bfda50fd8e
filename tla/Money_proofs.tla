---------------------------- MODULE Money_proofs ----------------------------
(***************************************************************************)
(* What Money.tla promises for every set of wallets, positions, events,     *)
(* requests and workloads: payouts signed once and told truly by their      *)
(* rows, decisions that stay, a reserve only a crowd breaks into, payments  *)
(* recorded, days sold once, and deposits that really came in.              *)
(***************************************************************************)
EXTENDS Money, FiniteSetTheorems, SequenceTheorems, TLAPS

\* --- Payouts ---

\* Places of the one handler that created a position's attempt row.
Paying == {"balance", "skip", "blockhash", "send", "confirm", "failed", "confirmed"}

\* Places before the attempt row.
Deciding == {"idle", "already", "calculate", "price", "create"}

PayoutOf(p) == For(<<"payout", p>>)

\* What the attempt row says at each place of the handler that created it.
RowOf(h) ==
    LET a == attempt[Mine(h)] IN
    /\ pc[h] \in {"balance", "skip", "blockhash"} => a.status = "PENDING"
    /\ pc[h] \in {"send", "confirm", "confirmed"} =>
         a.status = "SUBMITTED" /\ a.tx = op[h].tx /\ op[h].tx \in PayoutOf(Mine(h))
    /\ pc[h] = "send" => txs[op[h].tx].state = "signed"
    /\ pc[h] = "confirmed" => txs[op[h].tx].state = "landed"
    /\ pc[h] = "failed" => a.status \in {"PENDING", "SUBMITTED"}

OnePayer ==
    \A h, g \in Handler : pc[h] \in Paying /\ pc[g] \in Paying /\ Mine(h) = Mine(g) => h = g

\* A row that is not SUBMITTED or beyond has no transfer, a CONFIRMED one a
\* landed one, and none has two.
RowTells(p) ==
    /\ PayoutOf(p) \subseteq {attempt[p].tx}
    /\ attempt[p].status \in {"none", "PENDING", "SKIPPED"} => PayoutOf(p) = {}
    /\ attempt[p].status = "CONFIRMED" =>
         attempt[p].tx \in PayoutOf(p) /\ txs[attempt[p].tx].state = "landed"
    /\ attempt[p].status # "none" => \E h \in Handler : Mine(h) = p /\ pc[h] \notin Deciding

Reported(p) == {h \in Handler : Mine(h) = p}
Twice(p) == \E h, g \in Handler : h # g /\ Mine(h) = p /\ Mine(g) = p

\* Nothing paid that a ledger without charges would deny.
Unpaid(p) == attempt[p].status = "FAILED" \/ PayoutOf(p) = {} \/ Twice(p)

LedgerTells(p) ==
    /\ ledger[p] = "charged" => p \in paper \/ attempt[p].status = "CONFIRMED"
    /\ ledger[p] = "plain" => Unpaid(p)
    /\ ledger[p] # "none" => \E h \in Handler : Mine(h) = p /\ pc[h] = "done"

HandlerTells(h) ==
    /\ pc[h] = "idle" => op[h] = NoHandler
    /\ op[h].paid => Mine(h) \in paper \/ attempt[Mine(h)].status = "CONFIRMED"
    /\ pc[h] = "write" /\ ~op[h].paid => Unpaid(Mine(h))

PayInv ==
    /\ OnePayer
    /\ \A h \in Handler : RowOf(h) /\ HandlerTells(h)
    /\ \A p \in Position : RowTells(p) /\ LedgerTells(p)

\* --- Purchases ---

Buying == {"read", "balance", "blockhash", "send", "confirm", "record"}
Payments == For(<<"plan", 0>>)

RequestTells(q) ==
    /\ ppc[q] \in Buying => inFlight /\ pop[q].plan \in Plan /\ pop[q].wallet \in Wallet
    /\ ppc[q] \in Buying \ {"read"} => pop[q].user = user
    /\ ppc[q] \in {"send", "confirm", "record"} => pop[q].tx \in Payments
    /\ ppc[q] = "send" => txs[pop[q].tx].state = "signed"
    /\ ppc[q] = "record" => txs[pop[q].tx].state = "landed"

OneBuyer == \A q, g \in Request : ppc[q] \in Buying /\ ppc[g] \in Buying => q = g

\* Until something fails every payment has its request, or its subscription.
PaymentTells(i) ==
    /\ txs[i].state = "signed" => \E q \in Request : ppc[q] = "send" /\ pop[q].tx = i
    /\ txs[i].state = "pending" => \E q \in Request : ppc[q] = "confirm" /\ pop[q].tx = i
    /\ txs[i].state = "landed" =>
         \/ \E s \in subs : s.tx = i
         \/ \E q \in Request : ppc[q] \in {"confirm", "record"} /\ pop[q].tx = i

\* The user's row is the last purchase's; of one plan alone it ends last.
SubsTell ==
    /\ subs # {} => \E s \in subs : s.plan = user.plan
    /\ (\A s, t \in subs : s.plan = t.plan) =>
         /\ \A s \in subs : s.expires <= user.expires
         /\ \A s, t \in subs : s # t => s.expires <= t.starts \/ t.expires <= s.starts

PurchaseInv ==
    /\ OneBuyer /\ \A q \in Request : RequestTells(q)
    /\ faults = 0 => \A i \in Payments : PaymentTells(i)
    /\ SubsTell

\* --- Balances ---

\* Where a refresher holds a balance it read of this wallet, and which.
Holds(r, w) ==
    \/ bpc[r] = "write" /\ bop[r].wallet = w
    \/ r = "monitor" /\ bpc[r] \in {"next", "write"} /\ w \in todo
Seen(r, w) == IF bpc[r] = "write" /\ bop[r].wallet = w THEN bop[r].lamports ELSE fetched[w]

\* What known lags behind by, and what a balance read lags behind by, has come in
\* and is not yet credited.
CreditInv(w) ==
    /\ credited[w] <= inflow[w]
    /\ known[w] # Null => credited[w] + sol[w] - known[w] <= inflow[w]
    /\ \A r \in Refresher : Holds(r, w) /\ <<r, w>> \notin aged =>
         /\ credited[w] + sol[w] - Seen(r, w) <= inflow[w]
         /\ known[w] # Null => credited[w] + Seen(r, w) - known[w] <= inflow[w]
    /\ \A x \in owed : x.wallet = w /\ <<"admin", w>> \notin aged =>
         /\ x.read => x.known = known[w]
         /\ known[w] # Null => credited[w] + sol[w] + x.amount - known[w] <= inflow[w]

\* Where a refresher can be, and with which wallet.
Places ==
    /\ \A r \in Refresher : bpc[r] \in {"row", "write"} => bop[r].wallet \in Wallet
    /\ bpc["monitor"] # "row"
    /\ bpc["monitor"] = "write" => bop["monitor"].wallet \notin todo

RefreshInv == Places /\ \A w \in Wallet \ stale : CreditInv(w)

\* --- The reserve ---

Busy(w) == {i \in DOMAIN txs : txs[i].from = w /\ txs[i].state \in {"signed", "pending"}}

\* A wallet no two spenders drew on at once covers its one spender and the reserve.
ReserveInv(w) ==
    /\ sol[w] >= Reserve
    /\ \A x, y \in Spenders(w) : x = y
    /\ \A i \in Busy(w) : sol[w] >= txs[i].amount + TxFee + Reserve
    /\ \A h \in Handler :
         pc[h] = "blockhash" /\ owner[Mine(h)] = w => sol[w] >= op[h].total + TxFee + Reserve
    /\ \A q \in Request :
         ppc[q] = "blockhash" /\ pop[q].wallet = w => sol[w] >= Price + TxFee + Reserve

FewStarted ==
    /\ IsFiniteSet({h \in Handler : pc[h] # "idle"})
    /\ IsFiniteSet({q \in Request : ppc[q] # "idle"})

SpendInv ==
    /\ FewStarted
    /\ load.sol >= Reserve => \A w \in Wallet \ crowd : ReserveInv(w)

LoadType ==
    load \in [events : SUBSET Handler, requests : SUBSET Request, refreshes : SUBSET Refresh,
              polls : BOOLEAN, moves : Nat, deposits : Nat, rows : Nat, sol : Nat]

MoneyInv == TypeOK /\ LoadType /\ PayInv /\ PurchaseInv /\ RefreshInv /\ SpendInv
-----------------------------------------------------------------------------
\* --- Transfers ------------------------------------------------------------------

USE FeeAssumption, PoolAssumption, FaultAssumption, PlanAssumption, CalendarAssumption, NullAssumption

\* A transfer keeps who pays what to what end.
Kept(i) == txs'[i].from = txs[i].from /\ txs'[i].amount = txs[i].amount /\ txs'[i].for = txs[i].for

ChainTypeOK == sol \in [Wallet -> Nat] /\ txs \in Seq(TxRecord)

\* A transfer signed.
LEMMA SignFields ==
  ASSUME ChainTypeOK, NEW w \in Wallet, NEW n \in Nat, NEW why \in {"payout", "plan"} \X Nat, Sign(w, n, why)
  PROVE  LET k == Len(txs) + 1 IN
         /\ txs' \in Seq(TxRecord) /\ Len(txs') = k /\ k \in Nat \ {0} /\ k \notin DOMAIN txs
         /\ DOMAIN txs' = DOMAIN txs \cup {k} /\ \A i \in DOMAIN txs : txs'[i] = txs[i]
         /\ txs'[k].from = w /\ txs'[k].amount = n /\ txs'[k].for = why
         /\ txs'[k].state = "signed"
<1> DEFINE x == [from |-> w, amount |-> n, for |-> why, state |-> "signed"]
           k == Len(txs) + 1
<1>1. txs \in Seq(TxRecord) /\ Len(txs) \in Nat /\ DOMAIN txs = 1..Len(txs)
  BY DEF ChainTypeOK
<1>2. x \in TxRecord /\ x.from = w /\ x.amount = n /\ x.for = why /\ x.state = "signed"
  BY DEF TxRecord
<1>3. txs' = Append(txs, x)
  BY DEF Sign
<1> HIDE DEF x
<1>4. /\ txs' \in Seq(TxRecord) /\ Len(txs') = k /\ txs'[k] = x
      /\ DOMAIN txs' = 1..k /\ \A j \in 1..Len(txs) : txs'[j] = txs[j]
  BY <1>1, <1>2, <1>3, AppendProperties
<1> QED
  BY <1>1, <1>2, <1>4

\* A transfer's state changed: sent, dropped, landed or dead.
LEMMA StateFields ==
  ASSUME ChainTypeOK, NEW i \in DOMAIN txs, NEW s \in {"pending", "landed", "dead"},
         txs' = [txs EXCEPT ![i].state = s]
  PROVE  /\ txs' \in Seq(TxRecord) /\ Len(txs') = Len(txs) /\ DOMAIN txs' = DOMAIN txs
         /\ txs'[i].state = s /\ Kept(i)
         /\ \A j \in DOMAIN txs : j # i => txs'[j] = txs[j]
<1> DEFINE x == [txs[i] EXCEPT !.state = s]
<1>1. txs \in Seq(TxRecord) /\ DOMAIN txs = 1..Len(txs) /\ txs[i] \in TxRecord
  BY DEF ChainTypeOK
<1>2. x \in TxRecord /\ x.from = txs[i].from /\ x.amount = txs[i].amount /\ x.for = txs[i].for
      /\ x.state = s
  BY <1>1 DEF TxRecord
<1>3. txs' = [txs EXCEPT ![i] = x]
  BY <1>1
<1> HIDE DEF x
<1>4. txs' \in Seq(TxRecord) /\ Len(txs') = Len(txs)
      /\ \A j \in 1..Len(txs) : txs'[j] = IF j = i THEN x ELSE txs[j]
  <2>1. PICK t \in Seq(TxRecord) : t = txs
    BY <1>1
  <2>2. i \in 1..Len(t) /\ x \in TxRecord
    BY <1>1, <1>2, <2>1
  <2>3. /\ [t EXCEPT ![i] = x] \in Seq(TxRecord) /\ Len([t EXCEPT ![i] = x]) = Len(t)
        /\ \A j \in 1..Len(t) : [t EXCEPT ![i] = x][j] = IF j = i THEN x ELSE t[j]
    BY <2>2, ExceptSeq
  <2> QED
    BY <1>3, <2>1, <2>3
<1> QED
  BY <1>1, <1>2, <1>4 DEF Kept

\* The fields of a transfer have their types.
LEMMA TransferType ==
  ASSUME ChainTypeOK, NEW i \in DOMAIN txs
  PROVE  txs[i].from \in Wallet /\ txs[i].amount \in Nat /\ sol[txs[i].from] \in Nat
         /\ txs[i].state \in {"signed", "pending", "landed", "dead"}
         /\ i \in Nat /\ i # 0 /\ i <= Len(txs) /\ Len(txs) \in Nat
<1>1. txs[i] \in TxRecord /\ DOMAIN txs = 1..Len(txs) /\ Len(txs) \in Nat
  BY DEF ChainTypeOK
<1> QED
  BY <1>1 DEF TxRecord, ChainTypeOK

\* A restart drops what was signed and not sent.
LEMMA RestartFields ==
  ASSUME ChainTypeOK,
         txs' = [i \in DOMAIN txs |->
                   IF txs[i].state = "signed" THEN [txs[i] EXCEPT !.state = "dead"] ELSE txs[i]]
  PROVE  /\ txs' \in Seq(TxRecord) /\ Len(txs') = Len(txs) /\ DOMAIN txs' = DOMAIN txs
         /\ \A i \in DOMAIN txs :
              /\ Kept(i)
              /\ txs'[i].state = IF txs[i].state = "signed" THEN "dead" ELSE txs[i].state
<1>1. txs \in Seq(TxRecord) /\ DOMAIN txs = 1..Len(txs) /\ Len(txs) \in Nat
      /\ \A i \in DOMAIN txs : txs[i] \in TxRecord
  BY DEF ChainTypeOK
<1>2. ASSUME NEW x \in TxRecord PROVE [x EXCEPT !.state = "dead"] \in TxRecord
  BY DEF TxRecord
<1>3. txs' \in [1..Len(txs) -> TxRecord]
  BY <1>1, <1>2
<1>4. txs' \in Seq(TxRecord) /\ Len(txs') = Len(txs) /\ DOMAIN txs' = DOMAIN txs
  BY <1>1, <1>3
<1>5. ASSUME NEW i \in DOMAIN txs
      PROVE  Kept(i) /\ txs'[i].state = IF txs[i].state = "signed" THEN "dead" ELSE txs[i].state
  <2> DEFINE x == [txs[i] EXCEPT !.state = "dead"]
  <2>1. x.from = txs[i].from /\ x.amount = txs[i].amount /\ x.for = txs[i].for /\ x.state = "dead"
    BY <1>1 DEF TxRecord
  <2>2. txs'[i] = IF txs[i].state = "signed" THEN x ELSE txs[i]
    OBVIOUS
  <2> HIDE DEF x
  <2> QED
    BY <2>1, <2>2 DEF Kept
<1> QED
  BY <1>4, <1>5
-----------------------------------------------------------------------------
\* --- Payouts ----------------------------------------------------------------------

PayStep(h) ==
    (\E p \in Position : Start(h, p)) \/ HandlerStep(h) \/ Unknown(h) \/ Reject(h)

\* A step moves one handler at most, which keeps its position.
PayMoves(h) ==
    /\ pc' \in [Handler -> PC] /\ op' \in [Handler -> OpType]
    /\ \A g \in Handler \ {h} : pc'[g] = pc[g] /\ op'[g] = op[g]
    /\ pc[h] # "idle" => Mine(h)' = Mine(h)
    /\ UNCHANGED <<owner, paper, sol>> /\ faults' \in {faults, faults + 1} /\ faults' \in 0..MaxFaults

\* Steps that leave all rows and transfers alone, but may learn something.
Quiet(h) ==
    /\ UNCHANGED <<attempt, ledger, txs>>
    /\ \/ /\ pc[h] = "idle" /\ pc'[h] = "already" /\ Mine(h)' \in Position
          /\ op'[h].paid = op[h].paid
       \/ /\ pc[h] = "calculate" /\ pc'[h] \in {"price", "write"} /\ Mine(h)' = Mine(h)
          /\ (op'[h].paid => Mine(h) \in paper) /\ (pc'[h] = "write" => op'[h].paid)
       \/ /\ op' = op
          /\ \/ pc[h] \in {"already", "calculate", "price"}
                /\ pc'[h] \in {"calculate", "create", "done"}
             \/ pc[h] = "price" /\ pc'[h] = "write"
             \/ pc[h] = "create" /\ pc'[h] = "done"
             \/ pc[h] = "balance" /\ pc'[h] \in {"skip", "failed"}
             \/ /\ pc[h] = "balance" /\ pc'[h] = "blockhash"
                /\ Affords(sol[owner[Mine(h)]], op[h].total)
             \/ pc[h] = "confirm" /\ pc'[h] = "confirmed" /\ txs[op[h].tx].state = "landed"
             \/ pc[h] = "confirm" /\ pc'[h] = "failed"
             \/ pc[h] # "idle" /\ pc'[h] = "done"

\* Steps that write the attempt row's status, or the ledger row.
SetStatus(p, s) == attempt' = [attempt EXCEPT ![p].status = s]

Marks(h) ==
    /\ UNCHANGED txs
    /\ \/ /\ UNCHANGED <<ledger, op>>
          /\ \/ pc[h] = "create" /\ pc'[h] = "balance" /\ attempt[Mine(h)].status = "none"
                /\ SetStatus(Mine(h), "PENDING")
             \/ pc[h] = "skip" /\ pc'[h] = "write" /\ SetStatus(Mine(h), "SKIPPED")
             \/ pc[h] = "failed" /\ pc'[h] = "write" /\ SetStatus(Mine(h), "FAILED")
       \/ /\ UNCHANGED ledger /\ pc[h] = "confirmed" /\ pc'[h] = "write"
          /\ SetStatus(Mine(h), "CONFIRMED") /\ Mine(h)' = Mine(h) /\ op'[h].paid
       \/ /\ UNCHANGED <<attempt, op>> /\ pc[h] = "write" /\ pc'[h] = "done"
          /\ ledger' = IF ledger[Mine(h)] = "none"
                       THEN [ledger EXCEPT ![Mine(h)] = IF op[h].paid THEN "charged" ELSE "plain"]
                       ELSE ledger

\* Steps that sign the transfer, or hand it over.
Sends(h) ==
    /\ UNCHANGED ledger
    /\ \/ /\ pc[h] = "blockhash" /\ pc'[h] = "send" /\ Mine(h)' = Mine(h)
          /\ op'[h].paid = op[h].paid /\ op'[h].tx = Len(txs) + 1
          /\ Sign(owner[Mine(h)], op[h].total, <<"payout", Mine(h)>>)
          /\ attempt' = [attempt EXCEPT ![Mine(h)] = [status |-> "SUBMITTED", tx |-> Len(txs) + 1]]
       \/ /\ pc[h] = "send" /\ pc'[h] \in {"confirm", "failed"} /\ UNCHANGED <<attempt, op>>
          /\ \E s \in {"pending", "dead"} :
               /\ txs' = [txs EXCEPT ![op[h].tx].state = s]
               /\ pc'[h] = "confirm" => s = "pending"

\* A handler's steps are these.
LEMMA PayTable ==
  ASSUME PayoutTypeOK, ChainTypeOK, NEW h \in Handler, PayStep(h)
  PROVE  PayMoves(h) /\ (Quiet(h) \/ Marks(h) \/ Sends(h))
<1>0. /\ pc \in [Handler -> PC] /\ op \in [Handler -> OpType] /\ op[h] \in OpType
      /\ faults \in 0..MaxFaults /\ (pc[h] # "idle" => Mine(h) \in Position)
      /\ Len(txs) \in Nat
  BY DEF PayoutTypeOK, Mine, ChainTypeOK
<1>a. ASSUME NEW to \in PC, pc' = [pc EXCEPT ![h] = to], UNCHANGED op, UNCHANGED <<owner, paper, sol>>,
             faults' \in {faults, faults + 1}, faults' \in 0..MaxFaults
      PROVE  PayMoves(h) /\ pc'[h] = to
  BY <1>0, <1>a DEF PayMoves, Mine
<1>b. ASSUME NEW to \in PC, pc' = [pc EXCEPT ![h] = to], NEW o \in OpType, op' = [op EXCEPT ![h] = o],
             pc[h] # "idle" => o.position = op[h].position, UNCHANGED <<owner, paper, sol, faults>>
      PROVE  PayMoves(h) /\ pc'[h] = to /\ op'[h] = o
  BY <1>0, <1>b DEF PayMoves, Mine
<1>1. CASE \E p \in Position : Start(h, p)
  <2>1. PICK p \in Position : Start(h, p)
    BY <1>1
  <2> DEFINE o == [op[h] EXCEPT !.position = p]
  <2>2. o \in OpType /\ o.position = p /\ o.paid = op[h].paid
    BY <1>0 DEF OpType
  <2>3. op' = [op EXCEPT ![h] = o]
    BY <1>0, <2>1 DEF Start
  <2> HIDE DEF o
  <2>4. PayMoves(h) /\ pc'[h] = "already" /\ op'[h] = o
    BY <1>b, <2>1, <2>2, <2>3 DEF Start, At, PC, chainVars
  <2> QED
    BY <2>1, <2>2, <2>4 DEF Quiet, Start, At, Mine, chainVars
<1>2. CASE FindLedger(h) \/ NoFee(h) \/ NoPayout(h) \/ Priced(h) \/ Defer(h) \/ ReadBalance(h)
           \/ Outcome(h)
  <2>1. PayMoves(h) /\ \E to \in PC : pc'[h] = to /\ pc' = [pc EXCEPT ![h] = to]
    BY <1>0, <1>2, <1>a DEF FindLedger, NoFee, NoPayout, Priced, Defer, ReadBalance, Outcome, At,
       PC, chainVars
  <2> QED
    BY <1>0, <1>2, <2>1 DEF FindLedger, NoFee, NoPayout, Priced, Defer, ReadBalance, Outcome, At,
       PC, chainVars, Quiet
<1>3. CASE Calculate(h)
  <2>1. PICK r \in Rewards : op' = [op EXCEPT ![h].total = Pool + r, ![h].paid = Mine(h) \in paper]
    BY <1>3 DEF Calculate
  <2> DEFINE t == Pool + r
             d == (Mine(h) \in paper)
             o == [op[h] EXCEPT !.total = t, !.paid = d]
  <2>2. t \in Nat /\ d \in BOOLEAN
    OBVIOUS
  <2>3. op' = [op EXCEPT ![h] = o]
    BY <1>0, <2>1
  <2> HIDE DEF t, d
  <2>4. o \in OpType /\ o.position = op[h].position /\ o.paid = d
    BY <1>0, <2>2 DEF OpType
  <2> HIDE DEF o
  <2>5. pc' = [pc EXCEPT ![h] = IF d THEN "write" ELSE "price"] /\ pc[h] = "calculate"
        /\ UNCHANGED <<owner, paper, ledger, attempt, faults, sol, txs>>
    BY <1>3 DEF Calculate, At, d, chainVars
  <2>6. PayMoves(h) /\ pc'[h] = (IF d THEN "write" ELSE "price") /\ op'[h] = o
    BY <1>b, <2>3, <2>4, <2>5 DEF PC
  <2>7. CASE d
    <3>1. op'[h].paid /\ pc'[h] = "write" /\ Mine(h)' = Mine(h)
      BY <2>4, <2>6, <2>7 DEF Mine
    <3> QED
      BY <2>5, <2>6, <2>7, <3>1 DEF Quiet, d
  <2>8. CASE ~d
    <3>1. ~op'[h].paid /\ pc'[h] = "price" /\ Mine(h)' = Mine(h)
      BY <2>4, <2>6, <2>8 DEF Mine
    <3> QED
      BY <2>5, <2>6, <3>1 DEF Quiet
  <2> QED
    BY <2>7, <2>8
<1>4. CASE CreateAttempt(h) \/ Skip(h) \/ MarkFailed(h) \/ WriteLedger(h)
  <2>1. PayMoves(h) /\ \E to \in PC : pc'[h] = to /\ pc' = [pc EXCEPT ![h] = to]
    BY <1>0, <1>4, <1>a DEF CreateAttempt, Skip, MarkFailed, WriteLedger, At, PC, chainVars
  <2> QED
    BY <1>0, <1>4, <2>1 DEF CreateAttempt, Skip, MarkFailed, WriteLedger, At, PC, chainVars, Marks,
       SetStatus
<1>5. CASE MarkConfirmed(h)
  <2> DEFINE o == [op[h] EXCEPT !.paid = TRUE]
  <2>1. o \in OpType /\ o.position = op[h].position /\ o.paid = TRUE
    BY <1>0 DEF OpType
  <2>2. op' = [op EXCEPT ![h] = o] /\ pc' = [pc EXCEPT ![h] = "write"] /\ pc[h] = "confirmed"
        /\ UNCHANGED <<owner, paper, ledger, faults, sol, txs>> /\ SetStatus(Mine(h), "CONFIRMED")
    BY <1>0, <1>5 DEF MarkConfirmed, At, chainVars, SetStatus
  <2> HIDE DEF o
  <2>3. PayMoves(h) /\ pc'[h] = "write" /\ op'[h] = o
    BY <1>b, <2>1, <2>2 DEF PC
  <2> QED
    BY <2>1, <2>2, <2>3 DEF Marks, Mine
<1>6. CASE Submit(h)
  <2> DEFINE k == Len(txs) + 1
             o == [op[h] EXCEPT !.tx = k]
  <2>0. k \in Nat
    BY <1>0
  <2>1. o \in OpType /\ o.position = op[h].position /\ o.paid = op[h].paid /\ o.tx = k
    BY <1>0, <2>0 DEF OpType
  <2>2. op' = [op EXCEPT ![h] = o] /\ pc' = [pc EXCEPT ![h] = "send"] /\ pc[h] = "blockhash"
        /\ UNCHANGED <<owner, paper, ledger, faults, sol>>
        /\ Sign(owner[Mine(h)], op[h].total, <<"payout", Mine(h)>>)
        /\ attempt' = [attempt EXCEPT ![Mine(h)] = [status |-> "SUBMITTED", tx |-> k]]
    BY <1>0, <1>6 DEF Submit, At
  <2> HIDE DEF o
  <2>3. PayMoves(h) /\ pc'[h] = "send" /\ op'[h] = o
    BY <1>b, <2>1, <2>2 DEF PC
  <2> QED
    BY <2>1, <2>2, <2>3 DEF Sends, Mine
<1>7. CASE Send(h) \/ (Unknown(h) /\ pc[h] = "send")
  <2>1. PayMoves(h) /\ \E to \in PC : pc'[h] = to /\ pc' = [pc EXCEPT ![h] = to]
    BY <1>0, <1>7, <1>a DEF Send, Unknown, At, PC
  <2>2. UNCHANGED <<ledger, attempt, op>> /\ pc[h] = "send"
    BY <1>7 DEF Send, Unknown, At
  <2>3. CASE Send(h)
    BY <1>0, <2>1, <2>2, <2>3 DEF Send, At, PC, Sends, Broadcast, Drop
  <2>4. CASE Unknown(h) /\ pc[h] = "send"
    BY <1>0, <2>1, <2>2, <2>4 DEF Unknown, At, PC, Sends, Broadcast, Drop
  <2> QED
    BY <1>7, <2>3, <2>4
<1>8. CASE Unknown(h) /\ pc[h] # "send"
  <2>1. pc[h] = "confirm" /\ pc' = [pc EXCEPT ![h] = "failed"] /\ faults' = faults + 1
        /\ faults < MaxFaults /\ UNCHANGED <<owner, paper, ledger, attempt, op, sol, txs>>
    BY <1>8 DEF Unknown, At
  <2>2. PayMoves(h) /\ pc'[h] = "failed"
    BY <1>0, <1>a, <2>1 DEF PC
  <2> QED
    BY <2>1, <2>2 DEF Quiet
<1>9. CASE Reject(h)
  <2>1. pc[h] # "idle" /\ pc' = [pc EXCEPT ![h] = "done"] /\ faults' = faults + 1
        /\ faults < MaxFaults /\ UNCHANGED <<owner, paper, ledger, attempt, op, sol, txs>>
    BY <1>9 DEF Reject, chainVars
  <2>2. PayMoves(h) /\ pc'[h] = "done"
    BY <1>0, <1>a, <2>1 DEF PC
  <2> QED
    BY <2>1, <2>2 DEF Quiet
<1> QED
  BY <1>1, <1>2, <1>3, <1>4, <1>5, <1>6, <1>7, <1>8, <1>9 DEF PayStep, HandlerStep

\* What no step of a handler changes: rows that are decided, rows and transfers
\* of other positions, transfers that landed.
PayKeeps(h) ==
    /\ \A p \in Position :
         /\ attempt[p].status \in Terminal => attempt'[p] = attempt[p]
         /\ ledger[p] # "none" => ledger'[p] = ledger[p]
         /\ p # Mine(h) =>
              attempt'[p] = attempt[p] /\ ledger'[p] = ledger[p] /\ PayoutOf(p)' = PayoutOf(p)
         /\ Twice(p) => Twice(p)'
         /\ \/ PayoutOf(p)' = PayoutOf(p)
            \/ /\ p = Mine(h) /\ pc[h] = "blockhash" /\ PayoutOf(p)' = {Len(txs) + 1}
               /\ attempt'[p] = [status |-> "SUBMITTED", tx |-> Len(txs) + 1]
    /\ \A i \in DOMAIN txs :
         /\ i \in DOMAIN txs' /\ Kept(i)
         /\ txs[i].for # <<"payout", Mine(h)>> \/ txs[i].state = "landed" => txs'[i] = txs[i]
    /\ pc[h] \notin Paying \cup {"create"} => UNCHANGED <<attempt, txs>>

\* What a row's status becomes.
LEMMA StatusFields ==
  ASSUME PayoutTypeOK, NEW p \in Position, NEW s \in Status, SetStatus(p, s)
  PROVE  /\ attempt' \in [Position -> [status : Status, tx : Nat]]
         /\ attempt'[p].status = s /\ attempt'[p].tx = attempt[p].tx
         /\ \A r \in Position \ {p} : attempt'[r] = attempt[r]
<1> DEFINE a == [attempt[p] EXCEPT !.status = s]
<1>1. attempt \in [Position -> [status : Status, tx : Nat]]
  BY DEF PayoutTypeOK
<1>2. a \in [status : Status, tx : Nat] /\ a.status = s /\ a.tx = attempt[p].tx
  BY <1>1
<1>3. attempt' = [attempt EXCEPT ![p] = a]
  BY <1>1 DEF SetStatus
<1> HIDE DEF a
<1> QED
  BY <1>1, <1>2, <1>3

\* The transfer a handler at "send" holds.
LEMMA Held ==
  ASSUME PayoutTypeOK, ChainTypeOK, PayInv, NEW h \in Handler, pc[h] = "send"
  PROVE  op[h].tx \in DOMAIN txs /\ txs[op[h].tx].for = <<"payout", Mine(h)>>
         /\ txs[op[h].tx].state = "signed" /\ Mine(h) \in Position
BY DEF PayInv, RowOf, PayoutOf, For, PayoutTypeOK, Mine

\* Every step of a handler keeps them, and the types.
LEMMA PayGlobal ==
  ASSUME PayoutTypeOK, ChainTypeOK, PayInv, NEW h \in Handler, PayStep(h)
  PROVE  PayKeeps(h) /\ PayoutTypeOK' /\ txs' \in Seq(TxRecord)
<1>0. /\ PayMoves(h) /\ (Quiet(h) \/ Marks(h) \/ Sends(h)) /\ Len(txs) \in Nat
      /\ (pc[h] # "idle" => Mine(h) \in Position) /\ txs \in Seq(TxRecord)
      /\ DOMAIN txs = 1..Len(txs) /\ owner \in [Position -> Wallet] /\ op[h] \in OpType
      /\ attempt \in [Position -> [status : Status, tx : Nat]]
      /\ (\A p \in Position : attempt[p].tx <= Len(txs) + 1)
      /\ ledger \in [Position -> {"none", "plain", "charged"}]
  BY PayTable DEF PayoutTypeOK, Mine, ChainTypeOK
<1>1. /\ pc' \in [Handler -> PC] /\ op' \in [Handler -> OpType] /\ owner' = owner /\ paper' = paper
      /\ faults' \in 0..MaxFaults
      /\ \A g \in Handler : pc[g] # "idle" => Mine(g)' = Mine(g)
  BY <1>0 DEF PayMoves, Mine
<1>2. \A g \in Handler : pc'[g] # "idle" => Mine(g)' \in Position
  <2>1. pc'[h] # "idle" => Mine(h)' \in Position
    BY <1>0, <1>1 DEF Quiet, Marks, Sends, Mine
  <2> QED
    BY <1>0, <2>1 DEF PayMoves, PayoutTypeOK, Mine
<1>3. \A p \in Position : Twice(p) => Twice(p)'
  <2> SUFFICES ASSUME NEW p \in Position, NEW f \in Handler, NEW g \in Handler, f # g,
                      Mine(f) = p, Mine(g) = p
               PROVE  Twice(p)'
    BY DEF Twice
  <2>1. pc[f] # "idle" /\ pc[g] # "idle"
    BY DEF PayInv, HandlerTells, Mine, NoHandler
  <2> QED
    BY <1>1, <2>1 DEF Twice
<1>4. RowOf(h)
  BY DEF PayInv
<1>5. CASE Quiet(h)
  <2>1. UNCHANGED <<attempt, ledger, txs>>
    BY <1>5 DEF Quiet
  <2>2. \A p \in Position : PayoutOf(p)' = PayoutOf(p)
    BY <2>1 DEF PayoutOf, For
  <2> QED
    BY <1>0, <1>1, <1>2, <1>3, <2>1, <2>2 DEF PayKeeps, PayoutTypeOK, Kept, Mine
<1>6. CASE Marks(h)
  <2>1. pc[h] # "idle" /\ Mine(h) \in Position /\ UNCHANGED txs
    BY <1>0, <1>6 DEF Marks
  <2>2. \A p \in Position : PayoutOf(p)' = PayoutOf(p)
    BY <2>1 DEF PayoutOf, For
  <2>3. /\ attempt' \in [Position -> [status : Status, tx : Nat]]
        /\ attempt'[Mine(h)].tx = attempt[Mine(h)].tx
        /\ \A r \in Position \ {Mine(h)} : attempt'[r] = attempt[r]
    <3>1. UNCHANGED attempt \/ \E s \in Status : SetStatus(Mine(h), s)
      BY <1>6 DEF Marks, Status, Terminal
    <3> QED
      BY <1>0, <2>1, <3>1, StatusFields
  <2>4. /\ ledger' \in [Position -> {"none", "plain", "charged"}]
        /\ \A p \in Position : (ledger[p] # "none" \/ p # Mine(h)) => ledger'[p] = ledger[p]
    BY <1>0, <1>6, <2>1 DEF Marks
  <2>5. attempt[Mine(h)].status \in Terminal => attempt'[Mine(h)] = attempt[Mine(h)]
    <3> SUFFICES ASSUME attempt[Mine(h)].status \in Terminal, ~UNCHANGED attempt PROVE FALSE
      OBVIOUS
    <3>1. pc[h] \in {"create", "skip", "failed", "confirmed"}
          /\ (pc[h] = "create" => attempt[Mine(h)].status = "none")
      BY <1>6 DEF Marks
    <3> QED
      BY <1>4, <3>1 DEF RowOf, Terminal
  <2>6. pc[h] \notin Paying \cup {"create"} => UNCHANGED attempt
    BY <1>6 DEF Marks, Paying
  <2>7. \A p \in Position : attempt'[p].tx <= Len(txs') + 1
    BY <1>0, <2>1, <2>3
  <2>8. PayKeeps(h)
    BY <1>3, <2>1, <2>2, <2>3, <2>4, <2>5, <2>6 DEF PayKeeps, Kept
  <2> QED
    BY <1>0, <1>1, <1>2, <2>1, <2>3, <2>4, <2>7, <2>8 DEF PayoutTypeOK, Mine
<1>7. CASE Sends(h) /\ pc[h] = "blockhash"
  <2>0. pc[h] # "idle" /\ Mine(h) \in Position
    BY <1>0, <1>7
  <2>a. PICK p \in Position : p = Mine(h)
    BY <2>0
  <2>b. PICK w \in Wallet : w = owner[p]
    BY <1>0
  <2>c. PICK n \in Nat : n = op[h].total
    BY <1>0 DEF OpType
  <2>d. PICK k \in Nat : k = Len(txs) + 1
    BY <1>0
  <2>e. <<"payout", p>> \in {"payout", "plan"} \X Nat
    BY PoolAssumption
  <2>2. Sign(w, n, <<"payout", p>>) /\ UNCHANGED ledger /\ Mine(h)' = p
        /\ attempt' = [attempt EXCEPT ![p] = [status |-> "SUBMITTED", tx |-> k]]
    BY <1>7, <2>a, <2>b, <2>c, <2>d DEF Sends
  <2>3. /\ txs' \in Seq(TxRecord) /\ Len(txs') = k /\ k \in Nat \ {0} /\ k \notin DOMAIN txs
        /\ DOMAIN txs' = DOMAIN txs \cup {k} /\ (\A j \in DOMAIN txs : txs'[j] = txs[j])
        /\ txs'[k].for = <<"payout", p>>
    BY <2>2, <2>d, <2>e, SignFields
  <2>4. attempt[p].status = "PENDING"
    BY <1>4, <1>7, <2>a DEF RowOf
  <2>5. PayoutOf(p) = {}
    BY <2>4 DEF PayInv, RowTells
  <2>6. /\ attempt' \in [Position -> [status : Status, tx : Nat]]
        /\ attempt'[p] = [status |-> "SUBMITTED", tx |-> k]
        /\ \A r \in Position \ {p} : attempt'[r] = attempt[r]
    <3>1. [status |-> "SUBMITTED", tx |-> k] \in [status : Status, tx : Nat]
      BY DEF Status
    <3> QED
      BY <1>0, <2>2, <3>1
  <2>7. PayoutOf(p)' = {k}
    BY <2>3, <2>5 DEF PayoutOf, For
  <2>8. \A r \in Position \ {p} : PayoutOf(r)' = PayoutOf(r)
    BY <2>3 DEF PayoutOf, For
  <2>9. \A r \in Position : attempt'[r].tx <= Len(txs') + 1
    <3> SUFFICES ASSUME NEW r \in Position PROVE attempt'[r].tx <= Len(txs') + 1
      OBVIOUS
    <3>1. attempt'[r].tx = k \/ attempt'[r].tx = attempt[r].tx
      BY <2>6
    <3>2. attempt[r].tx \in Nat /\ attempt[r].tx <= k /\ Len(txs') = k
      BY <1>0, <2>3, <2>d
    <3> QED
      BY <3>1, <3>2
  <2>10. ASSUME NEW r \in Position
         PROVE  /\ attempt[r].status \in Terminal => attempt'[r] = attempt[r]
                /\ ledger[r] # "none" => ledger'[r] = ledger[r]
                /\ r # Mine(h) => attempt'[r] = attempt[r] /\ ledger'[r] = ledger[r]
                                   /\ PayoutOf(r)' = PayoutOf(r)
                /\ \/ PayoutOf(r)' = PayoutOf(r)
                   \/ /\ r = Mine(h) /\ pc[h] = "blockhash" /\ PayoutOf(r)' = {Len(txs) + 1}
                      /\ attempt'[r] = [status |-> "SUBMITTED", tx |-> Len(txs) + 1]
    <3>1. CASE r = p
      BY <1>7, <2>2, <2>4, <2>6, <2>7, <2>a, <2>d, <3>1 DEF Terminal
    <3>2. CASE r # p
      BY <2>2, <2>6, <2>8, <2>a, <3>2
    <3> QED
      BY <3>1, <3>2
  <2>11. \A i \in DOMAIN txs : i \in DOMAIN txs' /\ Kept(i) /\ txs'[i] = txs[i]
    BY <2>3 DEF Kept
  <2>12. PayKeeps(h)
    BY <1>3, <1>7, <2>10, <2>11 DEF PayKeeps, Paying
  <2> QED
    BY <1>0, <1>1, <1>2, <2>2, <2>3, <2>6, <2>9, <2>12 DEF PayoutTypeOK, Mine
<1>8. CASE Sends(h) /\ pc[h] = "send"
  <2> DEFINE k == op[h].tx
  <2>0. UNCHANGED <<attempt, ledger, op>>
    BY <1>8 DEF Sends
  <2>1. k \in DOMAIN txs /\ txs[k].for = <<"payout", Mine(h)>> /\ txs[k].state = "signed"
    BY <1>8, Held
  <2>2. PICK s \in {"pending", "dead"} : txs' = [txs EXCEPT ![k].state = s]
    BY <1>8 DEF Sends
  <2>3. /\ txs' \in Seq(TxRecord) /\ Len(txs') = Len(txs) /\ DOMAIN txs' = DOMAIN txs
        /\ txs'[k].state = s /\ Kept(k) /\ \A j \in DOMAIN txs : j # k => txs'[j] = txs[j]
    BY <2>1, <2>2, StateFields
  <2>4. \A j \in DOMAIN txs : Kept(j) /\ (j # k => txs'[j] = txs[j])
    BY <2>3 DEF Kept
  <2> HIDE DEF k
  <2>5. \A p \in Position : PayoutOf(p)' = PayoutOf(p)
    BY <2>3, <2>4 DEF PayoutOf, For, Kept
  <2>6. PayKeeps(h)
    BY <1>3, <1>8, <2>0, <2>1, <2>3, <2>4, <2>5 DEF PayKeeps, Paying
  <2> QED
    BY <1>0, <1>1, <1>2, <2>0, <2>3, <2>6 DEF PayoutTypeOK, Mine
<1> QED
  BY <1>0, <1>5, <1>6, <1>7, <1>8 DEF Sends

\* What is unpaid stays so while another handler of the position is past its decision.
LEMMA UnpaidStays ==
  ASSUME PayoutTypeOK, ChainTypeOK, PayInv, NEW h \in Handler, PayStep(h), NEW p \in Position,
         NEW g \in Handler, Mine(g) = p, g # h \/ pc[h] # "blockhash", Unpaid(p)
  PROVE  Unpaid(p)'
<1>1. PayKeeps(h)
  BY PayGlobal
<1>2. CASE attempt[p].status = "FAILED"
  BY <1>1, <1>2 DEF PayKeeps, Terminal, Unpaid
<1>3. CASE Twice(p)
  BY <1>1, <1>3 DEF PayKeeps, Unpaid
<1>4. CASE PayoutOf(p) = {} /\ PayoutOf(p)' = PayoutOf(p)
  BY <1>4 DEF Unpaid
<1>5. CASE p = Mine(h) /\ pc[h] = "blockhash"
  BY <1>3, <1>5 DEF Twice
<1> QED
  BY <1>1, <1>2, <1>3, <1>4, <1>5 DEF PayKeeps, Unpaid

\* The other handlers' rows, and what they know, are as they were.
LEMMA OthersPay ==
  ASSUME PayoutTypeOK, ChainTypeOK, PayInv, NEW h \in Handler, PayStep(h), NEW g \in Handler \ {h}
  PROVE  pc'[g] = pc[g] /\ op'[g] = op[g] /\ Mine(g)' = Mine(g) /\ RowOf(g)' /\ HandlerTells(g)'
<1>1. PayKeeps(h) /\ PayMoves(h) /\ (Quiet(h) \/ Marks(h) \/ Sends(h))
  BY PayGlobal, PayTable
<1>2. pc'[g] = pc[g] /\ op'[g] = op[g] /\ Mine(g)' = Mine(g)
  BY <1>1 DEF PayMoves, Mine
<1>3. RowOf(g) /\ HandlerTells(g) /\ (pc[g] # "idle" => Mine(g) \in Position) /\ paper' = paper
  BY <1>1 DEF PayInv, PayoutTypeOK, Mine, PayMoves
<1>4. CASE pc[g] \in Paying
  <2>0. PICK p \in Position : p = Mine(g)
    BY <1>3, <1>4 DEF Paying
  <2>1. attempt[p].status # "none"
    BY <1>3, <1>4, <2>0 DEF RowOf, Paying
  <2>2. attempt'[p] = attempt[p] /\ PayoutOf(p)' = PayoutOf(p) /\ \A i \in PayoutOf(p) : txs'[i] = txs[i]
    <3>1. CASE p # Mine(h)
      <4>1. attempt'[p] = attempt[p] /\ PayoutOf(p)' = PayoutOf(p)
        BY <1>1, <3>1 DEF PayKeeps
      <4>2. ASSUME NEW i \in PayoutOf(p) PROVE txs'[i] = txs[i]
        <5>1. i \in DOMAIN txs /\ txs[i].for = <<"payout", p>>
          BY DEF PayoutOf, For
        <5>2. <<"payout", p>> # <<"payout", Mine(h)>>
          BY <3>1
        <5> QED
          BY <1>1, <5>1, <5>2 DEF PayKeeps
      <4> QED
        BY <4>1, <4>2
    <3>2. CASE p = Mine(h)
      <4>1. pc[h] \notin Paying
        BY <1>4, <2>0, <3>2 DEF PayInv, OnePayer
      <4>2. UNCHANGED <<attempt, txs>>
        <5>1. CASE pc[h] = "create"
          BY <1>1, <2>1, <3>2, <5>1 DEF Quiet, Marks, Sends
        <5> QED
          BY <1>1, <4>1, <5>1 DEF PayKeeps
      <4> QED
        BY <4>2 DEF PayoutOf, For
    <3> QED
      BY <3>1, <3>2
  <2>3. RowOf(g)'
    BY <1>2, <1>3, <2>0, <2>2 DEF RowOf
  <2>4. HandlerTells(g)'
    BY <1>2, <1>3, <1>4, <2>0, <2>2 DEF HandlerTells, Paying
  <2> QED
    BY <1>2, <2>3, <2>4
<1>5. CASE pc[g] \notin Paying
  <2>1. RowOf(g)'
    BY <1>2, <1>5 DEF RowOf, Paying
  <2>2. pc[g] = "idle" => HandlerTells(g)'
    BY <1>2, <1>3 DEF HandlerTells, NoHandler
  <2>3. ASSUME pc[g] # "idle" PROVE HandlerTells(g)'
    <3>0. PICK p \in Position : p = Mine(g)
      BY <1>3, <2>3
    <3>1. op[g].paid => p \in paper \/ attempt'[p].status = "CONFIRMED"
      BY <1>1, <1>3, <3>0 DEF HandlerTells, PayKeeps, Terminal
    <3>2. pc[g] = "write" /\ ~op[g].paid => Unpaid(p)'
      BY <1>3, <3>0, UnpaidStays DEF HandlerTells
    <3> QED
      BY <1>2, <1>3, <2>3, <3>0, <3>1, <3>2 DEF HandlerTells
  <2> QED
    BY <1>2, <2>1, <2>2, <2>3
<1> QED
  BY <1>4, <1>5


\* A handler that writes the ledger without a charge, and past no attempt, denies nothing.
LEMMA NoAttempt ==
  ASSUME PayoutTypeOK, PayInv, NEW h \in Handler, NEW p \in Position, Mine(h) = p, pc[h] \in Deciding
  PROVE  Unpaid(p)
<1>1. CASE attempt[p].status = "none"
  BY <1>1 DEF PayInv, RowTells, Unpaid
<1>2. CASE attempt[p].status # "none"
  BY <1>2 DEF PayInv, RowTells, Unpaid, Twice
<1> QED
  BY <1>1, <1>2

\* The stepping handler's row, and what it knows.
LEMMA OwnPay ==
  ASSUME PayoutTypeOK, ChainTypeOK, PayInv, NEW h \in Handler, PayStep(h)
  PROVE  RowOf(h)' /\ HandlerTells(h)'
<1>1. PayKeeps(h) /\ PayMoves(h) /\ (Quiet(h) \/ Marks(h) \/ Sends(h)) /\ PayoutTypeOK'
  BY PayGlobal, PayTable
<1>2. RowOf(h) /\ HandlerTells(h) /\ (pc[h] # "idle" => Mine(h) \in Position) /\ paper' = paper
  BY <1>1 DEF PayInv, PayoutTypeOK, Mine, PayMoves
<1>3. CASE pc[h] = "idle"
  <2>1. pc'[h] = "already" /\ op'[h].paid = op[h].paid
    BY <1>1, <1>3 DEF Quiet, Marks, Sends
  <2>2. ~op[h].paid
    BY <1>2, <1>3 DEF HandlerTells, NoHandler
  <2> QED
    BY <2>1, <2>2 DEF RowOf, HandlerTells
<1>4. CASE pc[h] # "idle"
  <2>0. PICK p \in Position : p = Mine(h)
    BY <1>2, <1>4
  <2>1. Mine(h)' = p /\ pc'[h] # "idle"
    BY <1>1, <1>4, <2>0 DEF PayMoves, Quiet, Marks, Sends
  <2>2. op[h].paid => p \in paper \/ attempt'[p].status = "CONFIRMED"
    BY <1>1, <1>2, <2>0 DEF HandlerTells, PayKeeps, Terminal
  <2>3. SUFFICES /\ pc'[h] \in {"balance", "skip", "blockhash"} => attempt'[p].status = "PENDING"
                 /\ pc'[h] \in {"send", "confirm", "confirmed"} =>
                      /\ attempt'[p].status = "SUBMITTED" /\ attempt'[p].tx = op'[h].tx
                      /\ op'[h].tx \in PayoutOf(p)'
                 /\ pc'[h] = "send" => txs'[op'[h].tx].state = "signed"
                 /\ pc'[h] = "confirmed" => txs'[op'[h].tx].state = "landed"
                 /\ pc'[h] = "failed" => attempt'[p].status \in {"PENDING", "SUBMITTED"}
                 /\ op'[h].paid => p \in paper \/ attempt'[p].status = "CONFIRMED"
                 /\ pc'[h] = "write" /\ ~op'[h].paid => Unpaid(p)'
    BY <1>2, <2>1 DEF RowOf, HandlerTells
  <2>4. CASE Quiet(h)
    <3>1. UNCHANGED <<attempt, ledger, txs>> /\ PayoutOf(p)' = PayoutOf(p)
      BY <2>4 DEF Quiet, PayoutOf, For
    <3>2. CASE op' = op
      <4>1. pc'[h] = "write" => pc[h] = "price" \/ op'[h].paid
        BY <1>4, <2>4, <3>2 DEF Quiet
      <4>2. pc'[h] = "write" /\ ~op'[h].paid => Unpaid(p)'
        BY <2>0, <4>1, NoAttempt, UnpaidStays DEF Deciding
      <4>3. /\ pc'[h] \in {"balance", "send", "confirm"} => FALSE
            /\ pc'[h] \in {"skip", "blockhash"} => pc[h] = "balance"
            /\ pc'[h] = "failed" => pc[h] \in {"balance", "confirm"}
            /\ pc'[h] = "confirmed" => pc[h] = "confirm" /\ txs[op[h].tx].state = "landed"
        BY <1>4, <2>4, <3>2 DEF Quiet
      <4> QED
        BY <1>2, <2>0, <2>2, <3>1, <3>2, <4>2, <4>3 DEF RowOf
    <3>3. CASE op' # op
      <4>1. pc'[h] \in {"price", "write"} /\ (op'[h].paid => p \in paper) /\ (pc'[h] = "write" => op'[h].paid)
        BY <1>4, <2>0, <2>4, <3>3 DEF Quiet
      <4> QED
        BY <4>1
    <3> QED
      BY <3>2, <3>3
  <2>5. CASE Marks(h)
    <3>1. PayoutOf(p)' = PayoutOf(p)
      BY <2>5 DEF Marks, PayoutOf, For
    <3>2. CASE pc[h] = "create"
      BY <1>1, <2>0, <2>2, <2>5, <3>2, StatusFields DEF Marks, Status
    <3>3. CASE pc[h] = "skip"
      <4>1. PayoutOf(p) = {}
        BY <1>2, <2>0, <3>3 DEF RowOf, PayInv, RowTells
      <4> QED
        BY <2>0, <2>2, <2>5, <3>1, <3>3, <4>1 DEF Marks, Unpaid
    <3>4. CASE pc[h] = "failed"
      <4>1. pc'[h] = "write" /\ attempt'[p].status = "FAILED" /\ op' = op
        BY <2>0, <2>5, <3>4, StatusFields DEF Marks, Status, Terminal
      <4> QED
        BY <2>2, <4>1 DEF Unpaid
    <3>5. CASE pc[h] = "confirmed"
      <4>1. pc'[h] = "write" /\ attempt'[p].status = "CONFIRMED" /\ op'[h].paid
        BY <2>0, <2>5, <3>5, StatusFields DEF Marks, Status, Terminal
      <4> QED
        BY <4>1
    <3>6. CASE pc[h] = "write"
      BY <2>2, <2>5, <3>6 DEF Marks
    <3> QED
      BY <2>5, <3>2, <3>3, <3>4, <3>5, <3>6 DEF Marks
  <2>6. CASE Sends(h) /\ pc[h] = "blockhash"
    <3>1. attempt[p].status = "PENDING" /\ PayoutOf(p) = {}
      BY <1>2, <2>0, <2>6 DEF RowOf, PayInv, RowTells
    <3>2. /\ pc'[h] = "send" /\ op'[h].paid = op[h].paid /\ op'[h].tx = Len(txs) + 1
          /\ Sign(owner[p], op[h].total, <<"payout", p>>)
          /\ attempt' = [attempt EXCEPT ![p] = [status |-> "SUBMITTED", tx |-> Len(txs) + 1]]
      BY <2>0, <2>6 DEF Sends
    <3>3. op[h].total \in Nat /\ owner[p] \in Wallet /\ <<"payout", p>> \in {"payout", "plan"} \X Nat
      BY DEF PayoutTypeOK, OpType
    <3>4. txs'[Len(txs) + 1].state = "signed" /\ txs'[Len(txs) + 1].for = <<"payout", p>>
          /\ Len(txs) + 1 \in DOMAIN txs'
      BY <3>2, <3>3, SignFields
    <3>5. attempt'[p] = [status |-> "SUBMITTED", tx |-> Len(txs) + 1]
      BY <3>2 DEF PayoutTypeOK
    <3>6. Len(txs) + 1 \in PayoutOf(p)'
      BY <3>4 DEF PayoutOf, For
    <3> QED
      BY <2>2, <3>2, <3>4, <3>5, <3>6
  <2>7. CASE Sends(h) /\ pc[h] = "send"
    <3>1. pc'[h] \in {"confirm", "failed"} /\ UNCHANGED <<attempt, op>>
      BY <2>7 DEF Sends
    <3>2. PayoutOf(p)' = PayoutOf(p)
      BY <1>1, <2>7 DEF PayKeeps
    <3> QED
      BY <1>2, <2>0, <2>2, <2>7, <3>1, <3>2 DEF RowOf
  <2> QED
    BY <1>1, <2>4, <2>5, <2>6, <2>7 DEF Sends
<1> QED
  BY <1>3, <1>4


\* What a position's rows say, after the step.
LEMMA RowsPay ==
  ASSUME PayoutTypeOK, ChainTypeOK, PayInv, NEW h \in Handler, PayStep(h), NEW p \in Position
  PROVE  RowTells(p)' /\ LedgerTells(p)'
<1>1. PayKeeps(h) /\ PayMoves(h) /\ (Quiet(h) \/ Marks(h) \/ Sends(h))
  BY PayGlobal, PayTable
<1>2. RowTells(p) /\ LedgerTells(p) /\ paper' = paper /\ RowOf(h) /\ HandlerTells(h) /\ HandlerTells(h)'
  BY <1>1, OwnPay DEF PayInv, PayMoves
<1>3. ASSUME NEW g \in Handler, Mine(g) = p
      PROVE  /\ Mine(g)' = p /\ pc'[g] # "idle"
             /\ pc[g] \notin Deciding => pc'[g] \notin Deciding
             /\ pc[g] = "done" => pc'[g] = "done"
  <2>0. pc[g] # "idle"
    BY <1>3, PoolAssumption DEF PayInv, HandlerTells, NoHandler, Mine
  <2>1. CASE g # h
    BY <1>3, <2>0, <2>1, OthersPay
  <2>2. CASE g = h
    <3>1. Mine(g)' = p
      BY <1>1, <1>3, <2>0, <2>2 DEF PayMoves
    <3>2. pc'[h] # "idle" /\ (pc[h] \notin Deciding => pc'[h] \notin Deciding)
          /\ (pc[h] = "done" => pc'[h] = "done")
      BY <1>1, <2>0, <2>2 DEF Quiet, Marks, Sends, Deciding
    <3> QED
      BY <2>2, <3>1, <3>2
  <2> QED
    BY <2>1, <2>2
<1>4. (attempt[p].status # "none" => \E g \in Handler : Mine(g)' = p /\ pc'[g] \notin Deciding)
      /\ (ledger[p] # "none" => \E g \in Handler : Mine(g)' = p /\ pc'[g] = "done")
  BY <1>2, <1>3 DEF RowTells, LedgerTells
<1>5. CASE attempt'[p] = attempt[p] /\ PayoutOf(p)' = PayoutOf(p)
  <2>1. attempt[p].status = "CONFIRMED" => txs'[attempt[p].tx] = txs[attempt[p].tx]
    BY <1>1, <1>2 DEF RowTells, PayoutOf, For, PayKeeps
  <2>2. RowTells(p)'
    BY <1>2, <1>4, <1>5, <2>1 DEF RowTells
  <2>3. CASE ledger'[p] = ledger[p]
    <3>1. ledger[p] = "plain" => Unpaid(p)'
      <4> SUFFICES ASSUME ledger[p] = "plain" PROVE Unpaid(p)'
        OBVIOUS
      <4>1. Unpaid(p) /\ \E g \in Handler : Mine(g) = p /\ pc[g] = "done"
        BY <1>2 DEF LedgerTells
      <4> QED
        BY <4>1, UnpaidStays
    <3>2. ledger'[p] = "charged" => p \in paper' \/ attempt'[p].status = "CONFIRMED"
      BY <1>2, <1>5, <2>3 DEF LedgerTells
    <3>3. ledger'[p] = "plain" => Unpaid(p)'
      BY <2>3, <3>1
    <3>4. ledger'[p] # "none" => \E g \in Handler : Mine(g)' = p /\ pc'[g] = "done"
      BY <1>4, <2>3
    <3> QED
      BY <2>2, <3>2, <3>3, <3>4 DEF LedgerTells
  <2>4. CASE ledger'[p] # ledger[p]
    <3>1. p = Mine(h) /\ ledger[p] = "none"
      BY <1>1, <2>4 DEF PayKeeps
    <3>2. pc[h] = "write" /\ pc'[h] = "done" /\ UNCHANGED <<attempt, op, txs>>
          /\ ledger' = [ledger EXCEPT ![p] = IF op[h].paid THEN "charged" ELSE "plain"]
      BY <1>1, <2>4, <3>1 DEF Quiet, Marks, Sends
    <3>3. ledger'[p] = IF op[h].paid THEN "charged" ELSE "plain"
      BY <3>2 DEF PayoutTypeOK
    <3>4. op[h].paid => p \in paper \/ attempt'[p].status = "CONFIRMED"
      BY <1>2, <3>1, <3>2 DEF HandlerTells
    <3>5. ~op[h].paid => Unpaid(p)'
      BY <1>2, <3>1, <3>2, UnpaidStays DEF HandlerTells
    <3>6. Mine(h)' = p
      BY <1>3, <3>1
    <3>7. ledger'[p] = "charged" => p \in paper' \/ attempt'[p].status = "CONFIRMED"
      BY <1>2, <3>3, <3>4
    <3>8. ledger'[p] = "plain" => Unpaid(p)'
      BY <3>3, <3>5
    <3>9. \E g \in Handler : Mine(g)' = p /\ pc'[g] = "done"
      BY <3>2, <3>6
    <3> QED
      BY <2>2, <3>7, <3>8, <3>9 DEF LedgerTells
  <2> QED
    BY <2>2, <2>3, <2>4
<1>6. CASE attempt'[p] # attempt[p] \/ PayoutOf(p)' # PayoutOf(p)
  <2>1. p = Mine(h) /\ pc[h] # "idle" /\ ledger' = ledger /\ attempt[p].status \notin Terminal
        /\ Mine(h)' = p
    <3>1. p = Mine(h) /\ attempt[p].status \notin Terminal
      BY <1>1, <1>6 DEF PayKeeps, Terminal
    <3>2. pc[h] # "idle"
      BY <3>1, PoolAssumption DEF PayInv, HandlerTells, NoHandler, Mine
    <3>3. ~ UNCHANGED <<attempt, txs>>
      BY <1>6 DEF PayoutOf, For
    <3> QED
      BY <1>1, <1>3, <3>1, <3>2, <3>3 DEF Quiet, Marks, Sends
  <2>2. LedgerTells(p)'
    <3>1. ledger[p] = "plain" => Unpaid(p)'
      <4> SUFFICES ASSUME ledger[p] = "plain" PROVE Unpaid(p)'
        OBVIOUS
      <4>1. PICK g \in Handler : Mine(g) = p /\ pc[g] = "done"
        BY <1>2 DEF LedgerTells
      <4>2. Unpaid(p)
        BY <1>2 DEF LedgerTells
      <4> QED
        BY <4>1, <4>2, UnpaidStays
    <3>2. ledger[p] = "charged" => p \in paper
      BY <1>2, <2>1 DEF LedgerTells, Terminal
    <3> QED
      BY <1>2, <1>4, <2>1, <3>1, <3>2 DEF LedgerTells
  <2>3. CASE Marks(h)
    <3>1. PayoutOf(p)' = PayoutOf(p) /\ txs' = txs
      BY <2>3 DEF Marks, PayoutOf, For
    <3>2. \E s \in Status : SetStatus(p, s)
      BY <1>6, <2>1, <2>3, <3>1 DEF Marks, Status, Terminal
    <3>3. attempt'[p].tx = attempt[p].tx
      BY <3>2, StatusFields
    <3>4. pc'[h] \notin Deciding
      BY <1>6, <2>1, <2>3, <3>1 DEF Marks, Deciding
    <3>5. CASE pc[h] \in {"create", "skip"}
      <4>1. attempt[p].status \in {"none", "PENDING"}
        BY <1>2, <2>1, <2>3, <3>5 DEF Marks, RowOf
      <4>2. PayoutOf(p) = {}
        BY <1>2, <4>1 DEF RowTells
      <4>3. SetStatus(p, "PENDING") \/ SetStatus(p, "SKIPPED")
        BY <2>1, <2>3, <3>5 DEF Marks
      <4>4. attempt'[p].status \in {"PENDING", "SKIPPED"}
        BY <4>3, StatusFields DEF Status, Terminal
      <4> QED
        BY <2>1, <2>2, <3>1, <3>3, <3>4, <4>2, <4>4 DEF RowTells
    <3>6. CASE pc[h] = "failed"
      <4>1. attempt'[p].status = "FAILED"
        BY <2>1, <2>3, <3>6, StatusFields DEF Marks, Status, Terminal
      <4> QED
        BY <1>2, <2>1, <2>2, <3>1, <3>3, <3>4, <4>1 DEF RowTells
    <3>7. CASE pc[h] = "confirmed"
      <4>1. attempt'[p].status = "CONFIRMED"
        BY <2>1, <2>3, <3>7, StatusFields DEF Marks, Status, Terminal
      <4>2. attempt[p].tx \in PayoutOf(p) /\ txs[attempt[p].tx].state = "landed"
        BY <1>2, <2>1, <3>7 DEF RowOf
      <4> QED
        BY <1>2, <2>1, <2>2, <3>1, <3>3, <3>4, <4>1, <4>2 DEF RowTells
    <3> QED
      BY <1>6, <2>3, <3>1, <3>5, <3>6, <3>7 DEF Marks
  <2>4. CASE Sends(h) /\ pc[h] = "blockhash"
    <3>1. attempt[p].status = "PENDING" /\ PayoutOf(p) = {} /\ pc'[h] = "send"
      BY <1>2, <2>1, <2>4 DEF RowOf, RowTells, Sends
    <3>2. attempt' = [attempt EXCEPT ![p] = [status |-> "SUBMITTED", tx |-> Len(txs) + 1]]
      BY <2>1, <2>4 DEF Sends
    <3>3. attempt'[p] = [status |-> "SUBMITTED", tx |-> Len(txs) + 1]
      BY <3>2 DEF PayoutTypeOK
    <3>4. PayoutOf(p)' \subseteq {attempt'[p].tx}
      BY <1>1, <3>1, <3>3 DEF PayKeeps
    <3>5. attempt'[p].status = "SUBMITTED" /\ pc'[h] \notin Deciding
      BY <3>1, <3>3 DEF Deciding
    <3> QED
      BY <2>1, <2>2, <3>4, <3>5 DEF RowTells
  <2>5. CASE Quiet(h) \/ (Sends(h) /\ pc[h] = "send")
    <3>1. UNCHANGED attempt
      BY <2>5 DEF Quiet, Sends
    <3>2. PayoutOf(p)' = PayoutOf(p)
      BY <1>1, <2>5 DEF Quiet, PayKeeps, PayoutOf, For
    <3> QED
      BY <1>6, <3>1, <3>2
  <2> QED
    BY <1>1, <2>3, <2>4, <2>5 DEF Sends
<1> QED
  BY <1>5, <1>6

\* Steps of the handlers preserve the invariant about them.
LEMMA PayHandler ==
  ASSUME PayoutTypeOK, ChainTypeOK, PayInv, NEW h \in Handler, PayStep(h)
  PROVE  PayInv'
<1>1. PayMoves(h) /\ (Quiet(h) \/ Marks(h) \/ Sends(h)) /\ (pc[h] # "idle" => Mine(h)' = Mine(h))
  BY PayTable DEF PayMoves
<1>2. \A g \in Handler : RowOf(g)' /\ HandlerTells(g)'
  BY OwnPay, OthersPay
<1>3. \A p \in Position : RowTells(p)' /\ LedgerTells(p)'
  BY RowsPay
<1>4. ASSUME NEW g \in Handler \ {h}, pc'[h] \in Paying, pc'[g] \in Paying, Mine(h)' = Mine(g)'
      PROVE  FALSE
  <2>1. pc[g] \in Paying /\ Mine(g) = Mine(h) /\ RowOf(g)
    <3>1. pc[h] # "idle"
      BY <1>1, <1>4 DEF Quiet, Marks, Sends, Paying
    <3> QED
      BY <1>1, <1>4, <3>1, OthersPay DEF PayInv
  <2>2. pc[h] \notin Paying
    BY <2>1 DEF PayInv, OnePayer
  <2>3. attempt[Mine(h)].status = "none"
    BY <1>1, <1>4, <2>2 DEF Quiet, Marks, Sends, Paying
  <2> QED
    BY <2>1, <2>3 DEF RowOf, Paying
<1>5. OnePayer'
  <2> SUFFICES ASSUME NEW f \in Handler, NEW g \in Handler, pc'[f] \in Paying, pc'[g] \in Paying,
                      Mine(f)' = Mine(g)', f # g
               PROVE  FALSE
    BY DEF OnePayer
  <2>1. CASE f # h /\ g # h
    BY <2>1, OthersPay DEF PayInv, OnePayer
  <2> QED
    BY <1>4, <2>1
<1> QED
  BY <1>2, <1>3, <1>5 DEF PayInv

\* A transfer stays as it is, or the network settles it.
Settles(I) ==
    \A i \in I : \/ txs'[i].state = txs[i].state
                 \/ txs[i].state = "pending" /\ txs'[i].state \in {"landed", "dead"}

\* Steps of the others leave the handlers' invariant alone.
LEMMA PayFrame ==
  ASSUME PayInv, UNCHANGED payoutVars,
         \A p \in Position : PayoutOf(p)' = PayoutOf(p) /\ Settles(PayoutOf(p)),
         \A h \in Handler : pc[h] # "idle" => Mine(h) \in Position
  PROVE  PayInv'
<1>1. UNCHANGED <<owner, paper, ledger, attempt, pc, op>>
  BY DEF payoutVars
<1>2. OnePayer'
  BY <1>1 DEF PayInv, OnePayer, Mine
<1>3. ASSUME NEW p \in Position PROVE Unpaid(p)' = Unpaid(p)
  BY <1>1 DEF Unpaid, Twice, Mine
<1>4. ASSUME NEW h \in Handler PROVE RowOf(h)' /\ HandlerTells(h)'
  <2>1. RowOf(h) /\ HandlerTells(h) /\ Mine(h)' = Mine(h)
    BY <1>1 DEF PayInv, Mine
  <2>2. CASE pc[h] = "idle"
    BY <1>1, <2>1, <2>2 DEF RowOf, HandlerTells, NoHandler
  <2>3. CASE pc[h] # "idle"
    <3>0. PICK p \in Position : p = Mine(h)
      BY <2>3
    <3>1. RowOf(h)'
      BY <1>1, <2>1, <3>0 DEF RowOf, Settles
    <3>2. HandlerTells(h)'
      BY <1>1, <1>3, <2>1, <2>3, <3>0 DEF HandlerTells
    <3> QED
      BY <3>1, <3>2
  <2> QED
    BY <2>2, <2>3
<1>5. ASSUME NEW p \in Position PROVE RowTells(p)' /\ LedgerTells(p)'
  <2>1. RowTells(p) /\ LedgerTells(p)
    BY DEF PayInv
  <2>2. attempt[p].status = "CONFIRMED" => txs'[attempt[p].tx].state = "landed"
    <3>1. PICK k : k = attempt[p].tx
      OBVIOUS
    <3>2. attempt[p].status = "CONFIRMED" => k \in PayoutOf(p) /\ txs[k].state = "landed"
      BY <2>1, <3>1 DEF RowTells
    <3>3. Settles(PayoutOf(p))
      OBVIOUS
    <3>4. k \in PayoutOf(p) /\ txs[k].state = "landed" => txs'[k].state = "landed"
      BY <3>3 DEF Settles
    <3> QED
      BY <3>1, <3>2, <3>4
  <2>3. RowTells(p)'
    BY <1>1, <2>1, <2>2 DEF RowTells, Mine
  <2>4. LedgerTells(p)'
    BY <1>1, <1>3, <2>1 DEF LedgerTells, Mine
  <2> QED
    BY <2>3, <2>4
<1> QED
  BY <1>2, <1>4, <1>5 DEF PayInv

\* A restart ends every handler, and drops what was not sent.
LEMMA PayRestart ==
  ASSUME PayoutTypeOK, ChainTypeOK, PayInv, Restart
  PROVE  PayInv' /\ PayoutTypeOK'
<1>1. UNCHANGED <<owner, paper, ledger, attempt, op>> /\ faults' \in 0..MaxFaults
      /\ pc' = [h \in Handler |-> IF pc[h] = "idle" THEN "idle" ELSE "done"]
  BY FaultAssumption DEF Restart, PayoutTypeOK
<1>2. /\ Len(txs') = Len(txs) /\ DOMAIN txs' = DOMAIN txs
      /\ \A i \in DOMAIN txs : Kept(i) /\ (txs[i].state = "landed" => txs'[i].state = "landed")
  BY RestartFields DEF Restart
<1>3. ASSUME NEW h \in Handler
      PROVE  pc'[h] \in {"idle", "done"} /\ (pc'[h] = "idle" <=> pc[h] = "idle") /\ Mine(h)' = Mine(h)
  BY <1>1 DEF Mine
<1>4. ASSUME NEW p \in Position PROVE PayoutOf(p)' = PayoutOf(p) /\ Unpaid(p)' = Unpaid(p)
  <2>1. PayoutOf(p)' = PayoutOf(p)
    BY <1>2 DEF PayoutOf, For, Kept
  <2> QED
    BY <1>1, <2>1 DEF Unpaid, Twice, Mine
<1>5. PayoutTypeOK'
  BY <1>1, <1>2 DEF PayoutTypeOK, PC
<1>6. ASSUME NEW h \in Handler PROVE RowOf(h)' /\ HandlerTells(h)'
  BY <1>1, <1>3 DEF PayInv, RowOf, HandlerTells
<1>7. ASSUME NEW p \in Position PROVE RowTells(p)' /\ LedgerTells(p)'
  <2>1. RowTells(p) /\ LedgerTells(p)
    BY DEF PayInv
  <2>2. attempt[p].status = "CONFIRMED" => txs'[attempt[p].tx].state = "landed"
    BY <1>2, <2>1 DEF RowTells, PayoutOf, For
  <2>3. \A h \in Handler : pc[h] \notin Deciding => pc'[h] \notin Deciding
    BY <1>3 DEF Deciding
  <2>4. RowTells(p)'
    BY <1>1, <1>3, <1>4, <2>1, <2>2, <2>3 DEF RowTells
  <2>5. LedgerTells(p)'
    BY <1>1, <1>3, <1>4, <2>1 DEF LedgerTells
  <2> QED
    BY <2>4, <2>5
<1>8. OnePayer'
  BY <1>3 DEF OnePayer, Paying
<1> QED
  BY <1>5, <1>6, <1>7, <1>8 DEF PayInv
-----------------------------------------------------------------------------
\* --- Purchases --------------------------------------------------------------------

PlanStep(q) ==
    (\E plan \in Plan, w \in Wallet : RequestPlan(q, plan, w)) \/ RequestStep(q) \/ RequestFails(q)

PPC == {"idle", "read", "balance", "blockhash", "send", "confirm", "record", "ended"}

\* A step moves one request.
PlanMoves(q) ==
    /\ ppc' \in [Request -> PPC] /\ pop' \in [Request -> PopType] /\ inFlight' \in BOOLEAN
    /\ \A g \in Request \ {q} : ppc'[g] = ppc[g] /\ pop'[g] = pop[g]
    /\ UNCHANGED <<today, sol>>

\* Steps that keep the transfers and the rows.
Buys(q) ==
    /\ UNCHANGED <<txs, user, subs>>
    /\ \/ UNCHANGED <<inFlight, pop>> /\ ppc[q] = "idle" /\ ppc'[q] = "ended"
       \/ /\ ~inFlight /\ inFlight' /\ ppc[q] = "idle" /\ ppc'[q] = "read"
          /\ pop'[q].plan \in Plan /\ pop'[q].wallet \in Wallet
       \/ /\ UNCHANGED pop /\ ppc[q] \in Buying /\ ppc'[q] = "ended" /\ ~inFlight'
          /\ \/ ~RequestStep(q) \/ ppc[q] \in {"read", "balance"}
             \/ ppc[q] = "confirm" /\ txs[pop[q].tx].state = "dead"
       \/ /\ UNCHANGED inFlight /\ ppc[q] = "read" /\ ppc'[q] = "balance" /\ pop'[q].user = user
          /\ pop'[q].plan = pop[q].plan /\ pop'[q].wallet = pop[q].wallet
       \/ /\ UNCHANGED <<inFlight, pop>> /\ ppc[q] = "balance" /\ ppc'[q] = "blockhash"
          /\ Affords(sol[pop[q].wallet], Price)
       \/ /\ UNCHANGED <<inFlight, pop>> /\ ppc[q] = "confirm" /\ ppc'[q] = "record"
          /\ txs[pop[q].tx].state = "landed"

\* Steps that sign the payment, or hand it over.
Pays(q) ==
    /\ UNCHANGED <<user, subs>>
    /\ \/ /\ UNCHANGED inFlight /\ ppc[q] = "blockhash" /\ ppc'[q] = "send"
          /\ Sign(pop[q].wallet, Price, <<"plan", 0>>) /\ pop'[q].tx = Len(txs) + 1
          /\ pop'[q].plan = pop[q].plan /\ pop'[q].wallet = pop[q].wallet
          /\ pop'[q].user = pop[q].user
       \/ /\ UNCHANGED pop /\ ppc[q] = "send"
          /\ \/ /\ UNCHANGED inFlight /\ ppc'[q] = "confirm"
                /\ txs' = [txs EXCEPT ![pop[q].tx].state = "pending"]
             \/ /\ ~inFlight' /\ ppc'[q] = "ended" /\ ~RequestStep(q)
                /\ \E s \in {"pending", "dead"} : txs' = [txs EXCEPT ![pop[q].tx].state = s]

\* The step that records the subscription.
Recorded(q) ==
    LET starts == StartsAt(pop[q].user, pop[q].plan, today)
    IN  /\ UNCHANGED <<txs, pop>> /\ ppc[q] = "record" /\ ppc'[q] = "ended" /\ ~inFlight'
        /\ subs' = subs \cup {[tx |-> pop[q].tx, plan |-> pop[q].plan, starts |-> starts,
                               expires |-> starts + Days]}
        /\ user' = [plan |-> pop[q].plan, expires |-> starts + Days]

\* A request's steps are these.
LEMMA PlanTable ==
  ASSUME PlanTypeOK, ChainTypeOK, NEW q \in Request, PlanStep(q)
  PROVE  PlanMoves(q) /\ (Buys(q) \/ Pays(q) \/ Recorded(q))
<1>0. /\ ppc \in [Request -> PPC] /\ pop \in [Request -> PopType] /\ pop[q] \in PopType
      /\ inFlight \in BOOLEAN /\ user \in UserType /\ Len(txs) \in Nat
  BY DEF PlanTypeOK, PPC, ChainTypeOK
<1>a. ASSUME NEW to \in PPC, ppc' = [ppc EXCEPT ![q] = to], UNCHANGED pop, UNCHANGED <<today, sol>>,
             inFlight' \in BOOLEAN
      PROVE  PlanMoves(q) /\ ppc'[q] = to
  BY <1>0, <1>a DEF PlanMoves
<1>b. ASSUME NEW to \in PPC, ppc' = [ppc EXCEPT ![q] = to], NEW o \in PopType,
             pop' = [pop EXCEPT ![q] = o], UNCHANGED <<today, sol>>, inFlight' \in BOOLEAN
      PROVE  PlanMoves(q) /\ ppc'[q] = to /\ pop'[q] = o
  BY <1>0, <1>b DEF PlanMoves
<1>1. ASSUME NEW plan \in Plan, NEW w \in Wallet, RequestPlan(q, plan, w)
      PROVE  PlanMoves(q) /\ Buys(q)
  <2>0. UNCHANGED <<user, subs, today, sol, txs>>
    BY <1>1 DEF RequestPlan, chainVars
  <2>1. CASE inFlight
    <3>1. ppc[q] = "idle" /\ ppc' = [ppc EXCEPT ![q] = "ended"] /\ UNCHANGED <<inFlight, pop>>
      BY <1>1, <2>1 DEF RequestPlan, Stage
    <3>2. PlanMoves(q) /\ ppc'[q] = "ended"
      BY <1>0, <1>a, <2>0, <3>1 DEF PPC
    <3> QED
      BY <2>0, <3>1, <3>2 DEF Buys
  <2>2. CASE ~inFlight
    <3> DEFINE o == [pop[q] EXCEPT !.plan = plan, !.wallet = w]
    <3>1. o \in PopType /\ o.plan = plan /\ o.wallet = w
      BY <1>0 DEF PopType
    <3>2. pop' = [pop EXCEPT ![q] = o] /\ ppc[q] = "idle" /\ ppc' = [ppc EXCEPT ![q] = "read"]
          /\ inFlight' = TRUE
      BY <1>0, <1>1, <2>2 DEF RequestPlan, Stage
    <3> HIDE DEF o
    <3>3. PlanMoves(q) /\ ppc'[q] = "read" /\ pop'[q] = o
      BY <1>b, <2>0, <3>1, <3>2 DEF PPC
    <3> QED
      BY <2>0, <2>2, <3>1, <3>2, <3>3 DEF Buys
  <2> QED
    BY <2>1, <2>2
<1>2. CASE RefusePlan(q) \/ PaymentOutcome(q) \/ CheckBalance(q)
  <2>1. UNCHANGED <<user, subs, pop, today, sol, txs>> /\ inFlight' \in BOOLEAN
    BY <1>0, <1>2 DEF RefusePlan, PaymentOutcome, CheckBalance, EndRequest, chainVars
  <2>2. \E to \in PPC : ppc' = [ppc EXCEPT ![q] = to]
    BY <1>2 DEF RefusePlan, PaymentOutcome, CheckBalance, EndRequest, Stage, PPC
  <2>3. PlanMoves(q) /\ \A to \in PPC : ppc' = [ppc EXCEPT ![q] = to] => ppc'[q] = to
    BY <1>0, <1>a, <2>1, <2>2
  <2>4. CASE RefusePlan(q)
    BY <2>1, <2>3, <2>4 DEF RefusePlan, EndRequest, Stage, PPC, Buys, Buying
  <2>5. CASE PaymentOutcome(q)
    BY <2>1, <2>3, <2>5 DEF PaymentOutcome, EndRequest, Stage, PPC, Buys, Buying
  <2>6. CASE CheckBalance(q)
    BY <2>1, <2>3, <2>6 DEF CheckBalance, EndRequest, Stage, PPC, Buys, Buying
  <2> QED
    BY <1>2, <2>3, <2>4, <2>5, <2>6
<1>3. CASE ReadUser(q)
  <2> DEFINE o == [pop[q] EXCEPT !.user = user]
  <2>1. o \in PopType /\ o.plan = pop[q].plan /\ o.wallet = pop[q].wallet /\ o.user = user
    BY <1>0 DEF PopType
  <2>2. pop' = [pop EXCEPT ![q] = o] /\ ppc[q] = "read" /\ ppc' = [ppc EXCEPT ![q] = "balance"]
        /\ UNCHANGED <<user, subs, inFlight, today, sol, txs>>
    BY <1>0, <1>3 DEF ReadUser, Stage, chainVars
  <2> HIDE DEF o
  <2>3. PlanMoves(q) /\ ppc'[q] = "balance" /\ pop'[q] = o
    BY <1>0, <1>b, <2>1, <2>2 DEF PPC
  <2> QED
    BY <2>1, <2>2, <2>3 DEF Buys
<1>4. CASE SignPayment(q)
  <2> DEFINE k == Len(txs) + 1
             o == [pop[q] EXCEPT !.tx = k]
  <2>0. k \in Nat
    BY <1>0
  <2>1. o \in PopType /\ o.plan = pop[q].plan /\ o.wallet = pop[q].wallet /\ o.user = pop[q].user
        /\ o.tx = k
    BY <1>0, <2>0 DEF PopType
  <2>2. pop' = [pop EXCEPT ![q] = o] /\ ppc[q] = "blockhash" /\ ppc' = [ppc EXCEPT ![q] = "send"]
        /\ UNCHANGED <<user, subs, inFlight, today, sol>> /\ Sign(pop[q].wallet, Price, <<"plan", 0>>)
    BY <1>0, <1>4 DEF SignPayment, Stage
  <2> HIDE DEF o
  <2>3. PlanMoves(q) /\ ppc'[q] = "send" /\ pop'[q] = o
    BY <1>0, <1>b, <2>1, <2>2 DEF PPC
  <2> QED
    BY <2>1, <2>2, <2>3 DEF Pays
<1>5. CASE SendPayment(q)
  <2>1. ppc[q] = "send" /\ ppc' = [ppc EXCEPT ![q] = "confirm"]
        /\ UNCHANGED <<user, subs, inFlight, pop, today, sol>>
        /\ txs' = [txs EXCEPT ![pop[q].tx].state = "pending"]
    BY <1>5 DEF SendPayment, Stage, Broadcast
  <2>2. PlanMoves(q) /\ ppc'[q] = "confirm"
    BY <1>0, <1>a, <2>1 DEF PPC
  <2> QED
    BY <2>1, <2>2 DEF Pays
<1>6. CASE RecordPlan(q)
  <2>1. ppc[q] = "record" /\ ppc' = [ppc EXCEPT ![q] = "ended"] /\ inFlight' = FALSE
        /\ UNCHANGED <<pop, today, sol, txs>>
    BY <1>6 DEF RecordPlan, EndRequest, Stage, chainVars
  <2>2. PlanMoves(q) /\ ppc'[q] = "ended"
    BY <1>a, <2>1 DEF PPC
  <2> QED
    BY <1>6, <2>1, <2>2 DEF Recorded, RecordPlan
<1>7. CASE RequestFails(q) /\ ~RequestStep(q)
  <2>1. ppc' = [ppc EXCEPT ![q] = "ended"] /\ inFlight' = FALSE
        /\ UNCHANGED <<user, subs, pop, today, sol>> /\ ppc[q] \in Buying
    BY <1>7 DEF RequestFails, EndRequest, Stage, Buying
  <2>2. PlanMoves(q) /\ ppc'[q] = "ended"
    BY <1>a, <2>1 DEF PPC
  <2>3. \/ UNCHANGED txs
        \/ ppc[q] = "send" /\ \E s \in {"pending", "dead"} : txs' = [txs EXCEPT ![pop[q].tx].state = s]
    BY <1>7 DEF RequestFails, EndRequest, Stage, Broadcast, Drop
  <2>4. CASE UNCHANGED txs
    BY <1>7, <2>1, <2>2, <2>4 DEF Buys
  <2>5. CASE ppc[q] = "send" /\ \E s \in {"pending", "dead"} : txs' = [txs EXCEPT ![pop[q].tx].state = s]
    BY <1>7, <2>1, <2>2, <2>5 DEF Pays
  <2> QED
    BY <2>2, <2>3, <2>4, <2>5
<1> QED
  BY <1>1, <1>2, <1>3, <1>4, <1>5, <1>6, <1>7 DEF PlanStep, RequestStep

\* What a request's step does to the transfers: it signs a payment, or settles
\* what becomes of the one it signed.
PlanKeeps(q) ==
    /\ txs' \in Seq(TxRecord) /\ DOMAIN txs \subseteq DOMAIN txs' /\ Len(txs) <= Len(txs')
    /\ \A i \in DOMAIN txs : Kept(i) /\ (txs'[i] = txs[i] \/ (ppc[q] = "send" /\ i = pop[q].tx))
    /\ \A i \in DOMAIN txs' \ DOMAIN txs :
         /\ txs'[i].for = <<"plan", 0>> /\ txs'[i].state = "signed"
         /\ ppc[q] = "blockhash" /\ ppc'[q] = "send" /\ pop'[q].tx = i
         /\ txs'[i].from = pop[q].wallet /\ txs'[i].amount = Price
    /\ ppc[q] = "send" /\ ppc'[q] = "confirm" => txs'[pop[q].tx].state = "pending"
    /\ ppc[q] = "send" => pop[q].tx \in Payments /\ txs'[pop[q].tx].state \in {"signed", "pending", "dead"}
    /\ ppc[q] = "blockhash" /\ ppc'[q] = "send" =>
         pop'[q].tx \in DOMAIN txs' \ DOMAIN txs

LEMMA PlanGlobal ==
  ASSUME PlanTypeOK, ChainTypeOK, PurchaseInv, NEW q \in Request, PlanStep(q)
  PROVE  PlanKeeps(q)
<1>1. PlanMoves(q) /\ (Buys(q) \/ Pays(q) \/ Recorded(q))
  BY PlanTable
<1>2. RequestTells(q) /\ txs \in Seq(TxRecord) /\ Len(txs) \in Nat
  BY DEF PurchaseInv, ChainTypeOK
<1>3. ppc[q] = "send" => pop[q].tx \in Payments /\ txs[pop[q].tx].state = "signed"
  BY <1>2 DEF RequestTells
<1>4. CASE UNCHANGED txs
  <2>1. ~(ppc[q] = "blockhash" /\ ppc'[q] = "send")
    <3> SUFFICES ASSUME ppc[q] = "blockhash", ppc'[q] = "send" PROVE FALSE
      OBVIOUS
    <3>1. Sign(pop[q].wallet, Price, <<"plan", 0>>)
      BY <1>1 DEF Buys, Pays, Recorded
    <3>2. pop[q].wallet \in Wallet /\ Price \in Nat /\ <<"plan", 0>> \in {"payout", "plan"} \X Nat
      BY <1>2, PlanAssumption DEF RequestTells, Buying
    <3>3. Len(txs') = Len(txs) + 1
      BY <3>1, <3>2, SignFields
    <3> QED
      BY <1>2, <1>4, <3>3
  <2>2. ppc[q] = "send" /\ ppc'[q] = "confirm" => txs'[pop[q].tx].state = "pending"
    <3> SUFFICES ASSUME ppc[q] = "send", ppc'[q] = "confirm" PROVE txs'[pop[q].tx].state = "pending"
      OBVIOUS
    <3>1. txs' = [txs EXCEPT ![pop[q].tx].state = "pending"] /\ pop[q].tx \in DOMAIN txs
      BY <1>1, <1>3 DEF Buys, Pays, Recorded, Payments, For
    <3> QED
      BY <3>1, StateFields
  <2> QED
    BY <1>2, <1>3, <1>4, <2>1, <2>2 DEF PlanKeeps, Kept
<1>5. CASE Pays(q) /\ ppc[q] = "blockhash"
  <2>1. PICK w \in Wallet : w = pop[q].wallet
    BY <1>2, <1>5 DEF RequestTells, Buying
  <2>2. PICK k \in Nat : k = Len(txs) + 1
    BY <1>2
  <2>3. Sign(w, Price, <<"plan", 0>>) /\ ppc'[q] = "send" /\ pop'[q].tx = k
    BY <1>5, <2>1, <2>2 DEF Pays
  <2>4. /\ txs' \in Seq(TxRecord) /\ Len(txs') = k /\ k \notin DOMAIN txs
        /\ DOMAIN txs' = DOMAIN txs \cup {k} /\ (\A i \in DOMAIN txs : txs'[i] = txs[i])
        /\ txs'[k].from = w /\ txs'[k].amount = Price /\ txs'[k].for = <<"plan", 0>>
        /\ txs'[k].state = "signed"
    <3>1. PICK n \in Nat : n = Price
      BY PlanAssumption
    <3>2. PICK why \in {"payout", "plan"} \X Nat : why = <<"plan", 0>>
      OBVIOUS
    <3>3. Sign(w, n, why)
      BY <2>3, <3>1, <3>2
    <3>4. /\ txs' \in Seq(TxRecord) /\ Len(txs') = k /\ k \notin DOMAIN txs
          /\ DOMAIN txs' = DOMAIN txs \cup {k} /\ (\A i \in DOMAIN txs : txs'[i] = txs[i])
          /\ txs'[k].from = w /\ txs'[k].amount = n /\ txs'[k].for = why /\ txs'[k].state = "signed"
      BY <2>2, <3>3, SignFields
    <3> QED
      BY <3>1, <3>2, <3>4
  <2>5. Len(txs) <= Len(txs')
    BY <1>2, <2>2, <2>4
  <2> QED
    BY <1>5, <2>1, <2>3, <2>4, <2>5 DEF PlanKeeps, Kept
<1>6. CASE Pays(q) /\ ppc[q] = "send"
  <2>1. PICK k : k = pop[q].tx
    OBVIOUS
  <2>2. k \in DOMAIN txs
    BY <1>3, <1>6, <2>1 DEF Payments, For
  <2>3. PICK s \in {"pending", "dead"} :
          txs' = [txs EXCEPT ![k].state = s] /\ (ppc'[q] = "confirm" => s = "pending")
    BY <1>6, <2>1 DEF Pays
  <2>4. /\ txs' \in Seq(TxRecord) /\ Len(txs') = Len(txs) /\ DOMAIN txs' = DOMAIN txs
        /\ txs'[k].state = s /\ Kept(k) /\ \A j \in DOMAIN txs : j # k => txs'[j] = txs[j]
    BY <2>2, <2>3, StateFields
  <2>5. \A j \in DOMAIN txs : Kept(j)
    BY <2>4 DEF Kept
  <2> QED
    BY <1>2, <1>3, <1>6, <2>1, <2>3, <2>4, <2>5 DEF PlanKeeps
<1> QED
  BY <1>1, <1>4, <1>5, <1>6 DEF Buys, Pays, Recorded

\* Steps of the requests preserve the invariant about them; what fails is counted.
LEMMA PlanHandler ==
  ASSUME PlanTypeOK, ChainTypeOK, PurchaseInv, NEW q \in Request, PlanStep(q),
         faults \in Nat, faults' \in {faults, faults + 1}, RequestStep(q) \/ ppc[q] = "idle" \/ faults' = faults + 1
  PROVE  PurchaseInv' /\ PlanTypeOK'
<1>1. PlanMoves(q) /\ (Buys(q) \/ Pays(q) \/ Recorded(q)) /\ PlanKeeps(q)
  BY PlanTable, PlanGlobal
<1>2. /\ RequestTells(q) /\ OneBuyer /\ user \in UserType /\ subs \subseteq SubType /\ today \in Nat
      /\ pop[q] \in PopType /\ inFlight \in BOOLEAN
  BY DEF PurchaseInv, PlanTypeOK
<1>3. ASSUME NEW g \in Request \ {q}, ppc[g] \in Buying
      PROVE  ppc[q] \notin Buying /\ ppc'[q] \notin Buying /\ inFlight' /\ UNCHANGED <<txs, user, subs>>
  <2>1. ppc[q] \notin Buying /\ inFlight
    BY <1>3 DEF PurchaseInv, OneBuyer, RequestTells
  <2> QED
    BY <1>1, <2>1 DEF Buys, Pays, Recorded, Buying
<1>4. OneBuyer'
  <2> SUFFICES ASSUME NEW f \in Request, NEW g \in Request, ppc'[f] \in Buying, ppc'[g] \in Buying, f # g
               PROVE  FALSE
    BY DEF OneBuyer
  <2>1. CASE f # q /\ g # q
    BY <1>1, <1>2, <2>1 DEF PlanMoves, OneBuyer
  <2>2. CASE f = q
    BY <1>1, <1>3, <2>2 DEF PlanMoves
  <2>3. CASE g = q
    BY <1>1, <1>3, <2>3 DEF PlanMoves
  <2> QED
    BY <2>1, <2>2, <2>3
<1>5. ASSUME NEW g \in Request PROVE RequestTells(g)'
  <2>1. CASE g # q
    <3>1. ppc'[g] = ppc[g] /\ pop'[g] = pop[g] /\ RequestTells(g)
      BY <1>1, <2>1 DEF PlanMoves, PurchaseInv
    <3>2. CASE ppc[g] \in Buying
      <4>1. inFlight' /\ UNCHANGED <<txs, user, subs>>
        BY <1>3, <2>1, <3>2
      <4>2. Payments' = Payments
        BY <4>1 DEF Payments, For
      <4> QED
        BY <3>1, <4>1, <4>2 DEF RequestTells
    <3>3. CASE ppc[g] \notin Buying
      BY <3>1, <3>3 DEF RequestTells, Buying
    <3> QED
      BY <3>2, <3>3
  <2>2. CASE g = q
    <3>1. CASE ppc'[q] \notin Buying
      BY <2>2, <3>1 DEF RequestTells, Buying
    <3>2. CASE Buys(q) /\ ppc'[q] \in Buying
      <4>1. UNCHANGED <<txs, user>> /\ Payments' = Payments
        BY <3>2 DEF Buys, Payments, For
      <4>2. inFlight' /\ pop'[q].plan \in Plan /\ pop'[q].wallet \in Wallet
        BY <1>2, <3>2 DEF Buys, Buying, RequestTells
      <4>3. ppc'[q] # "read" => pop'[q].user = user
        BY <1>2, <3>2 DEF Buys, Buying, RequestTells
      <4>4. ppc'[q] \notin {"send", "confirm"}
            /\ (ppc'[q] = "record" =>
                  pop' = pop /\ pop[q].tx \in Payments /\ txs[pop[q].tx].state = "landed")
        BY <1>2, <3>2 DEF Buys, Buying, RequestTells
      <4> QED
        BY <2>2, <4>1, <4>2, <4>3, <4>4 DEF RequestTells, Buying
    <3>3. CASE Pays(q) /\ ppc'[q] \in Buying
      <4>1. UNCHANGED user /\ inFlight' = inFlight /\ pop'[q].plan = pop[q].plan
            /\ pop'[q].wallet = pop[q].wallet /\ pop'[q].user = pop[q].user /\ ppc[q] \in {"blockhash", "send"}
            /\ (ppc[q] = "blockhash" => ppc'[q] = "send")
            /\ (ppc[q] = "send" => ppc'[q] = "confirm" /\ pop' = pop)
        BY <3>3 DEF Pays, Buying
      <4>2. inFlight /\ pop[q].plan \in Plan /\ pop[q].wallet \in Wallet /\ pop[q].user = user
        BY <1>2, <4>1 DEF RequestTells, Buying
      <4>3. CASE ppc[q] = "blockhash"
        <5>1. pop'[q].tx \in Payments' /\ txs'[pop'[q].tx].state = "signed"
          BY <1>1, <4>1, <4>3 DEF PlanKeeps, Payments, For
        <5> QED
          BY <2>2, <4>1, <4>2, <4>3, <5>1 DEF RequestTells
      <4>4. CASE ppc[q] = "send"
        <5>1. pop[q].tx \in Payments'
          BY <1>1, <4>4 DEF PlanKeeps, Payments, For, Kept
        <5> QED
          BY <2>2, <4>1, <4>2, <4>4, <5>1 DEF RequestTells
      <4> QED
        BY <4>1, <4>3, <4>4
    <3> QED
      BY <1>1, <3>1, <3>2, <3>3 DEF Recorded, Buying
  <2> QED
    BY <2>1, <2>2
<1>6. ASSUME faults' = 0, NEW i \in Payments' PROVE PaymentTells(i)'
  <2>0. faults = 0 /\ (RequestStep(q) \/ ppc[q] = "idle")
    BY <1>6
  <2>1. CASE i \notin DOMAIN txs
    <3>1. txs'[i].state = "signed" /\ ppc'[q] = "send" /\ pop'[q].tx = i
      BY <1>1, <1>6, <2>1 DEF PlanKeeps, Payments, For
    <3> QED
      BY <3>1 DEF PaymentTells
  <2>2. CASE i \in DOMAIN txs
    <3>1. i \in Payments /\ PaymentTells(i) /\ (txs'[i] = txs[i] \/ (ppc[q] = "send" /\ i = pop[q].tx))
      BY <1>1, <1>6, <2>0, <2>2 DEF PlanKeeps, Payments, For, Kept, PurchaseInv
    <3>2. CASE ppc[q] = "send" /\ i = pop[q].tx
      <4>1. ppc'[q] = "confirm" /\ pop'[q].tx = i
        BY <1>1, <2>0, <3>2 DEF Buys, Pays, Recorded
      <4>2. txs'[i].state = "pending"
        BY <1>1, <3>2, <4>1 DEF PlanKeeps
      <4> QED
        BY <4>1, <4>2 DEF PaymentTells
    <3>3. CASE txs'[i] = txs[i] /\ ~(ppc[q] = "send" /\ i = pop[q].tx)
      <4>1. ASSUME NEW g \in Request, pop[g].tx = i, ppc[g] \in {"send", "confirm", "record"}
            PROVE  \/ pop'[g].tx = i /\ ppc'[g] = ppc[g]
                   \/ g = q /\ ppc[g] = "confirm" /\ ppc'[g] = "record" /\ pop'[g].tx = i /\ txs[i].state = "landed"
                   \/ txs[i].state = "dead"
                   \/ g = q /\ ppc[g] = "record" /\ Recorded(q)
        <5>1. CASE g # q
          BY <1>1, <4>1, <5>1 DEF PlanMoves
        <5>2. CASE g = q
          BY <1>1, <2>0, <3>3, <4>1, <5>2 DEF Buys, Pays, Recorded, Buying
        <5> QED
          BY <5>1, <5>2
      <4>2. \A s \in subs : s \in subs'
        BY <1>1 DEF Buys, Pays, Recorded
      <4>3. ASSUME txs[i].state = "signed" PROVE PaymentTells(i)'
        <5>1. PICK g \in Request : ppc[g] = "send" /\ pop[g].tx = i
          BY <3>1, <4>3 DEF PaymentTells
        <5>2. pop'[g].tx = i /\ ppc'[g] = "send"
          BY <4>1, <4>3, <5>1
        <5> QED
          BY <3>3, <4>3, <5>2 DEF PaymentTells
      <4>4. ASSUME txs[i].state = "pending" PROVE PaymentTells(i)'
        <5>1. PICK g \in Request : ppc[g] = "confirm" /\ pop[g].tx = i
          BY <3>1, <4>4 DEF PaymentTells
        <5>2. pop'[g].tx = i /\ ppc'[g] = "confirm"
          BY <4>1, <4>4, <5>1
        <5> QED
          BY <3>3, <4>4, <5>2 DEF PaymentTells
      <4>5. ASSUME txs[i].state = "landed" PROVE PaymentTells(i)'
        <5>1. CASE \E s \in subs : s.tx = i
          <6>1. \E s \in subs' : s.tx = i
            BY <4>2, <5>1
          <6> QED
            BY <3>3, <4>5, <6>1 DEF PaymentTells
        <5>2. CASE \E g \in Request : ppc[g] \in {"confirm", "record"} /\ pop[g].tx = i
          <6>1. PICK g \in Request : ppc[g] \in {"confirm", "record"} /\ pop[g].tx = i
            BY <5>2
          <6>2. CASE g = q /\ Recorded(q)
            <7> DEFINE starts == StartsAt(pop[q].user, pop[q].plan, today)
                       y == [tx |-> pop[q].tx, plan |-> pop[q].plan, starts |-> starts,
                             expires |-> starts + Days]
            <7>1. y \in subs'
              BY <6>2 DEF Recorded
            <7>2. y.tx = i
              BY <6>1, <6>2
            <7> QED
              BY <3>3, <4>5, <7>1, <7>2 DEF PaymentTells
          <6>3. CASE pop'[g].tx = i /\ ppc'[g] \in {"confirm", "record"}
            BY <3>3, <4>5, <6>3 DEF PaymentTells
          <6> QED
            BY <4>1, <4>5, <6>1, <6>2, <6>3
        <5> QED
          BY <3>1, <4>5, <5>1, <5>2 DEF PaymentTells
      <4> QED
        BY <3>3, <4>3, <4>4, <4>5 DEF PaymentTells
    <3> QED
      BY <3>1, <3>2, <3>3
  <2> QED
    BY <2>1, <2>2
<1>7. CASE Recorded(q)
  <2>0. pop[q].plan \in Plan /\ pop[q].user = user /\ pop[q].tx \in Nat \ {0}
    <3>1. pop[q].tx \in DOMAIN txs
      BY <1>2, <1>7 DEF RequestTells, Recorded, Payments, For
    <3> QED
      BY <1>2, <1>7, <3>1, TransferType DEF RequestTells, Recorded, Buying
  <2>1. PICK n \in Nat : n = StartsAt(user, pop[q].plan, today)
    BY <1>2 DEF StartsAt, UserType
  <2>2. PICK p \in Plan : p = pop[q].plan
    BY <2>0
  <2>3. PICK m \in Nat : m = n + Days
    BY <2>1, PlanAssumption
  <2>4. PICK x \in SubType : x = [tx |-> pop[q].tx, plan |-> p, starts |-> n, expires |-> m]
    BY <2>0, <2>1, <2>2, <2>3 DEF SubType
  <2>5. x.plan = p /\ x.starts = n /\ x.expires = m /\ m >= n
    BY <2>1, <2>3, <2>4, PlanAssumption
  <2>6. subs' = subs \cup {x} /\ user' = [plan |-> p, expires |-> m]
    BY <1>7, <2>0, <2>1, <2>2, <2>3, <2>4 DEF Recorded
  <2>7. user'.plan = p /\ user'.expires = m /\ user' \in UserType
    BY <2>2, <2>3, <2>6 DEF UserType
  <2>8. ASSUME \A s, t \in subs' : s.plan = t.plan
        PROVE  \A s \in subs : s.expires <= n
    <3> SUFFICES ASSUME NEW s \in subs PROVE s.expires <= n
      OBVIOUS
    <3>1. SubsTell /\ s.plan = p
      BY <2>5, <2>6, <2>8 DEF PurchaseInv
    <3>2. \A r, t \in subs : r.plan = t.plan
      BY <2>6, <2>8
    <3>3. user.plan = p /\ s.expires <= user.expires
      <4>1. PICK r \in subs : r.plan = user.plan
        BY <3>1 DEF SubsTell
      <4> QED
        BY <3>1, <3>2, <4>1 DEF SubsTell
    <3>4. s.expires \in Nat /\ user.expires \in Nat
      BY <1>2 DEF SubType, UserType
    <3>5. n >= user.expires
      BY <1>2, <2>1, <2>2, <3>3, <3>4 DEF StartsAt
    <3> QED
      BY <2>1, <3>3, <3>4, <3>5
  <2>9. SubsTell'
    <3>1. \E s \in subs' : s.plan = user'.plan
      BY <2>5, <2>6, <2>7
    <3>2. ASSUME \A s, t \in subs' : s.plan = t.plan
          PROVE  /\ \A s \in subs' : s.expires <= user'.expires
                 /\ \A s, t \in subs' : s # t => s.expires <= t.starts \/ t.expires <= s.starts
      <4>1. \A s \in subs : s.expires <= n /\ s.expires \in Nat
        BY <1>2, <2>8, <3>2 DEF SubType
      <4>2. \A s \in subs' : s.expires <= user'.expires
        BY <2>1, <2>3, <2>5, <2>6, <2>7, <4>1
      <4>3. \A r, t \in subs : r.plan = t.plan
        BY <2>6, <3>2
      <4>4. \A s, t \in subs : s # t => s.expires <= t.starts \/ t.expires <= s.starts
        BY <4>3 DEF PurchaseInv, SubsTell
      <4>5. ASSUME NEW s \in subs', NEW t \in subs', s # t
            PROVE  s.expires <= t.starts \/ t.expires <= s.starts
        <5>1. CASE s \in subs /\ t \in subs
          BY <4>4, <4>5, <5>1
        <5>2. CASE s = x
          BY <2>5, <2>6, <4>1, <4>5, <5>2
        <5>3. CASE t = x
          BY <2>5, <2>6, <4>1, <4>5, <5>3
        <5> QED
          BY <2>6, <5>1, <5>2, <5>3
      <4> QED
        BY <4>2, <4>5
    <3> QED
      BY <3>1, <3>2 DEF SubsTell
  <2>10. subs' \subseteq SubType /\ user' \in UserType
    BY <1>2, <2>4, <2>6, <2>7
  <2> QED
    BY <1>1, <1>2, <1>4, <1>5, <1>6, <2>9, <2>10 DEF PurchaseInv, PlanTypeOK, PlanMoves, PPC
<1>8. CASE Buys(q) \/ Pays(q)
  <2>1. UNCHANGED <<user, subs>>
    BY <1>8 DEF Buys, Pays
  <2>2. SubsTell'
    BY <2>1 DEF PurchaseInv, SubsTell
  <2> QED
    BY <1>1, <1>2, <1>4, <1>5, <1>6, <2>1, <2>2 DEF PurchaseInv, PlanTypeOK, PlanMoves, PPC
<1> QED
  BY <1>1, <1>7, <1>8

\* Steps of the others leave the requests' invariant alone.
LEMMA PlanFrame ==
  ASSUME PurchaseInv, UNCHANGED <<user, subs, inFlight, ppc, pop>>, Payments' = Payments,
         Settles(Payments), faults' = 0 => faults = 0
  PROVE  PurchaseInv'
<1>1. OneBuyer'
  BY DEF PurchaseInv, OneBuyer
<1>2. ASSUME NEW q \in Request PROVE RequestTells(q)'
  BY DEF PurchaseInv, RequestTells, Settles
<1>3. ASSUME faults' = 0, NEW i \in Payments' PROVE PaymentTells(i)'
  <2>1. i \in Payments /\ PaymentTells(i)
    BY <1>3 DEF PurchaseInv
  <2>2. CASE txs'[i].state = txs[i].state
    BY <2>1, <2>2 DEF PaymentTells
  <2>3. CASE txs[i].state = "pending" /\ txs'[i].state \in {"landed", "dead"}
    BY <2>1, <2>3 DEF PaymentTells
  <2> QED
    BY <2>1, <2>2, <2>3 DEF Settles
<1>4. SubsTell'
  BY DEF PurchaseInv, SubsTell
<1> QED
  BY <1>1, <1>2, <1>3, <1>4 DEF PurchaseInv

\* A restart ends every request.
LEMMA PlanRestart ==
  ASSUME PlanTypeOK, ChainTypeOK, PurchaseInv, Restart, faults \in Nat
  PROVE  PurchaseInv' /\ PlanTypeOK'
<1>1. UNCHANGED <<user, subs, pop, today>> /\ faults' # 0 /\ inFlight' = FALSE
      /\ ppc' = [q \in Request |-> IF ppc[q] = "idle" THEN "idle" ELSE "ended"]
  BY DEF Restart
<1>2. \A q \in Request : ppc'[q] \notin Buying
  BY <1>1 DEF Buying
<1>3. OneBuyer' /\ \A q \in Request : RequestTells(q)'
  BY <1>2 DEF OneBuyer, RequestTells, Buying
<1>4. SubsTell'
  BY <1>1 DEF PurchaseInv, SubsTell
<1>5. PlanTypeOK'
  BY <1>1 DEF PlanTypeOK
<1> QED
  BY <1>1, <1>3, <1>4, <1>5 DEF PurchaseInv

\* A handler's transfer is no payment for a plan, a request's is no payout.
LEMMA PayLeavesPlans ==
  ASSUME PayoutTypeOK, ChainTypeOK, PayInv, NEW h \in Handler, PayStep(h)
  PROVE  /\ Payments' = Payments /\ Settles(Payments)
         /\ \A i \in DOMAIN txs' \ DOMAIN txs :
              /\ pc[h] = "blockhash" /\ pc'[h] = "send" /\ txs'[i].state = "signed"
              /\ txs'[i].from = owner[Mine(h)] /\ txs'[i].amount = op[h].total
              /\ txs'[i].for = <<"payout", Mine(h)>>
<1>1. PayKeeps(h) /\ (Quiet(h) \/ Marks(h) \/ Sends(h)) /\ (pc[h] # "idle" => Mine(h) \in Position)
  BY PayGlobal, PayTable DEF PayoutTypeOK, Mine
<1>2. CASE Sends(h) /\ pc[h] = "blockhash"
  <2>1. PICK p \in Position : p = Mine(h)
    BY <1>1, <1>2
  <2>2. PICK w \in Wallet : w = owner[p]
    BY DEF PayoutTypeOK
  <2>3. PICK n \in Nat : n = op[h].total
    BY DEF PayoutTypeOK, OpType
  <2>4. PICK why \in {"payout", "plan"} \X Nat : why = <<"payout", p>>
    BY PoolAssumption
  <2>5. Sign(w, n, why) /\ pc'[h] = "send"
    BY <1>2, <2>1, <2>2, <2>3, <2>4 DEF Sends
  <2>6. LET k == Len(txs) + 1 IN
        /\ DOMAIN txs' = DOMAIN txs \cup {k} /\ (\A i \in DOMAIN txs : txs'[i] = txs[i])
        /\ txs'[k].from = w /\ txs'[k].amount = n /\ txs'[k].for = why /\ txs'[k].state = "signed"
    BY <2>5, SignFields
  <2>7. why # <<"plan", 0>>
    BY <2>4
  <2> QED
    BY <1>2, <2>1, <2>2, <2>3, <2>4, <2>5, <2>6, <2>7 DEF Payments, For, Settles
<1>3. CASE ~(Sends(h) /\ pc[h] = "blockhash")
  <2>1. DOMAIN txs' = DOMAIN txs
    <3>1. CASE Sends(h)
      <4>1. pc[h] = "send"
        BY <1>3, <3>1 DEF Sends
      <4>2. PICK s \in {"pending", "dead"} : txs' = [txs EXCEPT ![op[h].tx].state = s]
        BY <3>1, <4>1 DEF Sends
      <4> QED
        BY <4>1, <4>2, Held, StateFields
    <3> QED
      BY <1>1, <3>1 DEF Quiet, Marks
  <2>2. \A i \in DOMAIN txs : Kept(i) /\ (txs[i].for = <<"plan", 0>> => txs'[i] = txs[i])
    <3>1. <<"payout", Mine(h)>> # <<"plan", 0>>
      OBVIOUS
    <3> QED
      BY <1>1, <3>1 DEF PayKeeps
  <2> QED
    BY <2>1, <2>2 DEF Payments, For, Settles, Kept
<1> QED
  BY <1>2, <1>3

LEMMA PlansLeavePayouts ==
  ASSUME PlanTypeOK, ChainTypeOK, PurchaseInv, NEW q \in Request, PlanStep(q), NEW p \in Position
  PROVE  PayoutOf(p)' = PayoutOf(p) /\ Settles(PayoutOf(p))
<1>1. PlanKeeps(q) /\ <<"payout", p>> # <<"plan", 0>>
  BY PlanGlobal
<1>2. \A i \in PayoutOf(p) : txs'[i] = txs[i]
  BY <1>1 DEF PlanKeeps, PayoutOf, Payments, For
<1> QED
  BY <1>1, <1>2 DEF PlanKeeps, PayoutOf, For, Kept, Settles

\* The network settles transfers, and starts none.
LEMMA ChainKeeps ==
  ASSUME ChainTypeOK, NEW i \in DOMAIN txs, Land(i) \/ Die(i)
  PROVE  /\ txs' \in Seq(TxRecord) /\ Len(txs') = Len(txs) /\ DOMAIN txs' = DOMAIN txs
         /\ (\A j \in DOMAIN txs : Kept(j) /\ (j # i => txs'[j] = txs[j])) /\ Settles(DOMAIN txs)
         /\ txs[i].state = "pending" /\ txs'[i].state \in {"landed", "dead"}
         /\ sol' \in [Wallet -> Nat]
         /\ sol' = sol \/ (txs'[i].state = "landed" /\ txs[i].from \in Wallet
              /\ sol' = [sol EXCEPT ![txs[i].from] = sol[txs[i].from] - (txs[i].amount + TxFee)]
              /\ sol[txs[i].from] >= txs[i].amount + TxFee)
         /\ \A why : For(why)' = For(why)
<1>1. txs[i].state = "pending" /\ \E s \in {"landed", "dead"} : txs' = [txs EXCEPT ![i].state = s]
  BY DEF Land, Die
<1>2. /\ txs' \in Seq(TxRecord) /\ Len(txs') = Len(txs) /\ DOMAIN txs' = DOMAIN txs
      /\ txs'[i].state \in {"landed", "dead"} /\ Kept(i) /\ \A j \in DOMAIN txs : j # i => txs'[j] = txs[j]
  BY <1>1, StateFields
<1>3. \A j \in DOMAIN txs : Kept(j)
  BY <1>2 DEF Kept
<1>4. PICK w \in Wallet : w = txs[i].from
  BY TransferType
<1>5. PICK n \in Nat : n = txs[i].amount
  BY TransferType
<1>6. PICK m \in Nat : m = sol[w]
  BY DEF ChainTypeOK
<1>7. sol' = sol \/ (txs'[i].state = "landed" /\ m >= n + TxFee /\ sol' = [sol EXCEPT ![w] = m - (n + TxFee)])
  <2>1. CASE Die(i)
    BY <2>1 DEF Die
  <2>2. CASE Land(i)
    <3>1. txs'[i].state = "landed"
      BY <2>2, StateFields DEF Land
    <3>2. m >= n + TxFee /\ sol' = [sol EXCEPT ![w] = m - n - TxFee]
      BY <1>4, <1>5, <1>6, <2>2 DEF Land, ChainTypeOK
    <3>3. m - n - TxFee = m - (n + TxFee)
      BY FeeAssumption
    <3> QED
      BY <3>1, <3>2, <3>3
  <2> QED
    BY <2>1, <2>2
<1>8. sol' \in [Wallet -> Nat]
  <2>1. m >= n + TxFee => m - (n + TxFee) \in Nat
    BY FeeAssumption
  <2> QED
    BY <1>7, <2>1 DEF ChainTypeOK
<1>9. \A why : For(why)' = For(why)
  BY <1>2, <1>3 DEF For, Kept
<1>10. Settles(DOMAIN txs)
  BY <1>1, <1>2 DEF Settles
<1> QED
  BY <1>1, <1>2, <1>3, <1>4, <1>5, <1>6, <1>7, <1>8, <1>9, <1>10

-----------------------------------------------------------------------------
\* --- Balances ---------------------------------------------------------------------

Solid == sol \in [Wallet -> Nat]

LEMMA LedgerTypes ==
  ASSUME LedgerTypeOK, Solid, NEW w \in Wallet
  PROVE  /\ credited[w] \in Nat /\ inflow[w] \in Nat /\ sol[w] \in Nat /\ known[w] \in Balance
         /\ (known[w] # Null => known[w] \in Int) /\ \A r \in Refresher : Seen(r, w) \in Nat
BY DEF LedgerTypeOK, Solid, Balance, Seen, BopType

\* No new balance read of the wallet.
SameSamples(w) == \A r \in Refresher : Holds(r, w)' => Holds(r, w) /\ Seen(r, w)' = Seen(r, w)

\* Steps that write nothing and read no balance.
LEMMA CreditKept ==
  ASSUME LedgerTypeOK, Solid, Solid', NEW w \in Wallet, CreditInv(w), SameSamples(w), sol'[w] <= sol[w],
         known'[w] = known[w], credited'[w] = credited[w], inflow'[w] = inflow[w],
         \A h \in Refresher \cup {"admin"} : <<h, w>> \in aged => <<h, w>> \in aged',
         \A x \in owed' : x.wallet = w => x \in owed
  PROVE  CreditInv(w)'
<1>1. sol[w] \in Nat /\ sol'[w] \in Nat /\ credited[w] \in Nat /\ inflow[w] \in Nat
      /\ (known[w] # Null => known[w] \in Int) /\ \A r \in Refresher : Seen(r, w) \in Nat
  BY LedgerTypes DEF Solid
<1>2. credited'[w] <= inflow'[w]
  BY DEF CreditInv
<1>3. known'[w] # Null => credited'[w] + sol'[w] - known'[w] <= inflow'[w]
  BY <1>1 DEF CreditInv
<1>4. ASSUME NEW r \in Refresher, Holds(r, w)', <<r, w>> \notin aged'
      PROVE  /\ credited'[w] + sol'[w] - Seen(r, w)' <= inflow'[w]
             /\ known'[w] # Null => credited'[w] + Seen(r, w)' - known'[w] <= inflow'[w]
  <2>1. Holds(r, w) /\ Seen(r, w)' = Seen(r, w) /\ <<r, w>> \notin aged
    BY <1>4 DEF SameSamples
  <2>2. /\ credited[w] + sol[w] - Seen(r, w) <= inflow[w]
        /\ known[w] # Null => credited[w] + Seen(r, w) - known[w] <= inflow[w]
    BY <2>1 DEF CreditInv
  <2>3. Seen(r, w) \in Nat
    BY <1>1
  <2> QED
    BY <1>1, <2>1, <2>2, <2>3
<1>5. ASSUME NEW x \in owed', x.wallet = w, <<"admin", w>> \notin aged'
      PROVE  /\ x.read => x.known = known'[w]
             /\ known'[w] # Null => credited'[w] + sol'[w] + x.amount - known'[w] <= inflow'[w]
  <2>1. x \in owed /\ x.amount \in Nat
    BY <1>5 DEF LedgerTypeOK, OutType
  <2>2. /\ x.read => x.known = known[w]
        /\ known[w] # Null => credited[w] + sol[w] + x.amount - known[w] <= inflow[w]
    BY <1>5, <2>1 DEF CreditInv
  <2> QED
    BY <1>1, <2>1, <2>2
<1> QED
  BY <1>2, <1>3, <1>4, <1>5 DEF CreditInv

\* known written: whoever held an older view of the wallet is aged.
LEMMA CreditWritten ==
  ASSUME NEW w \in Wallet, \A g \in Refresher \cup {"admin"} : <<g, w>> \in aged',
         credited'[w] <= inflow'[w],
         known'[w] # Null => credited'[w] + sol'[w] - known'[w] <= inflow'[w]
  PROVE  CreditInv(w)'
BY DEF CreditInv

\* A balance read from the chain now.
LEMMA CreditRead ==
  ASSUME LedgerTypeOK, Solid, NEW w \in Wallet, CreditInv(w),
         UNCHANGED <<known, credited, inflow, owed, sol>>,
         <<"admin", w>> \in aged' <=> <<"admin", w>> \in aged,
         \A r \in Refresher :
           Holds(r, w)' => \/ Seen(r, w)' = sol[w]
                           \/ /\ Holds(r, w) /\ Seen(r, w)' = Seen(r, w)
                              /\ (<<r, w>> \in aged => <<r, w>> \in aged')
  PROVE  CreditInv(w)'
<1>1. sol[w] \in Nat /\ credited[w] \in Nat /\ inflow[w] \in Nat
      /\ (known[w] # Null => known[w] \in Int) /\ \A r \in Refresher : Seen(r, w) \in Nat
  BY LedgerTypes
<1>2. ASSUME NEW r \in Refresher, Holds(r, w)', <<r, w>> \notin aged'
      PROVE  /\ credited[w] + sol[w] - Seen(r, w)' <= inflow[w]
             /\ known[w] # Null => credited[w] + Seen(r, w)' - known[w] <= inflow[w]
  <2>1. CASE Seen(r, w)' = sol[w]
    BY <1>1, <2>1 DEF CreditInv
  <2>2. CASE Seen(r, w)' # sol[w]
    <3>1. Holds(r, w) /\ Seen(r, w)' = Seen(r, w) /\ <<r, w>> \notin aged
      BY <1>2, <2>2
    <3>2. /\ credited[w] + sol[w] - Seen(r, w) <= inflow[w]
          /\ known[w] # Null => credited[w] + Seen(r, w) - known[w] <= inflow[w]
      BY <3>1 DEF CreditInv
    <3> QED
      BY <3>1, <3>2
  <2> QED
    BY <2>1, <2>2
<1> QED
  BY <1>2 DEF CreditInv

RefreshGood == LedgerTypeOK /\ Solid /\ RefreshInv

BPC == {"idle", "rpc", "row", "next", "write", "done"}

\* Enough for a step that writes nothing and reads no balance.
LEMMA QuietRefresh ==
  ASSUME RefreshGood, LedgerTypeOK', Solid', \A w \in Wallet : SameSamples(w) /\ sol'[w] <= sol[w],
         UNCHANGED <<known, credited, inflow, aged, stale>>, owed' \subseteq owed, Places'
  PROVE  RefreshGood'
BY CreditKept DEF RefreshGood, RefreshInv

\* The wallets' rows, and what the poll and the requests do before they hold a balance.
LEMMA RefreshRows ==
  ASSUME RefreshGood,
         \/ \E w \in Wallet : AddWallet(w) \/ DeleteWallet(w) \/ RestoreWallet(w)
         \/ Tick \/ BatchFails \/ TickEnds
         \/ \E r \in Refresher : RefreshFails(r)
  PROVE  RefreshGood'
<1>0. /\ LedgerTypeOK /\ Solid /\ (\A w \in Wallet : sol[w] \in Nat)
      /\ Places /\ bpc \in [Refresher -> BPC] /\ "monitor" \in Refresher
  BY DEF RefreshGood, RefreshInv, Solid, LedgerTypeOK, BPC, Refresher
<1>1. CASE \E w \in Wallet : AddWallet(w) \/ DeleteWallet(w) \/ RestoreWallet(w)
  <2>1. UNCHANGED <<known, credited, todo, fetched, bpc, bop, owed, inflow, aged, stale, sol, txs>>
    BY <1>1 DEF AddWallet, DeleteWallet, RestoreWallet, monitorVars, observers, chainVars
  <2>2. row' \in [Wallet -> {"none", "active", "inactive"}]
    BY <1>0, <1>1 DEF AddWallet, DeleteWallet, RestoreWallet, LedgerTypeOK
  <2>3. LedgerTypeOK' /\ Solid'
    BY <1>0, <2>1, <2>2 DEF LedgerTypeOK, Solid
  <2>4. \A w \in Wallet : SameSamples(w)
    BY <2>1 DEF SameSamples, Holds, Seen
  <2> QED
    BY <1>0, <2>1, <2>3, <2>4, QuietRefresh DEF Places
<1>2. CASE Tick \/ BatchFails \/ TickEnds
  <2>1. /\ UNCHANGED <<row, known, credited, fetched, bop, owed, inflow, aged, stale, sol, txs>>
        /\ todo' \in SUBSET Wallet
    BY <1>0, <1>2 DEF Tick, BatchFails, TickEnds, monitorVars, observers, chainVars, LedgerTypeOK
  <2>2. PICK to \in BPC : bpc' = [bpc EXCEPT !["monitor"] = to] /\ to \notin {"row", "write"}
                          /\ (to = "next" => todo' = {})
    BY <1>2 DEF Tick, BatchFails, TickEnds, Move, BPC
  <2>3. LedgerTypeOK' /\ Solid'
    BY <1>0, <2>1, <2>2 DEF LedgerTypeOK, Solid, BPC
  <2>4. \A r \in Refresher : bpc'[r] = IF r = "monitor" THEN to ELSE bpc[r]
    BY <1>0, <2>2
  <2>5. \A w \in Wallet : SameSamples(w)
    BY <2>1, <2>2, <2>4 DEF SameSamples, Holds, Seen
  <2> QED
    BY <1>0, <2>1, <2>2, <2>3, <2>4, <2>5, QuietRefresh DEF Places
<1>3. CASE \E r \in Refresher : RefreshFails(r)
  <2>1. PICK r \in Refresher : RefreshFails(r)
    BY <1>3
  <2>2. UNCHANGED <<row, known, credited, todo, fetched, bop, owed, inflow, aged, stale, sol, txs>>
        /\ bpc' = [bpc EXCEPT ![r] = Onward(r)] /\ bpc[r] \in {"row", "write"}
    BY <2>1 DEF RefreshFails, Move, monitorVars, observers, chainVars
  <2>3. /\ \A g \in Refresher : bpc'[g] = IF g = r THEN Onward(r) ELSE bpc[g]
        /\ bpc' \in [Refresher -> BPC] /\ Onward(r) \in {"next", "done"} /\ (Onward(r) = "next" => r = "monitor")
    BY <1>0, <2>2 DEF Onward, BPC
  <2>4. LedgerTypeOK' /\ Solid'
    BY <1>0, <2>2, <2>3 DEF LedgerTypeOK, Solid, BPC
  <2>5. \A w \in Wallet : SameSamples(w)
    <3> SUFFICES ASSUME NEW w \in Wallet, NEW g \in Refresher, Holds(g, w)'
                 PROVE  Holds(g, w) /\ Seen(g, w)' = Seen(g, w)
      BY DEF SameSamples
    <3>1. CASE g # r
      BY <2>2, <2>3, <3>1 DEF Holds, Seen
    <3>2. CASE g = r
      BY <1>0, <2>2, <2>3, <3>2 DEF Holds, Seen, Places
    <3> QED
      BY <3>1, <3>2
  <2> QED
    BY <1>0, <2>2, <2>3, <2>4, <2>5, QuietRefresh DEF Places
<1> QED
  BY <1>1, <1>2, <1>3

\* The row read before, or with, a balance: the poll's next wallet, a request's first query.
LEMMA RefreshReads ==
  ASSUME RefreshGood, NEW w \in Wallet,
         MonitorRow(w) \/ \E r \in Refresh : RefreshRow(r, w)
  PROVE  RefreshGood'
<1>0. /\ LedgerTypeOK /\ Solid /\ (\A v \in Wallet : sol[v] \in Nat) /\ Places
      /\ bpc \in [Refresher -> BPC] /\ bop \in [Refresher -> BopType] /\ "monitor" \in Refresher
      /\ "monitor" \notin Refresh /\ Refresh \subseteq Refresher
      /\ known[w] \in Balance /\ fetched[w] \in Nat
  BY NullAssumption DEF RefreshGood, RefreshInv, Solid, LedgerTypeOK, BPC, Refresher
<1>1. CASE MonitorRow(w)
  <2>1. /\ UNCHANGED <<row, known, credited, fetched, owed, inflow, aged, stale, sol, txs>>
        /\ w \in todo /\ todo' = todo \ {w} /\ bpc["monitor"] = "next"
    BY <1>1 DEF MonitorRow, Move, observers, chainVars
  <2>2. CASE row[w] = "active"
    <3> DEFINE o == [wallet |-> w, previous |-> known[w], lamports |-> fetched[w]]
    <3>1. o \in BopType /\ o.wallet = w /\ o.lamports = fetched[w]
      BY <1>0 DEF BopType
    <3>2. bpc' = [bpc EXCEPT !["monitor"] = "write"] /\ bop' = [bop EXCEPT !["monitor"] = o]
      BY <1>1, <2>2 DEF MonitorRow, Move
    <3> HIDE DEF o
    <3>3. \A r \in Refresher : bpc'[r] = (IF r = "monitor" THEN "write" ELSE bpc[r])
                               /\ bop'[r] = (IF r = "monitor" THEN o ELSE bop[r])
      BY <1>0, <3>2
    <3>4. LedgerTypeOK' /\ Solid'
      BY <1>0, <2>1, <3>1, <3>2 DEF LedgerTypeOK, Solid, BPC
    <3>5. Places'
      BY <1>0, <2>1, <3>1, <3>3 DEF Places
    <3>6. ASSUME NEW v \in Wallet, NEW r \in Refresher, Holds(r, v)'
          PROVE  Holds(r, v) /\ Seen(r, v)' = Seen(r, v)
      <4>1. CASE r = "monitor"
        BY <2>1, <3>1, <3>3, <3>6, <4>1 DEF Holds, Seen
      <4>2. CASE r # "monitor"
        BY <2>1, <3>3, <3>6, <4>2 DEF Holds, Seen
      <4> QED
        BY <4>1, <4>2
    <3> QED
      BY <1>0, <2>1, <3>4, <3>5, <3>6, QuietRefresh DEF SameSamples
  <2>3. CASE row[w] # "active"
    <3>1. bpc' = [bpc EXCEPT !["monitor"] = "next"] /\ bop' = bop
      BY <1>1, <2>3 DEF MonitorRow, Move
    <3>2. \A r \in Refresher : bpc'[r] = bpc[r]
      BY <1>0, <2>1, <3>1
    <3>3. LedgerTypeOK' /\ Solid'
      BY <1>0, <2>1, <3>1 DEF LedgerTypeOK, Solid, BPC
    <3>4. Places'
      BY <1>0, <2>1, <3>1, <3>2 DEF Places
    <3>5. \A v \in Wallet : SameSamples(v)
      BY <2>1, <3>1, <3>2 DEF SameSamples, Holds, Seen
    <3> QED
      BY <1>0, <2>1, <3>3, <3>4, <3>5, QuietRefresh
  <2> QED
    BY <2>2, <2>3
<1>2. CASE \E r \in Refresh : RefreshRow(r, w)
  <2>1. PICK r \in Refresh : RefreshRow(r, w)
    BY <1>2
  <2>2. UNCHANGED <<row, known, credited, todo, fetched, owed, inflow, aged, stale, sol, txs>>
    BY <2>1 DEF RefreshRow, monitorVars, observers, chainVars
  <2>3. PICK to \in {"row", "done"}, o \in BopType :
          /\ bpc' = [bpc EXCEPT ![r] = to] /\ bop' = [bop EXCEPT ![r] = o]
          /\ to = "row" => o.wallet \in Wallet
    <3>1. CASE row[w] = "active"
      <4> DEFINE o == [NoRefresh EXCEPT !.wallet = w, !.previous = known[w]]
      <4>1. o \in BopType /\ o.wallet = w
        BY <1>0 DEF BopType, NoRefresh
      <4>2. bpc' = [bpc EXCEPT ![r] = "row"] /\ bop' = [bop EXCEPT ![r] = o]
        BY <2>1, <3>1 DEF RefreshRow, Move
      <4> QED
        BY <4>1, <4>2
    <3>2. CASE row[w] # "active"
      <4>1. bpc' = [bpc EXCEPT ![r] = "done"] /\ bop' = bop
        BY <2>1, <3>2 DEF RefreshRow, Move
      <4>2. bop' = [bop EXCEPT ![r] = bop[r]] /\ bop[r] \in BopType
        BY <1>0, <4>1
      <4> QED
        BY <4>1, <4>2
    <3> QED
      BY <3>1, <3>2
  <2>4. r \in Refresher /\ r # "monitor"
        /\ \A g \in Refresher : bpc'[g] = (IF g = r THEN to ELSE bpc[g]) /\ bop'[g] = (IF g = r THEN o ELSE bop[g])
    BY <1>0, <2>3
  <2>5. LedgerTypeOK' /\ Solid'
    BY <1>0, <2>2, <2>3 DEF LedgerTypeOK, Solid, BPC
  <2>6. Places'
    BY <1>0, <2>2, <2>3, <2>4 DEF Places
  <2>7. \A v \in Wallet : SameSamples(v)
    BY <2>2, <2>3, <2>4 DEF SameSamples, Holds, Seen
  <2> QED
    BY <1>0, <2>2, <2>5, <2>6, <2>7, QuietRefresh
<1> QED
  BY <1>1, <1>2

\* A balance comes back: the poll's batch, a request's one.
LEMMA RefreshSamples ==
  ASSUME RefreshGood, Prefetch \/ \E r \in Refresh : RefreshBalance(r)
  PROVE  RefreshGood'
<1>0. /\ LedgerTypeOK /\ Solid /\ Places /\ bpc \in [Refresher -> BPC] /\ bop \in [Refresher -> BopType]
      /\ "monitor" \in Refresher /\ "monitor" \notin Refresh /\ "admin" \notin Refresher
      /\ Refresh \subseteq Refresher /\ sol \in [Wallet -> Nat]
      /\ \A w \in Wallet \ stale : CreditInv(w)
  BY NullAssumption DEF RefreshGood, RefreshInv, Solid, LedgerTypeOK, BPC, Refresher
<1>1. CASE Prefetch
  <2>1. /\ UNCHANGED <<row, known, credited, todo, bop, owed, inflow, stale, sol, txs>>
        /\ bpc["monitor"] = "rpc" /\ bpc' = [bpc EXCEPT !["monitor"] = "next"]
        /\ fetched' = sol /\ aged' = aged \ ({"monitor"} \X Wallet)
    BY <1>1 DEF Prefetch, Move, chainVars
  <2>2. \A r \in Refresher : bpc'[r] = IF r = "monitor" THEN "next" ELSE bpc[r]
    BY <1>0, <2>1
  <2>3. LedgerTypeOK' /\ Solid'
    BY <1>0, <2>1 DEF LedgerTypeOK, Solid, BPC
  <2>4. Places'
    BY <1>0, <2>1, <2>2 DEF Places
  <2>5. ASSUME NEW w \in Wallet, NEW r \in Refresher, Holds(r, w)'
        PROVE  \/ Seen(r, w)' = sol[w]
               \/ Holds(r, w) /\ Seen(r, w)' = Seen(r, w) /\ (<<r, w>> \in aged => <<r, w>> \in aged')
    <3>1. CASE r = "monitor"
      BY <2>1, <2>2, <2>5, <3>1 DEF Holds, Seen
    <3>2. CASE r # "monitor"
      BY <2>1, <2>2, <2>5, <3>2 DEF Holds, Seen
    <3> QED
      BY <3>1, <3>2
  <2>6. \A w \in Wallet : <<"admin", w>> \in aged' <=> <<"admin", w>> \in aged
    BY <2>1
  <2>7. \A w \in Wallet \ stale' : CreditInv(w)'
    BY <1>0, <2>1, <2>5, <2>6, CreditRead
  <2> QED
    BY <2>3, <2>4, <2>7 DEF RefreshGood, RefreshInv
<1>2. CASE \E r \in Refresh : RefreshBalance(r)
  <2>1. PICK r \in Refresh : RefreshBalance(r)
    BY <1>2
  <2>2. PICK w \in Wallet : w = bop[r].wallet
    BY <1>0, <2>1 DEF RefreshBalance, Move, Places
  <2>3. PICK n \in Nat : n = sol[w]
    BY <1>0
  <2> DEFINE o == [bop[r] EXCEPT !.lamports = n]
  <2>4. o \in BopType /\ o.wallet = w /\ o.lamports = n
    BY <1>0, <2>2 DEF BopType
  <2>5. /\ UNCHANGED <<row, known, credited, todo, fetched, owed, inflow, stale, sol, txs>>
        /\ bpc[r] = "row" /\ bpc' = [bpc EXCEPT ![r] = "write"] /\ bop' = [bop EXCEPT ![r] = o]
        /\ aged' = aged \ {<<r, w>>}
    BY <1>0, <2>1, <2>2, <2>3 DEF RefreshBalance, Move, monitorVars, chainVars
  <2> HIDE DEF o
  <2>6. r \in Refresher /\ r # "monitor"
        /\ \A g \in Refresher : bpc'[g] = (IF g = r THEN "write" ELSE bpc[g])
                                /\ bop'[g] = (IF g = r THEN o ELSE bop[g])
    BY <1>0, <2>5
  <2>7. LedgerTypeOK' /\ Solid'
    BY <1>0, <2>4, <2>5 DEF LedgerTypeOK, Solid, BPC
  <2>8. Places'
    BY <1>0, <2>4, <2>5, <2>6 DEF Places
  <2>9. ASSUME NEW v \in Wallet, NEW g \in Refresher, Holds(g, v)'
        PROVE  \/ Seen(g, v)' = sol[v]
               \/ Holds(g, v) /\ Seen(g, v)' = Seen(g, v) /\ (<<g, v>> \in aged => <<g, v>> \in aged')
    <3>1. CASE g = r
      BY <2>3, <2>4, <2>5, <2>6, <2>9, <3>1 DEF Holds, Seen
    <3>2. CASE g # r
      BY <2>5, <2>6, <2>9, <3>2 DEF Holds, Seen
    <3> QED
      BY <3>1, <3>2
  <2>10. \A v \in Wallet : <<"admin", v>> \in aged' <=> <<"admin", v>> \in aged
    BY <1>0, <2>5, <2>6
  <2>11. \A v \in Wallet \ stale' : CreditInv(v)'
    BY <1>0, <2>5, <2>9, <2>10, CreditRead
  <2> QED
    BY <2>7, <2>8, <2>11 DEF RefreshGood, RefreshInv
<1> QED
  BY <1>1, <1>2

\* known is written for one wallet, from what one holder saw of it.
LEMMA Written ==
  ASSUME RefreshGood, NEW h \in Refresher \cup {"admin"}, NEW w \in Wallet, NEW n \in Int,
         SetKnown(h, w, n)
  PROVE  /\ known' \in [Wallet -> Balance] /\ known'[w] = n /\ n # Null
         /\ \A v \in Wallet \ {w} : known'[v] = known[v]
         /\ aged' \subseteq Holder /\ aged \subseteq aged'
         /\ \A g \in Refresher \cup {"admin"} : <<g, w>> \in aged'
         /\ stale' \in SUBSET Wallet /\ stale \subseteq stale'
         /\ (w \notin stale' => <<h, w>> \notin aged)
<1>1. known' = [known EXCEPT ![w] = n] /\ known \in [Wallet -> Balance] /\ n \in Balance
  BY DEF SetKnown, Overwrite, RefreshGood, LedgerTypeOK, Balance
<1>2. aged' = aged \cup {<<g, w>> : g \in Refresher \cup {"admin"}} /\ aged \subseteq Holder
  BY DEF SetKnown, Overwrite, RefreshGood, LedgerTypeOK
<1>3. stale' = IF <<h, w>> \in aged THEN stale \cup {w} ELSE stale
  BY DEF SetKnown
<1>4. stale \in SUBSET Wallet
  BY DEF RefreshGood, LedgerTypeOK
<1>5. aged' \subseteq Holder
  BY <1>2 DEF Holder
<1> QED
  BY <1>1, <1>2, <1>3, <1>4, <1>5, NullAssumption

\* A refresher writes what it saw, and credits a rise if known still is what it read.
LEMMA RefreshWrites ==
  ASSUME RefreshGood, NEW r \in Refresher, WriteCache(r) \/ WriteDeposit(r)
  PROVE  RefreshGood'
<1>0. /\ LedgerTypeOK /\ Solid /\ Places /\ bpc \in [Refresher -> BPC] /\ bop \in [Refresher -> BopType]
      /\ credited \in [Wallet -> Nat] /\ inflow \in [Wallet -> Nat]
      /\ \A w \in Wallet \ stale : CreditInv(w)
  BY DEF RefreshGood, RefreshInv, LedgerTypeOK, BPC
<1>1. /\ UNCHANGED <<row, todo, fetched, bop, owed, inflow, sol, txs>> /\ bpc[r] = "write"
      /\ bpc' = [bpc EXCEPT ![r] = Onward(r)]
  BY DEF WriteCache, WriteDeposit, Move, monitorVars, chainVars
<1>2. /\ \A g \in Refresher : bpc'[g] = IF g = r THEN Onward(r) ELSE bpc[g]
      /\ bpc' \in [Refresher -> BPC] /\ Onward(r) \in {"next", "done"} /\ (Onward(r) = "next" => r = "monitor")
  BY <1>0, <1>1 DEF Onward, BPC
<1>3. PICK w \in Wallet : w = bop[r].wallet
  BY <1>0, <1>1 DEF Places
<1>4. PICK n \in Nat : n = bop[r].lamports
  BY <1>0 DEF BopType
<1>5. PICK p \in Balance : p = bop[r].previous
  BY <1>0 DEF BopType
<1>6. Holds(r, w) /\ Seen(r, w) = n
  BY <1>1, <1>3, <1>4 DEF Holds, Seen
<1>7. \A v \in Wallet : SameSamples(v)
  <2> SUFFICES ASSUME NEW v \in Wallet, NEW g \in Refresher, Holds(g, v)'
               PROVE  Holds(g, v) /\ Seen(g, v)' = Seen(g, v)
    BY DEF SameSamples
  <2>1. CASE g # r
    BY <1>1, <1>2, <2>1 DEF Holds, Seen
  <2>2. CASE g = r
    BY <1>0, <1>1, <1>2, <2>2 DEF Holds, Seen, Places
  <2> QED
    BY <2>1, <2>2
<1>8. Places' /\ Solid'
  BY <1>0, <1>1, <1>2 DEF Places, Solid
<1>9. ASSUME NEW v \in Wallet
      PROVE  credited[v] \in Nat /\ inflow[v] \in Nat /\ sol[v] \in Nat /\ known[v] \in Balance
             /\ (known[v] # Null => known[v] \in Int) /\ sol'[v] = sol[v] /\ sol'[v] <= sol[v]
  BY <1>0, <1>1, LedgerTypes
<1>10. CASE WriteCache(r) \/ (WriteDeposit(r) /\ known[w] = p)
  <2>1. SetKnown(r, w, n) /\ n \in Int
    BY <1>3, <1>4, <1>5, <1>10 DEF WriteCache, WriteDeposit
  <2>2. /\ known' \in [Wallet -> Balance] /\ known'[w] = n /\ n # Null
        /\ \A v \in Wallet \ {w} : known'[v] = known[v]
        /\ aged' \subseteq Holder /\ aged \subseteq aged'
        /\ \A g \in Refresher \cup {"admin"} : <<g, w>> \in aged'
        /\ stale' \in SUBSET Wallet /\ stale \subseteq stale'
        /\ (w \notin stale' => <<r, w>> \notin aged)
    BY <2>1, Written
  <2>3. \/ UNCHANGED credited
        \/ /\ known[w] = p /\ p # Null /\ n > p
           /\ credited' = [credited EXCEPT ![w] = credited[w] + (n - p)]
    BY <1>0, <1>3, <1>4, <1>5, <1>10 DEF WriteCache, WriteDeposit, Rose
  <2>4. credited' \in [Wallet -> Nat] /\ \A v \in Wallet \ {w} : credited'[v] = credited[v]
    <3>1. CASE UNCHANGED credited
      BY <1>0, <3>1
    <3>2. CASE ~ UNCHANGED credited
      <4>1. p \in Int /\ n > p
        BY <2>3, <3>2 DEF Balance
      <4>2. PICK c \in Nat : c = credited[w] + (n - p)
        BY <1>9, <4>1
      <4> QED
        BY <1>0, <2>3, <3>2, <4>2
    <3> QED
      BY <3>1, <3>2
  <2>5. LedgerTypeOK'
    BY <1>0, <1>1, <1>2, <2>2, <2>4 DEF LedgerTypeOK, BPC
  <2>6. ASSUME w \notin stale'
        PROVE  credited'[w] <= inflow'[w] /\ credited'[w] + sol'[w] - known'[w] <= inflow'[w]
    <3>1. CreditInv(w) /\ <<r, w>> \notin aged
      BY <1>0, <2>2, <2>6
    <3>2. /\ credited[w] <= inflow[w] /\ (known[w] # Null => credited[w] + sol[w] - known[w] <= inflow[w])
          /\ credited[w] + sol[w] - n <= inflow[w]
          /\ (known[w] # Null => credited[w] + n - known[w] <= inflow[w])
      BY <1>6, <3>1 DEF CreditInv
    <3>3. CASE UNCHANGED credited
      BY <1>1, <1>9, <2>2, <3>2, <3>3
    <3>4. CASE ~ UNCHANGED credited
      <4>1. p \in Int /\ known[w] = p /\ known[w] # Null /\ credited'[w] = credited[w] + (n - p)
        BY <1>0, <2>3, <3>4 DEF Balance
      <4> QED
        BY <1>1, <1>9, <2>2, <3>2, <4>1
    <3> QED
      BY <3>3, <3>4
  <2>7. ASSUME NEW v \in Wallet \ stale' PROVE CreditInv(v)'
    <3>1. CASE v = w
      BY <2>2, <2>6, <2>7, <3>1, CreditWritten
    <3>2. CASE v # w
      <4>1. CreditInv(v) /\ SameSamples(v)
        BY <1>0, <1>7, <2>2, <2>7
      <4>2. known'[v] = known[v] /\ credited'[v] = credited[v] /\ inflow'[v] = inflow[v]
        BY <1>1, <2>2, <2>4, <3>2
      <4>3. \A h \in Refresher \cup {"admin"} : <<h, v>> \in aged => <<h, v>> \in aged'
        BY <2>2
      <4> QED
        BY <1>0, <1>1, <1>8, <1>9, <4>1, <4>2, <4>3, CreditKept
    <3> QED
      BY <3>1, <3>2
  <2> QED
    BY <1>8, <2>5, <2>7 DEF RefreshGood, RefreshInv
<1>11. CASE WriteDeposit(r) /\ known[w] # p
  <2>1. UNCHANGED <<known, credited, aged, stale>>
    BY <1>3, <1>5, <1>11 DEF WriteDeposit
  <2>2. LedgerTypeOK'
    BY <1>0, <1>1, <1>2, <2>1 DEF LedgerTypeOK, BPC
  <2> QED
    BY <1>1, <1>7, <1>8, <1>9, <2>1, <2>2, QuietRefresh
<1> QED
  BY <1>10, <1>11

\* Nothing about the refreshers changed.
LEMMA SameRefreshers ==
  ASSUME RefreshGood, UNCHANGED <<todo, fetched, bpc, bop>>
  PROVE  Places' /\ \A w \in Wallet : SameSamples(w)
BY DEF RefreshGood, RefreshInv, Places, SameSamples, Holds, Seen

\* The amount goes out, and is owed to the ledger.
LEMMA RefreshMove ==
  ASSUME RefreshGood, NEW w \in Wallet, NEW n \in Nat, MoveOut(w, n)
  PROVE  RefreshGood'
<1>0. /\ LedgerTypeOK /\ Solid /\ owed \subseteq OutType /\ sol \in [Wallet -> Nat] /\ aged \subseteq Holder
      /\ \A v \in Wallet \ stale : CreditInv(v)
  BY DEF RefreshGood, RefreshInv, LedgerTypeOK, Solid
<1> DEFINE y == [wallet |-> w, amount |-> n, known |-> Null, read |-> FALSE]
<1>1. y \in OutType /\ y.wallet = w /\ y.amount = n /\ y.read = FALSE
  BY DEF OutType, Balance
<1>2. /\ UNCHANGED <<row, known, credited, todo, fetched, bpc, bop, inflow, stale, txs>>
      /\ n <= sol[w] /\ sol' = [sol EXCEPT ![w] = sol[w] - n] /\ owed' = owed \cup {y}
      /\ aged' = IF \E x \in owed : x.wallet = w THEN aged ELSE aged \ {<<"admin", w>>}
  BY <1>0 DEF MoveOut, monitorVars
<1> HIDE DEF y
<1>3. sol[w] \in Nat /\ sol[w] - n \in Nat /\ sol'[w] = sol[w] - n
      /\ \A v \in Wallet \ {w} : sol'[v] = sol[v]
  BY <1>0, <1>2
<1>4. Solid'
  BY <1>0, <1>2, <1>3 DEF Solid
<1>5. LedgerTypeOK'
  BY <1>0, <1>1, <1>2 DEF LedgerTypeOK
<1>6. Places' /\ \A v \in Wallet : SameSamples(v)
  BY <1>2, SameRefreshers
<1>7. ASSUME NEW v \in Wallet \ stale', v # w PROVE CreditInv(v)'
  <2>1. CreditInv(v) /\ SameSamples(v) /\ sol'[v] <= sol[v]
    BY <1>0, <1>2, <1>3, <1>6, <1>7 DEF Solid
  <2>2. \A h \in Refresher \cup {"admin"} : <<h, v>> \in aged => <<h, v>> \in aged'
    BY <1>2, <1>7
  <2>3. \A x \in owed' : x.wallet = v => x \in owed
    BY <1>1, <1>2, <1>7
  <2> QED
    BY <1>0, <1>2, <1>4, <2>1, <2>2, <2>3, CreditKept
<1>8. ASSUME w \notin stale' PROVE CreditInv(w)'
  <2>1. CreditInv(w)
    BY <1>0, <1>2, <1>8
  <2>2. sol[w] \in Nat /\ credited[w] \in Nat /\ inflow[w] \in Nat
        /\ (known[w] # Null => known[w] \in Int) /\ \A r \in Refresher : Seen(r, w) \in Nat
    BY <1>0, LedgerTypes
  <2>3. credited[w] <= inflow[w] /\ (known[w] # Null => credited[w] + sol[w] - known[w] <= inflow[w])
    BY <2>1 DEF CreditInv
  <2>4. ASSUME NEW r \in Refresher, Holds(r, w)', <<r, w>> \notin aged'
        PROVE  /\ credited[w] + sol'[w] - Seen(r, w)' <= inflow[w]
               /\ known[w] # Null => credited[w] + Seen(r, w)' - known[w] <= inflow[w]
    <3>1. r # "admin"
      BY NullAssumption DEF Refresher
    <3>2. Holds(r, w) /\ Seen(r, w)' = Seen(r, w) /\ <<r, w>> \notin aged
      BY <1>2, <1>6, <2>4, <3>1 DEF SameSamples
    <3>3. /\ credited[w] + sol[w] - Seen(r, w) <= inflow[w]
          /\ known[w] # Null => credited[w] + Seen(r, w) - known[w] <= inflow[w]
      BY <2>1, <3>2 DEF CreditInv
    <3>4. Seen(r, w) \in Nat
      BY <2>2
    <3> QED
      BY <1>3, <2>2, <3>2, <3>3, <3>4
  <2>5. ASSUME NEW x \in owed', x.wallet = w, <<"admin", w>> \notin aged'
        PROVE  /\ x.read => x.known = known[w]
               /\ known[w] # Null => credited[w] + sol'[w] + x.amount - known[w] <= inflow[w]
    <3>1. CASE x \in owed
      <4>1. <<"admin", w>> \notin aged /\ x.amount \in Nat
        BY <1>0, <1>2, <2>5, <3>1 DEF OutType
      <4>2. /\ x.read => x.known = known[w]
            /\ known[w] # Null => credited[w] + sol[w] + x.amount - known[w] <= inflow[w]
        BY <2>1, <2>5, <3>1, <4>1 DEF CreditInv
      <4> QED
        BY <1>3, <2>2, <4>1, <4>2
    <3>2. CASE x = y
      <4>1. x.amount = n /\ ~x.read
        BY <1>1, <3>2
      <4>2. sol'[w] + x.amount = sol[w]
        BY <1>3, <4>1
      <4> QED
        BY <1>3, <2>2, <2>3, <4>1, <4>2
    <3> QED
      BY <1>2, <2>5, <3>1, <3>2
  <2>6. sol'[w] <= sol[w] /\ sol'[w] \in Nat
    BY <1>3
  <2>7. known[w] # Null => credited[w] + sol'[w] - known[w] <= inflow[w]
    BY <2>2, <2>3, <2>6
  <2> QED
    BY <1>2, <2>3, <2>4, <2>5, <2>7 DEF CreditInv
<1> QED
  BY <1>4, <1>5, <1>6, <1>7, <1>8 DEF RefreshGood, RefreshInv

\* The admin records a withdrawal: the row read, then written.
LEMMA RefreshWithdrawals ==
  ASSUME RefreshGood, NEW x \in owed, ReadWithdrawal(x) \/ RecordWithdrawal(x)
  PROVE  RefreshGood'
<1>0. /\ LedgerTypeOK /\ Solid /\ owed \subseteq OutType /\ x.wallet \in Wallet /\ x.amount \in Nat
      /\ x.known \in Balance /\ (\A v \in Wallet \ stale : CreditInv(v)) /\ aged \subseteq Holder
  BY DEF RefreshGood, RefreshInv, LedgerTypeOK, OutType
<1>1. UNCHANGED <<row, credited, todo, fetched, bpc, bop, inflow, sol, txs>> /\ Solid'
  BY <1>0 DEF ReadWithdrawal, RecordWithdrawal, monitorVars, observers, chainVars, Solid
<1>2. Places' /\ \A v \in Wallet : SameSamples(v) /\ sol'[v] <= sol[v]
  BY <1>0, <1>1, SameRefreshers DEF Solid
<1>3. PICK w \in Wallet : w = x.wallet
  BY <1>0
<1>4. CASE ReadWithdrawal(x)
  <2>1. PICK k \in Balance : k = known[w]
    BY <1>0 DEF LedgerTypeOK
  <2> DEFINE y == [x EXCEPT !.known = k, !.read = TRUE]
  <2>2. y \in OutType /\ y.wallet = w /\ y.amount = x.amount /\ y.known = k
    BY <1>0, <1>3, <2>1 DEF OutType
  <2>3. UNCHANGED <<known, aged, stale>> /\ owed' = (owed \ {x}) \cup {y}
    BY <1>0, <1>3, <1>4, <2>1 DEF ReadWithdrawal, observers, OutType
  <2> HIDE DEF y
  <2>4. LedgerTypeOK'
    BY <1>0, <1>1, <2>2, <2>3 DEF LedgerTypeOK
  <2>5. ASSUME NEW v \in Wallet \ stale', v # w PROVE CreditInv(v)'
    <3>1. CreditInv(v) /\ \A z \in owed' : z.wallet = v => z \in owed
      BY <1>0, <2>2, <2>3, <2>5
    <3> QED
      BY <1>0, <1>1, <1>2, <2>3, <3>1, CreditKept
  <2>6. ASSUME w \notin stale' PROVE CreditInv(w)'
    <3>1. CreditInv(w)
      BY <1>0, <2>3, <2>6
    <3>2. \A r \in Refresher : Holds(r, w)' => Holds(r, w) /\ Seen(r, w)' = Seen(r, w)
      BY <1>2 DEF SameSamples
    <3>3. ASSUME NEW z \in owed', z.wallet = w, <<"admin", w>> \notin aged'
          PROVE  /\ z.read => z.known = known'[w]
                 /\ known'[w] # Null => credited'[w] + sol'[w] + z.amount - known'[w] <= inflow'[w]
      <4>1. CASE z \in owed
        BY <1>1, <2>3, <3>1, <3>3, <4>1 DEF CreditInv
      <4>2. CASE z = y
        <5>1. known[w] # Null => credited[w] + sol[w] + x.amount - known[w] <= inflow[w]
          BY <1>3, <2>3, <3>1, <3>3 DEF CreditInv
        <5> QED
          BY <1>1, <2>1, <2>2, <2>3, <4>2, <5>1
      <4> QED
        BY <2>3, <3>3, <4>1, <4>2
    <3>4. /\ credited'[w] <= inflow'[w]
          /\ known'[w] # Null => credited'[w] + sol'[w] - known'[w] <= inflow'[w]
      BY <1>1, <2>3, <3>1 DEF CreditInv
    <3>5. \A r \in Refresher : Holds(r, w)' /\ <<r, w>> \notin aged' =>
             /\ credited'[w] + sol'[w] - Seen(r, w)' <= inflow'[w]
             /\ known'[w] # Null => credited'[w] + Seen(r, w)' - known'[w] <= inflow'[w]
      BY <1>1, <2>3, <3>1, <3>2 DEF CreditInv
    <3> QED
      BY <3>3, <3>4, <3>5 DEF CreditInv
  <2> QED
    BY <1>1, <1>2, <2>4, <2>5, <2>6 DEF RefreshGood, RefreshInv
<1>5. CASE RecordWithdrawal(x) /\ x.known = Null
  <2>1. UNCHANGED <<known, aged, stale>> /\ owed' = owed \ {x}
    BY <1>5 DEF RecordWithdrawal
  <2>2. LedgerTypeOK'
    BY <1>0, <1>1, <2>1 DEF LedgerTypeOK
  <2> QED
    BY <1>1, <1>2, <2>1, <2>2, QuietRefresh
<1>6. CASE RecordWithdrawal(x) /\ x.known # Null
  <2>1. x.known \in Int /\ x.read /\ owed' = owed \ {x}
    BY <1>0, <1>6 DEF RecordWithdrawal, Balance
  <2>2. PICK n \in Int : n = x.known - x.amount
    BY <1>0, <2>1
  <2>3. SetKnown("admin", w, n)
    BY <1>3, <1>6, <2>2 DEF RecordWithdrawal
  <2>4. /\ known' \in [Wallet -> Balance] /\ known'[w] = n /\ n # Null
        /\ \A v \in Wallet \ {w} : known'[v] = known[v]
        /\ aged' \subseteq Holder /\ aged \subseteq aged'
        /\ \A g \in Refresher \cup {"admin"} : <<g, w>> \in aged'
        /\ stale' \in SUBSET Wallet /\ stale \subseteq stale'
        /\ (w \notin stale' => <<"admin", w>> \notin aged)
    BY <2>3, Written
  <2>5. LedgerTypeOK'
    BY <1>0, <1>1, <2>1, <2>4 DEF LedgerTypeOK
  <2>6. ASSUME w \notin stale' PROVE CreditInv(w)'
    <3>1. CreditInv(w) /\ <<"admin", w>> \notin aged
      BY <1>0, <2>4, <2>6
    <3>2. x.known = known[w] /\ credited[w] + sol[w] + x.amount - known[w] <= inflow[w]
      BY <1>3, <1>6, <2>1, <3>1 DEF CreditInv
    <3>3. credited[w] \in Nat /\ inflow[w] \in Nat /\ sol[w] \in Nat
      BY <1>0, LedgerTypes
    <3>4. credited'[w] + sol'[w] - known'[w] <= inflow'[w]
      BY <1>0, <1>1, <2>1, <2>2, <2>4, <3>2, <3>3
    <3>5. credited'[w] <= inflow'[w]
      BY <1>1, <3>1 DEF CreditInv
    <3> QED
      BY <2>4, <3>4, <3>5, CreditWritten
  <2>7. ASSUME NEW v \in Wallet \ stale', v # w PROVE CreditInv(v)'
    <3>1. CreditInv(v) /\ known'[v] = known[v]
          /\ (\A h \in Refresher \cup {"admin"} : <<h, v>> \in aged => <<h, v>> \in aged')
          /\ \A z \in owed' : z.wallet = v => z \in owed
      BY <1>0, <2>1, <2>4, <2>7
    <3> QED
      BY <1>0, <1>1, <1>2, <3>1, CreditKept
  <2> QED
    BY <1>1, <1>2, <2>5, <2>6, <2>7 DEF RefreshGood, RefreshInv
<1> QED
  BY <1>4, <1>5, <1>6

\* SOL arrives.
LEMMA RefreshDeposit ==
  ASSUME RefreshGood, NEW w \in Wallet, NEW n \in Nat, Deposit(w, n)
  PROVE  RefreshGood'
<1>0. /\ LedgerTypeOK /\ Solid /\ inflow \in [Wallet -> Nat] /\ sol \in [Wallet -> Nat]
      /\ owed \subseteq OutType /\ \A v \in Wallet \ stale : CreditInv(v)
  BY DEF RefreshGood, RefreshInv, LedgerTypeOK, Solid
<1>1. /\ UNCHANGED <<row, known, credited, todo, fetched, bpc, bop, owed, aged, stale, txs>>
      /\ sol' = [sol EXCEPT ![w] = sol[w] + n] /\ inflow' = [inflow EXCEPT ![w] = inflow[w] + n]
  BY <1>0 DEF Deposit, monitorVars
<1>2. sol[w] + n \in Nat /\ inflow[w] + n \in Nat
  BY <1>0
<1>3. Solid' /\ LedgerTypeOK'
  BY <1>0, <1>1, <1>2 DEF Solid, LedgerTypeOK
<1>4. Places' /\ \A v \in Wallet : SameSamples(v)
  BY <1>1, SameRefreshers
<1>5. ASSUME NEW v \in Wallet \ stale' PROVE CreditInv(v)'
  <2>1. CreditInv(v)
    BY <1>0, <1>1, <1>5
  <2>2. CASE v # w
    <3>1. sol'[v] = sol[v] /\ inflow'[v] = inflow[v] /\ sol[v] \in Nat
      BY <1>0, <1>1, <2>2
    <3> QED
      BY <1>0, <1>1, <1>3, <1>4, <2>1, <3>1, CreditKept
  <2>3. CASE v = w
    <3>1. sol'[w] = sol[w] + n /\ inflow'[w] = inflow[w] + n
      BY <1>0, <1>1
    <3>2. sol[w] \in Nat /\ credited[w] \in Nat /\ inflow[w] \in Nat
          /\ (known[w] # Null => known[w] \in Int) /\ \A r \in Refresher : Seen(r, w) \in Nat
      BY <1>0, LedgerTypes
    <3>3. credited[w] <= inflow'[w] /\ (known[w] # Null => credited[w] + sol'[w] - known[w] <= inflow'[w])
      BY <2>1, <2>3, <3>1, <3>2 DEF CreditInv
    <3>4. ASSUME NEW r \in Refresher, Holds(r, w)', <<r, w>> \notin aged'
          PROVE  /\ credited[w] + sol'[w] - Seen(r, w)' <= inflow'[w]
                 /\ known[w] # Null => credited[w] + Seen(r, w)' - known[w] <= inflow'[w]
      <4>1. Holds(r, w) /\ Seen(r, w)' = Seen(r, w) /\ <<r, w>> \notin aged
        BY <1>1, <1>4, <3>4 DEF SameSamples
      <4>2. /\ credited[w] + sol[w] - Seen(r, w) <= inflow[w]
            /\ known[w] # Null => credited[w] + Seen(r, w) - known[w] <= inflow[w]
        BY <2>1, <2>3, <4>1 DEF CreditInv
      <4>3. Seen(r, w) \in Nat
        BY <3>2
      <4> QED
        BY <3>1, <3>2, <4>1, <4>2, <4>3
    <3>5. ASSUME NEW x \in owed', x.wallet = w, <<"admin", w>> \notin aged'
          PROVE  /\ x.read => x.known = known[w]
                 /\ known[w] # Null => credited[w] + sol'[w] + x.amount - known[w] <= inflow'[w]
      <4>1. x \in owed /\ x.amount \in Nat /\ <<"admin", w>> \notin aged
        BY <1>0, <1>1, <3>5 DEF OutType
      <4>2. /\ x.read => x.known = known[w]
            /\ known[w] # Null => credited[w] + sol[w] + x.amount - known[w] <= inflow[w]
        BY <2>1, <2>3, <3>5, <4>1 DEF CreditInv
      <4> QED
        BY <3>1, <3>2, <4>1, <4>2
    <3> QED
      BY <1>1, <2>3, <3>3, <3>4, <3>5 DEF CreditInv
  <2> QED
    BY <2>2, <2>3
<1> QED
  BY <1>3, <1>4, <1>5 DEF RefreshGood, RefreshInv

\* The network takes a transfer's amount.
LEMMA RefreshChain ==
  ASSUME RefreshGood, ChainTypeOK, NEW i \in DOMAIN txs, Land(i) \/ Die(i), UNCHANGED ledgerVars
  PROVE  RefreshGood'
<1>1. UNCHANGED <<row, known, credited, todo, fetched, bpc, bop, owed, inflow, aged, stale>>
  BY DEF ledgerVars, monitorVars, observers
<1>2. Solid' /\ \A w \in Wallet : sol'[w] <= sol[w]
  <2>1. CASE sol' = sol
    BY <2>1 DEF ChainTypeOK, Solid
  <2>2. CASE sol' # sol
    <3>1. /\ txs[i].from \in Wallet /\ sol' \in [Wallet -> Nat]
          /\ sol' = [sol EXCEPT ![txs[i].from] = sol[txs[i].from] - (txs[i].amount + TxFee)]
      BY <2>2, ChainKeeps
    <3>2. PICK v \in Wallet : v = txs[i].from
      BY <3>1
    <3>3. PICK n \in Nat : n = txs[i].amount + TxFee
      BY TransferType, FeeAssumption
    <3>4. sol' = [sol EXCEPT ![v] = sol[v] - n] /\ sol \in [Wallet -> Nat]
      BY <3>1, <3>2, <3>3 DEF ChainTypeOK
    <3> QED
      BY <3>1, <3>4 DEF Solid
  <2> QED
    BY <2>1, <2>2
<1>3. LedgerTypeOK'
  BY <1>1 DEF RefreshGood, LedgerTypeOK
<1> QED
  BY <1>1, <1>2, <1>3, SameRefreshers, QuietRefresh

\* A restart ends every refresh.
LEMMA RefreshRestart ==
  ASSUME RefreshGood, Restart
  PROVE  RefreshGood'
<1>1. UNCHANGED <<row, known, credited, fetched, bop, owed, inflow, aged, stale, sol>> /\ todo' = {}
      /\ bpc' = [r \in Refresher |-> IF r = "monitor" \/ bpc[r] = "idle" THEN "idle" ELSE "done"]
  BY DEF Restart, observers
<1>2. \A r \in Refresher : bpc'[r] \in {"idle", "done"}
  BY <1>1
<1>3. LedgerTypeOK' /\ Solid' /\ \A w \in Wallet : sol'[w] <= sol[w]
  BY <1>1 DEF RefreshGood, LedgerTypeOK, Solid
<1>4. Places' /\ \A w \in Wallet : SameSamples(w)
  BY <1>1, <1>2 DEF Places, SameSamples, Holds, Refresher
<1> QED
  BY <1>1, <1>3, <1>4, QuietRefresh

-----------------------------------------------------------------------------
\* --- The reserve ------------------------------------------------------------------

LEMMA Tagged ==
  ASSUME NEW S, IsFiniteSet(S), NEW t
  PROVE  IsFiniteSet({<<t, x>> : x \in S})
<1> DEFINE T == {<<t, x>> : x \in S}
           f == [y \in T |-> y[2]]
<1>1. f \in Injection(T, S)
  BY DEF Injection, IsInjective
<1> QED
  BY <1>1, FS_Injection

AtBlock(w) == {h \in Handler : pc[h] = "blockhash" /\ owner[Mine(h)] = w}
Funded(w)  == {q \in Request : ppc[q] = "blockhash" /\ pop[q].wallet = w}

\* Who counts as a spender.
LEMMA SpendersAre ==
  ASSUME NEW w \in Wallet
  PROVE  \A x : x \in Spenders(w) <=>
           \/ \E i \in Busy(w) : x = <<"tx", i>>
           \/ \E h \in AtBlock(w) : x = <<"h", h>>
           \/ \E q \in Funded(w) : x = <<"q", q>>
BY DEF Spenders, Busy, AtBlock, Funded

\* Two elements are more than one.
LEMMA Pair ==
  ASSUME NEW S, IsFiniteSet(S), NEW x \in S, NEW y \in S, x # y
  PROVE  Cardinality(S) > 1
<1>1. IsFiniteSet({x}) /\ Cardinality({x}) = 1
  BY FS_Singleton
<1>2. Cardinality({x} \cup {y}) = 2
  <2>1. PICK T : T = {x}
    OBVIOUS
  <2>2. Cardinality(T \cup {y}) = IF y \in T THEN Cardinality(T) ELSE Cardinality(T) + 1
    BY <1>1, <2>1, FS_AddElement
  <2> QED
    BY <1>1, <2>1, <2>2
<1>3. Cardinality({x} \cup {y}) <= Cardinality(S)
  BY FS_Subset
<1>4. PICK n \in Nat : n = Cardinality(S)
  BY FS_CardinalityType
<1> QED
  BY <1>2, <1>3, <1>4

\* A wallet that is not crowded has one spender at most.
LEMMA Alone ==
  ASSUME TypeOK, NEW w \in Wallet, ~Crowded(w), FewStarted
  PROVE  \A x, y \in Spenders(w) : x = y
<1>1. IsFiniteSet(DOMAIN txs)
  <2>1. DOMAIN txs = 1..Len(txs) /\ Len(txs) \in Nat
    BY DEF TypeOK
  <2> QED
    BY <2>1, FS_Interval
<1>2. IsFiniteSet(Busy(w)) /\ IsFiniteSet(AtBlock(w)) /\ IsFiniteSet(Funded(w))
  <2>1. Busy(w) \in SUBSET DOMAIN txs
    BY DEF Busy
  <2>2. AtBlock(w) \in SUBSET {h \in Handler : pc[h] # "idle"}
    BY DEF AtBlock
  <2>3. Funded(w) \in SUBSET {q \in Request : ppc[q] # "idle"}
    BY DEF Funded
  <2>4. IsFiniteSet(Busy(w))
    BY <1>1, <2>1, FS_Subset
  <2>5. IsFiniteSet(AtBlock(w))
    BY <2>2, FS_Subset DEF FewStarted
  <2>6. IsFiniteSet(Funded(w))
    BY <2>3, FS_Subset DEF FewStarted
  <2> QED
    BY <2>4, <2>5, <2>6
<1> DEFINE A == {<<"tx", i>> : i \in Busy(w)}
           B == {<<"h", h>> : h \in AtBlock(w)}
           C == {<<"q", q>> : q \in Funded(w)}
<1>3. IsFiniteSet(A) /\ IsFiniteSet(B) /\ IsFiniteSet(C)
  BY <1>2, Tagged
<1>4. Spenders(w) = A \cup B \cup C
  BY DEF Spenders, Busy, AtBlock, Funded
<1> HIDE DEF A, B, C
<1>5. IsFiniteSet(Spenders(w))
  BY <1>3, <1>4, FS_Union
<1> SUFFICES ASSUME NEW x \in Spenders(w), NEW y \in Spenders(w), x # y PROVE FALSE
  OBVIOUS
<1> QED
  BY <1>5, Pair DEF Crowded

\* A spender less, or SOL more, takes nothing from the reserve.
LEMMA ReserveKept ==
  ASSUME NEW w \in Wallet, ReserveInv(w), ChainTypeOK, ChainTypeOK', PayoutTypeOK,
         sol'[w] >= sol[w], Busy(w)' \subseteq Busy(w),
         \A i \in DOMAIN txs : i \in DOMAIN txs' /\ Kept(i),
         \A h \in Handler : pc'[h] = "blockhash" =>
           pc[h] = "blockhash" /\ op'[h] = op[h] /\ owner' = owner,
         \A q \in Request : ppc'[q] = "blockhash" => ppc[q] = "blockhash" /\ pop'[q] = pop[q]
  PROVE  ReserveInv(w)'
<1>1. sol[w] \in Nat /\ sol'[w] \in Nat /\ TxFee \in Nat /\ Reserve \in Nat /\ Price \in Nat
  BY FeeAssumption, PlanAssumption DEF ChainTypeOK
<1>2. sol'[w] >= Reserve
  BY <1>1 DEF ReserveInv
<1>3. AtBlock(w)' \subseteq AtBlock(w) /\ Funded(w)' \subseteq Funded(w)
  BY DEF AtBlock, Funded, Mine
<1>4. (\A x, y \in Spenders(w) : x = y)'
  <2>1. \A x : x \in Spenders(w)' =>
           \/ \E i \in Busy(w)' : x = <<"tx", i>>
           \/ \E h \in AtBlock(w)' : x = <<"h", h>>
           \/ \E q \in Funded(w)' : x = <<"q", q>>
    BY DEF Spenders, Busy, AtBlock, Funded
  <2>2. \A x : x \in Spenders(w)' => x \in Spenders(w)
    BY <1>3, <2>1, SpendersAre
  <2> QED
    BY <2>2 DEF ReserveInv
<1>5. ASSUME NEW i \in Busy(w)' PROVE sol'[w] >= txs'[i].amount + TxFee + Reserve
  <2>1. i \in Busy(w) /\ i \in DOMAIN txs
    BY <1>5 DEF Busy
  <2>2. sol[w] >= txs[i].amount + TxFee + Reserve /\ txs[i].amount \in Nat /\ txs'[i].amount = txs[i].amount
    BY <2>1, TransferType DEF ReserveInv, Kept
  <2> QED
    BY <1>1, <2>2
<1>6. ASSUME NEW h \in Handler, pc'[h] = "blockhash", owner'[Mine(h)'] = w
      PROVE  sol'[w] >= op'[h].total + TxFee + Reserve
  <2>1. pc[h] = "blockhash" /\ op'[h] = op[h] /\ owner[Mine(h)] = w /\ op[h].total \in Nat
    BY <1>6 DEF Mine, PayoutTypeOK, OpType
  <2>2. sol[w] >= op[h].total + TxFee + Reserve
    BY <2>1 DEF ReserveInv
  <2> QED
    BY <1>1, <2>1, <2>2
<1>7. ASSUME NEW q \in Request, ppc'[q] = "blockhash", pop'[q].wallet = w
      PROVE  sol'[w] >= Price + TxFee + Reserve
  <2>1. sol[w] >= Price + TxFee + Reserve
    BY <1>7 DEF ReserveInv
  <2> QED
    BY <1>1, <2>1
<1> QED
  BY <1>2, <1>4, <1>5, <1>6, <1>7 DEF ReserveInv

AllAlone == \A w \in Wallet : ~Crowded(w) => \A x, y \in Spenders(w) : x = y

LEMMA AloneAll == TypeOK /\ FewStarted => AllAlone
BY Alone DEF AllAlone

\* Handlers at "blockhash" hold a check of the balance there is.
LEMMA PaySpend ==
  ASSUME TypeOK, TypeOK', PayInv, SpendInv, NEW h \in Handler, PayStep(h), UNCHANGED <<planVars, load>>, Crowd
  PROVE  SpendInv'
<1>0. /\ PayoutTypeOK /\ ChainTypeOK /\ ChainTypeOK' /\ FewStarted /\ UNCHANGED <<ppc, pop>>
      /\ (load.sol >= Reserve => \A w \in Wallet \ crowd : ReserveInv(w))
  BY DEF TypeOK, ChainTypeOK, SpendInv, planVars
<1>1. PayMoves(h) /\ PayKeeps(h) /\ (Quiet(h) \/ Marks(h) \/ Sends(h)) /\ (pc[h] # "idle" => Mine(h) \in Position)
  BY <1>0, PayTable, PayGlobal DEF PayoutTypeOK, Mine
<1>2. FewStarted'
  <2>1. IsFiniteSet({g \in Handler : pc[g] # "idle"} \cup {h})
    BY <1>0, FS_AddElement DEF FewStarted
  <2>2. {g \in Handler : pc'[g] # "idle"} \in SUBSET ({g \in Handler : pc[g] # "idle"} \cup {h})
    BY <1>1 DEF PayMoves
  <2>3. IsFiniteSet({g \in Handler : pc'[g] # "idle"})
    BY <2>1, <2>2, FS_Subset
  <2> QED
    BY <1>0, <2>3 DEF FewStarted
<1>3. AllAlone'
  <2>1. (TypeOK /\ FewStarted => AllAlone)'
    BY AloneAll, PTL
  <2> QED
    BY <1>2, <2>1
<1>4. ASSUME load.sol >= Reserve, NEW w \in Wallet \ crowd' PROVE ReserveInv(w)'
  <2>1. ReserveInv(w) /\ ~Crowded(w)'
    BY <1>0, <1>4 DEF Crowd
  <2>2. (\A x, y \in Spenders(w) : x = y)'
    BY <1>3, <2>1 DEF AllAlone
  <2>3. sol'[w] = sol[w] /\ sol[w] \in Nat /\ sol[w] >= Reserve /\ owner' = owner
    BY <1>0, <1>1, <2>1 DEF PayMoves, ReserveInv, ChainTypeOK
  <2>4. ASSUME NEW i \in Busy(w)' PROVE sol[w] >= txs'[i].amount + TxFee + Reserve
    <3>1. CASE i \in DOMAIN txs
      <4>1. Kept(i)
        BY <1>1, <3>1 DEF PayKeeps
      <4>2. txs[i].state \in {"signed", "pending"}
        <5>1. CASE txs'[i] = txs[i]
          BY <2>4, <5>1 DEF Busy
        <5>2. CASE txs'[i] # txs[i]
          <6>1. pc[h] = "send" /\ \E s \in {"pending", "dead"} : txs' = [txs EXCEPT ![op[h].tx].state = s]
            <7>1. Sends(h)
              BY <1>1, <5>2 DEF Quiet, Marks
            <7>2. pc[h] # "blockhash"
              <8> SUFFICES ASSUME pc[h] = "blockhash" PROVE FALSE
                OBVIOUS
              <8>1. PICK v \in Wallet : v = owner[Mine(h)]
                BY <1>0, <1>1 DEF PayoutTypeOK
              <8>2. PICK n \in Nat : n = op[h].total
                BY <1>0 DEF PayoutTypeOK, OpType
              <8>3. PICK why \in {"payout", "plan"} \X Nat : why = <<"payout", Mine(h)>>
                BY <1>1, PoolAssumption
              <8>4. Sign(v, n, why)
                BY <7>1, <8>1, <8>2, <8>3 DEF Sends
              <8>5. txs'[i] = txs[i]
                BY <1>0, <3>1, <8>4, SignFields
              <8> QED
                BY <5>2, <8>5
            <7> QED
              BY <7>1, <7>2 DEF Sends
          <6>2. op[h].tx \in DOMAIN txs /\ txs[op[h].tx].state = "signed"
            BY <1>0, <6>1, Held
          <6>3. i = op[h].tx
            BY <1>0, <3>1, <5>2, <6>1, <6>2, StateFields
          <6> QED
            BY <6>2, <6>3
        <5> QED
          BY <5>1, <5>2
      <4>3. i \in Busy(w)
        BY <2>4, <3>1, <4>1, <4>2 DEF Busy, Kept
      <4> QED
        BY <2>1, <4>1, <4>3 DEF ReserveInv, Kept
    <3>2. CASE i \notin DOMAIN txs
      <4>1. pc[h] = "blockhash" /\ txs'[i].from = owner[Mine(h)] /\ txs'[i].amount = op[h].total
        BY <1>0, <2>4, <3>2, PayLeavesPlans DEF Busy
      <4>2. owner[Mine(h)] = w
        BY <2>4, <4>1 DEF Busy
      <4> QED
        BY <2>1, <4>1, <4>2 DEF ReserveInv
    <3> QED
      BY <3>1, <3>2
  <2>5. ASSUME NEW g \in Handler, pc'[g] = "blockhash", owner[Mine(g)'] = w
        PROVE  sol[w] >= op'[g].total + TxFee + Reserve
    <3>1. CASE g # h
      <4>1. pc[g] = "blockhash" /\ op'[g] = op[g] /\ owner[Mine(g)] = w
        BY <1>1, <2>5, <3>1 DEF PayMoves, Mine
      <4> QED
        BY <2>1, <4>1 DEF ReserveInv
    <3>2. CASE g = h
      <4>1. op' = op /\ Affords(sol[owner[Mine(h)]], op[h].total)
        BY <1>1, <2>5, <3>2 DEF Quiet, Marks, Sends
      <4> QED
        BY <2>5, <3>2, <4>1 DEF Affords, Mine
    <3> QED
      BY <3>1, <3>2
  <2>6. ASSUME NEW q \in Request, ppc'[q] = "blockhash", pop'[q].wallet = w
        PROVE  sol[w] >= Price + TxFee + Reserve
    BY <1>0, <2>1, <2>6 DEF ReserveInv
  <2> QED
    BY <2>2, <2>3, <2>4, <2>5, <2>6 DEF ReserveInv
<1> QED
  BY <1>2, <1>4 DEF SpendInv

\* So do requests.
LEMMA PlanSpend ==
  ASSUME TypeOK, TypeOK', PurchaseInv, SpendInv, NEW q \in Request, PlanStep(q),
         UNCHANGED <<payoutVars, load>>, Crowd
  PROVE  SpendInv'
<1>0. /\ PlanTypeOK /\ ChainTypeOK /\ ChainTypeOK' /\ FewStarted /\ UNCHANGED <<owner, pc, op>>
      /\ (load.sol >= Reserve => \A w \in Wallet \ crowd : ReserveInv(w))
  BY DEF TypeOK, ChainTypeOK, SpendInv, payoutVars
<1>1. PlanMoves(q) /\ PlanKeeps(q) /\ (Buys(q) \/ Pays(q) \/ Recorded(q)) /\ RequestTells(q)
  BY <1>0, PlanTable, PlanGlobal DEF PurchaseInv
<1>2. FewStarted'
  <2>1. IsFiniteSet({g \in Request : ppc[g] # "idle"} \cup {q})
    BY <1>0, FS_AddElement DEF FewStarted
  <2>2. {g \in Request : ppc'[g] # "idle"} \in SUBSET ({g \in Request : ppc[g] # "idle"} \cup {q})
    BY <1>1 DEF PlanMoves
  <2>3. IsFiniteSet({g \in Request : ppc'[g] # "idle"})
    BY <2>1, <2>2, FS_Subset
  <2> QED
    BY <1>0, <2>3 DEF FewStarted
<1>3. AllAlone'
  <2>1. (TypeOK /\ FewStarted => AllAlone)'
    BY AloneAll, PTL
  <2> QED
    BY <1>2, <2>1
<1>4. ASSUME load.sol >= Reserve, NEW w \in Wallet \ crowd' PROVE ReserveInv(w)'
  <2>1. ReserveInv(w) /\ ~Crowded(w)'
    BY <1>0, <1>4 DEF Crowd
  <2>2. (\A x, y \in Spenders(w) : x = y)'
    BY <1>3, <2>1 DEF AllAlone
  <2>3. sol'[w] = sol[w] /\ sol[w] \in Nat /\ sol[w] >= Reserve
    BY <1>0, <1>1, <2>1 DEF PlanMoves, ReserveInv, ChainTypeOK
  <2>4. ASSUME NEW i \in Busy(w)' PROVE sol[w] >= txs'[i].amount + TxFee + Reserve
    <3>1. CASE i \in DOMAIN txs
      <4>1. Kept(i) /\ (txs'[i] = txs[i] \/ (ppc[q] = "send" /\ i = pop[q].tx))
        BY <1>1, <3>1 DEF PlanKeeps
      <4>2. txs[i].state \in {"signed", "pending"}
        BY <1>1, <2>4, <4>1 DEF RequestTells, Busy
      <4>3. i \in Busy(w)
        BY <2>4, <3>1, <4>1, <4>2 DEF Busy, Kept
      <4> QED
        BY <2>1, <4>1, <4>3 DEF ReserveInv, Kept
    <3>2. CASE i \notin DOMAIN txs
      <4>1. ppc[q] = "blockhash" /\ txs'[i].from = pop[q].wallet /\ txs'[i].amount = Price
        BY <1>1, <2>4, <3>2 DEF Busy, PlanKeeps
      <4>2. pop[q].wallet = w
        BY <2>4, <4>1 DEF Busy
      <4> QED
        BY <2>1, <4>1, <4>2 DEF ReserveInv
    <3> QED
      BY <3>1, <3>2
  <2>5. ASSUME NEW g \in Handler, pc'[g] = "blockhash", owner'[Mine(g)'] = w
        PROVE  sol[w] >= op'[g].total + TxFee + Reserve
    BY <1>0, <2>1, <2>5 DEF ReserveInv, Mine
  <2>6. ASSUME NEW g \in Request, ppc'[g] = "blockhash", pop'[g].wallet = w
        PROVE  sol[w] >= Price + TxFee + Reserve
    <3>1. CASE g # q
      BY <1>1, <2>1, <2>6, <3>1 DEF PlanMoves, ReserveInv
    <3>2. CASE g = q
      <4>1. pop' = pop /\ Affords(sol[pop[q].wallet], Price)
        BY <1>1, <2>6, <3>2 DEF Buys, Pays, Recorded
      <4> QED
        BY <2>6, <3>2, <4>1 DEF Affords
    <3> QED
      BY <3>1, <3>2
  <2> QED
    BY <2>2, <2>3, <2>4, <2>5, <2>6 DEF ReserveInv
<1> QED
  BY <1>2, <1>4 DEF SpendInv

\* A landed transfer was its wallet's one spender.
LEMMA ChainSpend ==
  ASSUME TypeOK, TypeOK', SpendInv, NEW i \in DOMAIN txs, Land(i) \/ Die(i),
         UNCHANGED <<payoutVars, planVars, load, crowd>>
  PROVE  SpendInv'
<1>0. /\ PayoutTypeOK /\ ChainTypeOK /\ ChainTypeOK' /\ FewStarted /\ UNCHANGED <<owner, pc, op, ppc, pop>>
      /\ (load.sol >= Reserve => \A w \in Wallet \ crowd : ReserveInv(w))
  BY DEF TypeOK, ChainTypeOK, SpendInv, payoutVars, planVars
<1>1. FewStarted'
  BY <1>0 DEF FewStarted
<1>2. /\ DOMAIN txs' = DOMAIN txs /\ (\A j \in DOMAIN txs : Kept(j) /\ (j # i => txs'[j] = txs[j]))
      /\ txs[i].state = "pending" /\ txs'[i].state \in {"landed", "dead"}
      /\ (sol' = sol \/ (txs'[i].state = "landed" /\ txs[i].from \in Wallet
              /\ sol' = [sol EXCEPT ![txs[i].from] = sol[txs[i].from] - (txs[i].amount + TxFee)]
              /\ sol[txs[i].from] >= txs[i].amount + TxFee))
  BY <1>0, ChainKeeps
<1>3. ASSUME load.sol >= Reserve, NEW w \in Wallet \ crowd PROVE ReserveInv(w)'
  <2>1. ReserveInv(w)
    BY <1>0, <1>3
  <2>2. Busy(w)' \subseteq Busy(w) \ {i}
    BY <1>2 DEF Busy, Kept
  <2>3. CASE sol'[w] = sol[w]
    <3>1. sol[w] \in Nat
      BY <1>0 DEF ChainTypeOK
    <3> QED
      BY <1>0, <1>2, <2>1, <2>2, <2>3, <3>1, ReserveKept
  <2>4. CASE sol'[w] # sol[w]
    <3>1. w = txs[i].from /\ sol'[w] = sol[w] - (txs[i].amount + TxFee)
      BY <1>0, <1>2, <2>4 DEF ChainTypeOK
    <3>2. i \in Busy(w)
      BY <1>2, <3>1 DEF Busy
    <3>3. sol[w] >= txs[i].amount + TxFee + Reserve /\ txs[i].amount \in Nat /\ sol[w] \in Nat
      BY <1>0, <2>1, <3>2, TransferType DEF ReserveInv, ChainTypeOK
    <3>4. sol'[w] >= Reserve
      BY <3>1, <3>3, FeeAssumption
    <3>5. \A x \in Spenders(w) : x = <<"tx", i>>
      <4>1. <<"tx", i>> \in Spenders(w)
        BY <3>2, SpendersAre
      <4> QED
        BY <2>1, <4>1 DEF ReserveInv
    <3>6. Busy(w)' = {} /\ AtBlock(w) = {} /\ Funded(w) = {}
      <4>1. ASSUME NEW j \in Busy(w)' PROVE FALSE
        <5>1. j \in Busy(w) /\ j # i
          BY <2>2
        <5>2. <<"tx", j>> \in Spenders(w)
          BY <5>1, SpendersAre
        <5> QED
          BY <3>5, <5>1, <5>2
      <4>2. ASSUME NEW h \in AtBlock(w) PROVE FALSE
        <5>1. <<"h", h>> \in Spenders(w)
          BY SpendersAre
        <5> QED
          BY <3>5, <5>1
      <4>3. ASSUME NEW q \in Funded(w) PROVE FALSE
        <5>1. <<"q", q>> \in Spenders(w)
          BY SpendersAre
        <5> QED
          BY <3>5, <5>1
      <4> QED
        BY <4>1, <4>2, <4>3
    <3>7. AtBlock(w)' = {} /\ Funded(w)' = {}
      BY <1>0, <3>6 DEF AtBlock, Funded, Mine
    <3>8. \A x : x \notin Spenders(w)'
      BY <3>6, <3>7 DEF Spenders, Busy, AtBlock, Funded
    <3> QED
      BY <3>4, <3>6, <3>7, <3>8 DEF ReserveInv, AtBlock, Funded
  <2> QED
    BY <2>3, <2>4
<1> QED
  BY <1>1, <1>3 DEF SpendInv

\* Nobody spends.
LEMMA StillSpend ==
  ASSUME TypeOK, TypeOK', SpendInv, UNCHANGED <<owner, pc, op, ppc, pop, txs>>,
         load'.sol = load.sol, crowd \subseteq crowd',
         \A w \in Wallet \ crowd' : sol'[w] >= sol[w]
  PROVE  SpendInv'
<1>0. /\ PayoutTypeOK /\ ChainTypeOK /\ ChainTypeOK' /\ FewStarted
      /\ (load.sol >= Reserve => \A w \in Wallet \ crowd : ReserveInv(w))
  BY DEF TypeOK, ChainTypeOK, SpendInv
<1>1. FewStarted'
  BY <1>0 DEF FewStarted
<1>2. ASSUME load.sol >= Reserve, NEW w \in Wallet \ crowd' PROVE ReserveInv(w)'
  <2>1. ReserveInv(w) /\ sol'[w] >= sol[w] /\ Busy(w)' = Busy(w)
    BY <1>0, <1>2 DEF Busy
  <2> QED
    BY <1>0, <2>1, ReserveKept DEF Kept
<1> QED
  BY <1>1, <1>2 DEF SpendInv

\* A restart drops what was not sent, and every balance check.
LEMMA RestartSpend ==
  ASSUME TypeOK, TypeOK', SpendInv, Restart
  PROVE  SpendInv'
<1>0. /\ PayoutTypeOK /\ ChainTypeOK /\ ChainTypeOK' /\ FewStarted /\ UNCHANGED <<owner, op, sol, load, crowd>>
      /\ (load.sol >= Reserve => \A w \in Wallet \ crowd : ReserveInv(w))
      /\ pc' = [h \in Handler |-> IF pc[h] = "idle" THEN "idle" ELSE "done"]
      /\ ppc' = [q \in Request |-> IF ppc[q] = "idle" THEN "idle" ELSE "ended"]
  BY DEF TypeOK, ChainTypeOK, SpendInv, Restart
<1>1. FewStarted'
  <2>1. {h \in Handler : pc'[h] # "idle"} = {h \in Handler : pc[h] # "idle"}
    BY <1>0
  <2>2. {q \in Request : ppc'[q] # "idle"} = {q \in Request : ppc[q] # "idle"}
    BY <1>0
  <2> QED
    BY <1>0, <2>1, <2>2 DEF FewStarted
<1>2. /\ DOMAIN txs' = DOMAIN txs
      /\ \A i \in DOMAIN txs :
           /\ Kept(i) /\ txs'[i].state = IF txs[i].state = "signed" THEN "dead" ELSE txs[i].state
  BY <1>0, RestartFields DEF Restart
<1>3. ASSUME load.sol >= Reserve, NEW w \in Wallet \ crowd PROVE ReserveInv(w)'
  <2>1. ReserveInv(w) /\ sol'[w] >= sol[w]
    BY <1>0, <1>3 DEF ChainTypeOK
  <2>2. Busy(w)' \subseteq Busy(w)
    BY <1>2 DEF Busy, Kept
  <2>3. (\A h \in Handler : pc'[h] # "blockhash") /\ (\A q \in Request : ppc'[q] # "blockhash")
    BY <1>0
  <2> QED
    BY <1>0, <1>2, <2>1, <2>2, <2>3, ReserveKept
<1> QED
  BY <1>0, <1>1, <1>3 DEF SpendInv

-----------------------------------------------------------------------------
\* --- The whole step ---------------------------------------------------------------

\* The ledger side is not involved.
LEMMA RefreshFrame ==
  ASSUME TypeOK, RefreshInv, UNCHANGED <<ledgerVars, sol>>
  PROVE  LedgerTypeOK' /\ Solid' /\ RefreshInv'
<1>1. RefreshGood
  BY DEF RefreshGood, TypeOK, Solid
<1>2. Places' /\ \A w \in Wallet : SameSamples(w)
  BY <1>1, SameRefreshers DEF ledgerVars, monitorVars
<1>3. LedgerTypeOK' /\ Solid'
  BY <1>1 DEF RefreshGood, LedgerTypeOK, Solid, ledgerVars, monitorVars, observers
<1>4. \A w \in Wallet : SameSamples(w) /\ sol'[w] <= sol[w]
  BY <1>1, <1>2 DEF RefreshGood, Solid
<1>5. UNCHANGED <<known, credited, inflow, aged, stale>> /\ owed' \subseteq owed
  BY DEF ledgerVars, observers
<1> QED
  BY <1>1, <1>2, <1>3, <1>4, <1>5, QuietRefresh DEF RefreshGood

\* The plan side is not involved, and no more transfers are known.
LEMMA PlanStays ==
  ASSUME PlanTypeOK, UNCHANGED planVars
  PROVE  PlanTypeOK'
BY DEF PlanTypeOK, planVars

\* Nor the handlers.
LEMMA PayStays ==
  ASSUME PayoutTypeOK, UNCHANGED payoutVars, Len(txs) \in Nat, Len(txs') \in Nat,
         Len(txs) <= Len(txs'), faults' \in 0..MaxFaults
  PROVE  PayoutTypeOK'
<1>1. \A p \in Position : attempt[p].tx \in Nat
  BY DEF PayoutTypeOK
<1>2. \A p \in Position : attempt'[p].tx <= Len(txs') + 1
  BY <1>1 DEF PayoutTypeOK, payoutVars
<1> QED
  BY <1>2 DEF PayoutTypeOK, payoutVars

\* A handler that runs, or meets an error, has its position.
LEMMA HasPosition ==
  ASSUME PayoutTypeOK
  PROVE  \A h \in Handler : pc[h] # "idle" => Mine(h) \in Position
BY DEF PayoutTypeOK, Mine

LEMMA StepPayout == MoneyInv /\ PayoutAction => MoneyInv'
<1> SUFFICES ASSUME MoneyInv, PayoutAction PROVE MoneyInv'
  OBVIOUS
<1>1. PICK h \in Handler : PayStep(h)
  BY DEF PayoutAction, PayoutNext, PayStep
<1>2. TypeOK /\ LoadType /\ PayInv /\ PurchaseInv /\ RefreshInv /\ SpendInv
      /\ PayoutTypeOK /\ PlanTypeOK /\ ChainTypeOK
  BY DEF MoneyInv, TypeOK, ChainTypeOK
<1>3. UNCHANGED <<planVars, ledgerVars, load>> /\ Crowd
  BY DEF PayoutAction
<1>4. PayMoves(h) /\ PayoutTypeOK' /\ txs' \in Seq(TxRecord)
  BY <1>1, <1>2, PayTable, PayGlobal
<1>5. sol' = sol /\ faults \in Nat /\ faults' \in {faults, faults + 1}
  BY <1>2, <1>4 DEF PayMoves, PayoutTypeOK
<1>6. PlanTypeOK'
  BY <1>2, <1>3, PlanStays
<1>7. LedgerTypeOK' /\ Solid' /\ RefreshInv'
  BY <1>2, <1>3, <1>5, RefreshFrame
<1>8. crowd' \in SUBSET Wallet
  BY <1>2, <1>3 DEF Crowd, TypeOK
<1>9. TypeOK'
  BY <1>4, <1>6, <1>7, <1>8 DEF TypeOK, Solid
<1>10. LoadType'
  BY <1>2, <1>3 DEF LoadType
<1>11. PayInv'
  BY <1>1, <1>2, PayHandler
<1>12. PurchaseInv'
  <2>1. Payments' = Payments /\ Settles(Payments)
    BY <1>1, <1>2, PayLeavesPlans
  <2>2. UNCHANGED <<user, subs, inFlight, ppc, pop>>
    BY <1>3 DEF planVars
  <2>3. faults' = 0 => faults = 0
    BY <1>5
  <2> QED
    BY <1>2, <2>1, <2>2, <2>3, PlanFrame
<1>13. SpendInv'
  BY <1>1, <1>2, <1>3, <1>9, PaySpend
<1> QED
  BY <1>7, <1>9, <1>10, <1>11, <1>12, <1>13 DEF MoneyInv

\* Requests, and what makes them fail.
LEMMA StepRequest ==
  ASSUME MoneyInv, NEW q \in Request, PlanStep(q), faults' \in {faults, faults + 1},
         faults' \in 0..MaxFaults, RequestStep(q) \/ ppc[q] = "idle" \/ faults' = faults + 1,
         UNCHANGED <<payoutVars, ledgerVars, load>>, Crowd
  PROVE  MoneyInv'
<1>1. TypeOK /\ LoadType /\ PayInv /\ PurchaseInv /\ RefreshInv /\ SpendInv
      /\ PayoutTypeOK /\ PlanTypeOK /\ ChainTypeOK
  BY DEF MoneyInv, TypeOK, ChainTypeOK
<1>2. faults \in Nat
  BY <1>1 DEF PayoutTypeOK
<1>3. PurchaseInv' /\ PlanTypeOK'
  BY <1>1, <1>2, PlanHandler
<1>4. sol' = sol
  BY <1>1, PlanTable DEF PlanMoves
<1>5. txs' \in Seq(TxRecord) /\ Len(txs) <= Len(txs')
  BY <1>1, PlanGlobal DEF PlanKeeps
<1>6. Len(txs) \in Nat /\ Len(txs') \in Nat
  BY <1>1, <1>5 DEF ChainTypeOK
<1>7. PayoutTypeOK'
  BY <1>1, <1>5, <1>6, PayStays
<1>8. LedgerTypeOK' /\ Solid' /\ RefreshInv'
  BY <1>1, <1>4, RefreshFrame
<1>9. crowd' \in SUBSET Wallet
  BY <1>1 DEF Crowd, TypeOK
<1>10. TypeOK'
  BY <1>3, <1>5, <1>7, <1>8, <1>9 DEF TypeOK, Solid
<1>11. LoadType'
  BY <1>1 DEF LoadType
<1>12. PayInv'
  <2>1. \A p \in Position : PayoutOf(p)' = PayoutOf(p) /\ Settles(PayoutOf(p))
    BY <1>1, PlansLeavePayouts
  <2> QED
    BY <1>1, <2>1, HasPosition, PayFrame
<1>13. SpendInv'
  BY <1>1, <1>10, PlanSpend
<1> QED
  BY <1>3, <1>8, <1>10, <1>11, <1>12, <1>13 DEF MoneyInv

\* Nothing signed, nothing sent, and nobody but the ledger side is involved.
LEMMA StepAside ==
  ASSUME MoneyInv, RefreshGood', UNCHANGED <<payoutVars, user, subs, inFlight, ppc, pop, txs>>,
         today' \in Nat, LoadType', load'.sol = load.sol, crowd \subseteq crowd', crowd' \in SUBSET Wallet,
         \A w \in Wallet \ crowd' : sol'[w] >= sol[w],
         faults' \in {faults, faults + 1}, faults' \in 0..MaxFaults
  PROVE  MoneyInv'
<1>1. TypeOK /\ PayInv /\ PurchaseInv /\ SpendInv /\ PayoutTypeOK /\ PlanTypeOK /\ ChainTypeOK
  BY DEF MoneyInv, TypeOK, ChainTypeOK
<1>2. Len(txs) \in Nat /\ txs' = txs /\ faults \in Nat
  BY <1>1 DEF ChainTypeOK, PayoutTypeOK
<1>3. PayoutTypeOK'
  BY <1>1, <1>2, PayStays
<1>4. PlanTypeOK'
  BY <1>1 DEF PlanTypeOK
<1>5. TypeOK'
  BY <1>1, <1>3, <1>4 DEF TypeOK, RefreshGood, Solid
<1>6. \A I : Settles(I)
  BY <1>2 DEF Settles
<1>7. PayInv'
  <2>1. \A p \in Position : PayoutOf(p)' = PayoutOf(p) /\ Settles(PayoutOf(p))
    BY <1>2, <1>6 DEF PayoutOf, For
  <2> QED
    BY <1>1, <2>1, HasPosition, PayFrame
<1>8. PurchaseInv'
  <2>1. Payments' = Payments /\ Settles(Payments)
    BY <1>2, <1>6 DEF Payments, For
  <2>2. faults' = 0 => faults = 0
    BY <1>2
  <2> QED
    BY <1>1, <2>1, <2>2, PlanFrame
<1>9. SpendInv'
  BY <1>1, <1>5, StillSpend DEF payoutVars
<1> QED
  BY <1>5, <1>7, <1>8, <1>9 DEF MoneyInv, RefreshGood

LEMMA StepPlan == MoneyInv /\ (PlanAction \/ PlanFault) => MoneyInv'
<1> SUFFICES ASSUME MoneyInv, PlanAction \/ PlanFault PROVE MoneyInv'
  OBVIOUS
<1>1. TypeOK /\ PayoutTypeOK /\ PlanTypeOK /\ RefreshInv /\ LoadType /\ faults \in 0..MaxFaults
  BY DEF MoneyInv, TypeOK, PayoutTypeOK
<1>2. CASE PlanFault
  <2>1. PICK q \in Request : RequestFails(q)
    BY <1>2 DEF PlanFault
  <2>2. PlanStep(q)
    BY <2>1 DEF PlanStep
  <2>3. faults' = faults + 1 /\ faults' \in 0..MaxFaults
    BY <1>1, <1>2 DEF PlanFault
  <2>4. UNCHANGED <<payoutVars, ledgerVars, load>> /\ Crowd
    BY <1>2 DEF PlanFault
  <2> QED
    BY <2>2, <2>3, <2>4, StepRequest
<1>3. CASE PlanAction /\ \E q \in Request : \/ \E plan \in Plan, w \in Wallet : RequestPlan(q, plan, w)
                                            \/ RequestStep(q)
  <2>1. PICK q \in Request : \/ \E plan \in Plan, w \in Wallet : RequestPlan(q, plan, w)
                             \/ RequestStep(q)
    BY <1>3
  <2>2. PlanStep(q) /\ (RequestStep(q) \/ ppc[q] = "idle")
    BY <2>1 DEF PlanStep, RequestPlan, Stage
  <2>3. faults' = faults /\ UNCHANGED <<payoutVars, ledgerVars, load>> /\ Crowd
    BY <1>3 DEF PlanAction
  <2> QED
    BY <1>1, <2>2, <2>3, StepRequest
<1>4. CASE PlanAction /\ Day
  <2>1. UNCHANGED <<payoutVars, user, subs, inFlight, ppc, pop, sol, txs, ledgerVars, load, faults>> /\ Crowd
    BY <1>4 DEF PlanAction, Day, chainVars
  <2>2. RefreshGood'
    BY <1>1, <2>1, RefreshFrame DEF RefreshGood
  <2>3. today' \in Nat
    BY <1>1, <1>4 DEF Day, PlanTypeOK
  <2>4. crowd \subseteq crowd' /\ crowd' \in SUBSET Wallet
    BY <1>1, <2>1 DEF Crowd, TypeOK
  <2>5. \A w \in Wallet \ crowd' : sol'[w] >= sol[w]
    BY <1>1, <2>1 DEF TypeOK
  <2>6. LoadType' /\ load'.sol = load.sol
    BY <1>1, <2>1 DEF LoadType
  <2>7. UNCHANGED <<payoutVars, user, subs, inFlight, ppc, pop, txs>> /\ faults' \in {faults, faults + 1}
        /\ faults' \in 0..MaxFaults
    BY <1>1, <2>1
  <2> QED
    BY <2>2, <2>3, <2>4, <2>5, <2>6, <2>7, StepAside
<1> QED
  BY <1>2, <1>3, <1>4 DEF PlanAction, PlanNext

\* A workload counted down.
LEMMA Counted ==
  ASSUME LoadType, NEW f \in {"moves", "deposits", "rows"}, load[f] > 0, load' = [load EXCEPT ![f] = @ - 1]
  PROVE  LoadType' /\ load'.sol = load.sol
<1>1. load \in [events : SUBSET Handler, requests : SUBSET Request, refreshes : SUBSET Refresh,
                polls : BOOLEAN, moves : Nat, deposits : Nat, rows : Nat, sol : Nat]
  BY DEF LoadType
<1>2. load[f] - 1 \in Nat
  <2>1. load[f] \in Nat
    BY <1>1
  <2> QED
    BY <2>1
<1>3. PICK n \in Nat : n = load[f] - 1 /\ load' = [load EXCEPT ![f] = n]
  BY <1>2
<1>4. load' \in [events : SUBSET Handler, requests : SUBSET Request, refreshes : SUBSET Refresh,
                polls : BOOLEAN, moves : Nat, deposits : Nat, rows : Nat, sol : Nat]
      /\ load'.sol = load.sol
  BY <1>1, <1>3
<1> QED
  BY <1>4 DEF LoadType

\* SOL on chain: only deposits, and withdrawals of crowded wallets.
LEMMA StepLedger == MoneyInv /\ (LedgerAction \/ LedgerFault \/ Withdraw) => MoneyInv'
<1> SUFFICES ASSUME MoneyInv, LedgerAction \/ LedgerFault \/ Withdraw PROVE MoneyInv'
  OBVIOUS
<1>1. /\ TypeOK /\ LoadType /\ faults \in 0..MaxFaults /\ today \in Nat /\ sol \in [Wallet -> Nat]
      /\ crowd \subseteq Wallet /\ RefreshGood
  BY DEF MoneyInv, TypeOK, PayoutTypeOK, PlanTypeOK, RefreshGood, Solid
<1>a. ASSUME RefreshGood', UNCHANGED <<payoutVars, planVars, crowd, sol, txs, load>>,
             faults' \in {faults, faults + 1}, faults' \in 0..MaxFaults
      PROVE  MoneyInv'
  <2>1. LoadType' /\ load'.sol = load.sol
    BY <1>1, <1>a DEF LoadType
  <2>2. \A w \in Wallet \ crowd' : sol'[w] >= sol[w]
    BY <1>1, <1>a
  <2>3. UNCHANGED <<payoutVars, user, subs, inFlight, ppc, pop, txs>> /\ today' \in Nat
        /\ crowd \subseteq crowd' /\ crowd' \in SUBSET Wallet
    BY <1>1, <1>a DEF planVars
  <2> QED
    BY <1>a, <2>1, <2>2, <2>3, StepAside
<1>b. ASSUME RefreshGood', UNCHANGED <<payoutVars, planVars, faults, txs>>, LoadType', load'.sol = load.sol,
             crowd \subseteq crowd', crowd' \subseteq Wallet, \A w \in Wallet \ crowd' : sol'[w] >= sol[w]
      PROVE  MoneyInv'
  <2>1. UNCHANGED <<payoutVars, user, subs, inFlight, ppc, pop, txs>> /\ today' \in Nat
        /\ faults' \in {faults, faults + 1} /\ faults' \in 0..MaxFaults /\ crowd' \in SUBSET Wallet
    BY <1>1, <1>b DEF planVars
  <2> QED
    BY <1>b, <2>1, StepAside
<1>2. CASE LedgerFault
  <2>1. RefreshGood' /\ UNCHANGED <<sol, txs>>
    BY <1>1, <1>2, RefreshRows DEF LedgerFault, BatchFails, RefreshFails, chainVars
  <2>2. faults' \in {faults, faults + 1} /\ faults' \in 0..MaxFaults
    BY <1>1, <1>2 DEF LedgerFault
  <2> QED
    BY <1>2, <1>a, <2>1, <2>2 DEF LedgerFault
<1>3. CASE Withdraw
  <2>1. PICK w \in Wallet : MoveOut(w, 1) /\ crowd' = crowd \cup {w}
    BY <1>3 DEF Withdraw
  <2>2. RefreshGood'
    BY <1>1, <2>1, RefreshMove
  <2>3. \A v \in Wallet \ crowd' : sol'[v] >= sol[v]
    BY <1>1, <2>1 DEF MoveOut
  <2>4. LoadType' /\ load'.sol = load.sol
    BY <1>1, <1>3, Counted DEF Withdraw
  <2>5. UNCHANGED <<payoutVars, planVars, faults, txs>> /\ crowd \subseteq crowd' /\ crowd' \subseteq Wallet
    BY <1>1, <1>3, <2>1 DEF Withdraw, MoveOut
  <2> QED
    BY <1>b, <2>2, <2>3, <2>4, <2>5
<1>4. CASE LedgerAction
  <2>0. UNCHANGED <<payoutVars, faults, planVars, crowd>>
    BY <1>4 DEF LedgerAction
  <2>a. ASSUME RefreshGood', UNCHANGED <<sol, txs, load>>
        PROVE  MoneyInv'
    BY <1>1, <1>a, <2>0, <2>a
  <2>1. CASE MonitorStep /\ UNCHANGED load
    <3>1. UNCHANGED <<sol, txs>>
      BY <2>1 DEF MonitorStep, Tick, Prefetch, TickEnds, WriteCache, WriteDeposit, MonitorRow, chainVars
    <3>2. "monitor" \in Refresher
      BY DEF Refresher
    <3>3. RefreshGood'
      BY <1>1, <2>1, <3>2, RefreshRows, RefreshReads, RefreshSamples, RefreshWrites DEF MonitorStep
    <3> QED
      BY <2>1, <2>a, <3>1, <3>3
  <2>2. CASE /\ \E r \in load.refreshes : (\E w \in Wallet : RefreshRow(r, w)) \/ RefreshStep(r)
             /\ UNCHANGED load
    <3>1. PICK r \in load.refreshes : (\E w \in Wallet : RefreshRow(r, w)) \/ RefreshStep(r)
      BY <2>2
    <3>2. r \in Refresh /\ r \in Refresher
      BY <1>1 DEF LoadType, Refresher
    <3>3. UNCHANGED <<sol, txs>>
      <4>1. CASE \E w \in Wallet : RefreshRow(r, w)
        BY <4>1 DEF RefreshRow, chainVars
      <4>2. CASE RefreshStep(r)
        BY <4>2 DEF RefreshStep, RefreshBalance, WriteCache, WriteDeposit, chainVars
      <4> QED
        BY <3>1, <4>1, <4>2
    <3>4. RefreshGood'
      BY <1>1, <3>1, <3>2, RefreshReads, RefreshSamples, RefreshWrites DEF RefreshStep
    <3> QED
      BY <2>2, <2>a, <3>3, <3>4
  <2>3. CASE /\ \E x \in owed : ReadWithdrawal(x) \/ RecordWithdrawal(x)
             /\ UNCHANGED load
    <3>1. PICK x \in owed : ReadWithdrawal(x) \/ RecordWithdrawal(x)
      BY <2>3
    <3>2. UNCHANGED <<sol, txs>>
      BY <3>1 DEF ReadWithdrawal, RecordWithdrawal, chainVars
    <3>3. RefreshGood'
      BY <1>1, <3>1, RefreshWithdrawals
    <3> QED
      BY <2>3, <2>a, <3>2, <3>3
  <2>4. CASE /\ load.rows > 0 /\ load' = [load EXCEPT !.rows = @ - 1]
             /\ \E w \in Wallet : AddWallet(w) \/ DeleteWallet(w) \/ RestoreWallet(w)
    <3>1. UNCHANGED <<sol, txs>>
      BY <2>4 DEF AddWallet, DeleteWallet, RestoreWallet, chainVars
    <3>2. RefreshGood'
      BY <1>1, <2>4, RefreshRows
    <3>3. LoadType' /\ load'.sol = load.sol
      BY <1>1, <2>4, Counted
    <3>4. \A v \in Wallet \ crowd' : sol'[v] >= sol[v]
      BY <1>1, <3>1
    <3>5. UNCHANGED <<payoutVars, planVars, faults, txs>> /\ crowd \subseteq crowd' /\ crowd' \subseteq Wallet
      BY <1>1, <2>0, <3>1
    <3> QED
      BY <1>b, <3>2, <3>3, <3>4, <3>5
  <2>5. CASE /\ load.deposits > 0 /\ load' = [load EXCEPT !.deposits = @ - 1]
             /\ \E w \in Wallet : Deposit(w, 1)
    <3>1. PICK w \in Wallet : Deposit(w, 1)
      BY <2>5
    <3>2. RefreshGood'
      BY <1>1, <3>1, RefreshDeposit
    <3>3. LoadType' /\ load'.sol = load.sol
      BY <1>1, <2>5, Counted
    <3>4. \A v \in Wallet \ crowd' : sol'[v] >= sol[v]
      BY <1>1, <3>1 DEF Deposit
    <3>5. UNCHANGED <<payoutVars, planVars, faults, txs>> /\ crowd \subseteq crowd' /\ crowd' \subseteq Wallet
      BY <1>1, <2>0, <3>1 DEF Deposit
    <3> QED
      BY <1>b, <3>2, <3>3, <3>4, <3>5
  <2> QED
    BY <1>4, <2>1, <2>2, <2>3, <2>4, <2>5 DEF LedgerAction
<1> QED
  BY <1>2, <1>3, <1>4

\* The network settles a transfer.
LEMMA StepChain == MoneyInv /\ ChainAction => MoneyInv'
<1> SUFFICES ASSUME MoneyInv, ChainAction PROVE MoneyInv'
  OBVIOUS
<1>1. PICK i \in DOMAIN txs : Land(i) \/ Die(i)
  BY DEF ChainAction
<1>2. /\ TypeOK /\ LoadType /\ PayInv /\ PurchaseInv /\ SpendInv /\ PayoutTypeOK /\ PlanTypeOK
      /\ ChainTypeOK /\ RefreshGood /\ faults \in 0..MaxFaults
  BY DEF MoneyInv, TypeOK, ChainTypeOK, PayoutTypeOK, RefreshGood, Solid
<1>3. UNCHANGED <<payoutVars, faults, planVars, ledgerVars, load, crowd>>
  BY DEF ChainAction
<1>4. /\ txs' \in Seq(TxRecord) /\ Len(txs') = Len(txs) /\ DOMAIN txs' = DOMAIN txs
      /\ Settles(DOMAIN txs) /\ sol' \in [Wallet -> Nat] /\ \A why : For(why)' = For(why)
  BY <1>1, <1>2, ChainKeeps
<1>5. RefreshGood'
  BY <1>1, <1>2, <1>3, RefreshChain
<1>6. PayoutTypeOK'
  <2>1. Len(txs) \in Nat /\ Len(txs') \in Nat /\ Len(txs) <= Len(txs')
    BY <1>2, <1>4 DEF ChainTypeOK
  <2> QED
    BY <1>2, <1>3, <2>1, PayStays
<1>7. PlanTypeOK'
  BY <1>2, <1>3, PlanStays
<1>8. TypeOK'
  BY <1>2, <1>3, <1>4, <1>5, <1>6, <1>7 DEF TypeOK, RefreshGood
<1>9. \A why : For(why)' = For(why) /\ Settles(For(why))
  BY <1>4 DEF Settles, For
<1>10. PayInv'
  <2>1. \A p \in Position : PayoutOf(p)' = PayoutOf(p) /\ Settles(PayoutOf(p))
    BY <1>9 DEF PayoutOf
  <2> QED
    BY <1>2, <1>3, <2>1, HasPosition, PayFrame
<1>11. PurchaseInv'
  <2>1. Payments' = Payments /\ Settles(Payments)
    BY <1>9 DEF Payments
  <2>2. UNCHANGED <<user, subs, inFlight, ppc, pop>> /\ (faults' = 0 => faults = 0)
    BY <1>3 DEF planVars
  <2> QED
    BY <1>2, <2>1, <2>2, PlanFrame
<1>12. SpendInv'
  BY <1>1, <1>2, <1>3, <1>8, ChainSpend
<1>13. LoadType'
  BY <1>2, <1>3 DEF LoadType
<1> QED
  BY <1>5, <1>8, <1>10, <1>11, <1>12, <1>13 DEF MoneyInv, RefreshGood

LEMMA StepRestart == MoneyInv /\ Restart => MoneyInv'
<1> SUFFICES ASSUME MoneyInv, Restart PROVE MoneyInv'
  OBVIOUS
<1>1. /\ TypeOK /\ LoadType /\ PayInv /\ PurchaseInv /\ SpendInv /\ PayoutTypeOK /\ PlanTypeOK
      /\ ChainTypeOK /\ RefreshGood /\ faults \in Nat
  BY DEF MoneyInv, TypeOK, ChainTypeOK, PayoutTypeOK, RefreshGood, Solid
<1>2. PayInv' /\ PayoutTypeOK'
  BY <1>1, PayRestart
<1>3. PurchaseInv' /\ PlanTypeOK'
  BY <1>1, PlanRestart
<1>4. RefreshGood'
  BY <1>1, RefreshRestart
<1>5. txs' \in Seq(TxRecord)
  BY <1>1, RestartFields DEF Restart
<1>6. TypeOK'
  BY <1>1, <1>2, <1>3, <1>4, <1>5 DEF TypeOK, RefreshGood, Solid, Restart
<1>7. SpendInv'
  BY <1>1, <1>6, RestartSpend
<1>8. LoadType'
  BY <1>1 DEF LoadType, Restart
<1> QED
  BY <1>2, <1>3, <1>4, <1>6, <1>7, <1>8 DEF MoneyInv, RefreshGood

\* Nothing happens to the money.
LEMMA StepNothing == MoneyInv /\ UNCHANGED vars => MoneyInv'
<1> SUFFICES ASSUME MoneyInv, UNCHANGED vars PROVE MoneyInv'
  OBVIOUS
<1>1. /\ TypeOK /\ LoadType /\ RefreshInv /\ faults \in 0..MaxFaults /\ today \in Nat
      /\ sol \in [Wallet -> Nat] /\ crowd \in SUBSET Wallet
  BY DEF MoneyInv, TypeOK, PayoutTypeOK, PlanTypeOK
<1>2. UNCHANGED <<payoutVars, user, subs, inFlight, ppc, pop, txs, ledgerVars, sol, load, crowd, faults, today>>
  BY DEF vars, planVars, chainVars
<1>3. RefreshGood'
  BY <1>1, <1>2, RefreshFrame DEF RefreshGood
<1>4. LoadType' /\ load'.sol = load.sol
  BY <1>1, <1>2 DEF LoadType
<1>5. \A w \in Wallet \ crowd' : sol'[w] >= sol[w]
  BY <1>1, <1>2
<1>6. /\ UNCHANGED <<payoutVars, user, subs, inFlight, ppc, pop, txs>> /\ today' \in Nat
      /\ crowd \subseteq crowd' /\ crowd' \in SUBSET Wallet
      /\ faults' \in {faults, faults + 1} /\ faults' \in 0..MaxFaults
  BY <1>1, <1>2
<1> QED
  BY <1>3, <1>4, <1>5, <1>6, StepAside

\* Every step preserves the invariant.
LEMMA MoneyStep == MoneyInv /\ [Next]_vars => MoneyInv'
BY StepPayout, StepPlan, StepLedger, StepChain, StepRestart, StepNothing DEF Next

\* It holds at the start: nothing has been asked for yet.
LEMMA MoneyInit == Init => MoneyInv
<1> SUFFICES ASSUME Init PROVE MoneyInv
  OBVIOUS
<1>1. LoadType
  BY WorkloadAssumption DEF Init, LoadType
<1>2. load.sol \in Nat /\ sol = [w \in Wallet |-> load.sol] /\ txs = << >> /\ crowd = {}
      /\ PayoutInit /\ PlanInit /\ LedgerInit
  BY <1>1 DEF Init, LoadType
<1>3. txs \in Seq(TxRecord) /\ Len(txs) = 0 /\ DOMAIN txs = {}
  BY <1>2
<1>4. PayoutTypeOK
  <2>1. NoHandler \in OpType
    BY DEF NoHandler, OpType
  <2>2. [status |-> "none", tx |-> 0] \in [status : Status, tx : Nat]
    BY DEF Status
  <2>3. attempt \in [Position -> [status : Status, tx : Nat]] /\ \A p \in Position : attempt[p].tx = 0
    BY <1>2, <2>2 DEF PayoutInit
  <2>4. op \in [Handler -> OpType] /\ pc \in [Handler -> PC] /\ \A h \in Handler : pc[h] = "idle"
    BY <1>2, <2>1 DEF PayoutInit, PC
  <2>5. /\ owner \in [Position -> Wallet] /\ paper \in SUBSET Position /\ faults \in 0..MaxFaults
        /\ ledger \in [Position -> {"none", "plain", "charged"}]
    BY <1>2 DEF PayoutInit
  <2> QED
    BY <1>3, <2>3, <2>4, <2>5 DEF PayoutTypeOK
<1>5. PlanTypeOK
  <2>1. NoRequest \in PopType
    BY DEF NoRequest, PopType, UserType
  <2> QED
    BY <1>2, <2>1 DEF PlanInit, PlanTypeOK, UserType
<1>6. LedgerTypeOK
  <2>1. NoRefresh \in BopType
    BY DEF NoRefresh, BopType, Balance
  <2> QED
    BY <1>2, <2>1 DEF LedgerInit, LedgerTypeOK, Balance
<1>7. TypeOK
  BY <1>2, <1>3, <1>4, <1>5, <1>6 DEF TypeOK
<1>8. \A why : For(why) = {}
  BY <1>3 DEF For
<1>9. PayInv
  <2>1. \A p \in Position : PayoutOf(p) = {} /\ attempt[p].status = "none" /\ ledger[p] = "none"
    BY <1>2, <1>8 DEF PayoutInit, PayoutOf
  <2>2. \A h \in Handler : pc[h] = "idle" /\ op[h] = NoHandler /\ ~op[h].paid
    BY <1>2 DEF PayoutInit, NoHandler
  <2>3. OnePayer /\ \A h \in Handler : RowOf(h) /\ HandlerTells(h)
    BY <2>2 DEF OnePayer, Paying, RowOf, HandlerTells
  <2>4. \A p \in Position : RowTells(p) /\ LedgerTells(p)
    BY <2>1 DEF RowTells, LedgerTells
  <2> QED
    BY <2>3, <2>4 DEF PayInv
<1>10. PurchaseInv
  <2>1. \A q \in Request : ppc[q] = "idle"
    BY <1>2 DEF PlanInit
  <2>2. OneBuyer /\ \A q \in Request : RequestTells(q)
    BY <2>1 DEF OneBuyer, RequestTells, Buying
  <2>3. Payments = {} /\ subs = {}
    BY <1>2, <1>8 DEF Payments, PlanInit
  <2> QED
    BY <2>2, <2>3 DEF PurchaseInv, SubsTell
<1>11. RefreshInv
  <2>1. \A r \in Refresher : bpc[r] = "idle"
    BY <1>2 DEF LedgerInit
  <2>2. Places
    BY <2>1 DEF Places, Refresher
  <2>3. ASSUME NEW w \in Wallet PROVE CreditInv(w)
    <3>1. known[w] = Null /\ credited[w] = 0 /\ inflow[w] = 0 /\ owed = {}
      BY <1>2 DEF LedgerInit
    <3>2. \A r \in Refresher : ~Holds(r, w)
      BY <2>1 DEF Holds
    <3> QED
      BY <3>1, <3>2 DEF CreditInv
  <2> QED
    BY <2>2, <2>3 DEF RefreshInv
<1>12. SpendInv
  <2>1. \A h \in Handler : pc[h] = "idle"
    BY <1>2 DEF PayoutInit
  <2>2. \A q \in Request : ppc[q] = "idle"
    BY <1>2 DEF PlanInit
  <2>3. FewStarted
    <3>1. {h \in Handler : pc[h] # "idle"} = {} /\ {q \in Request : ppc[q] # "idle"} = {}
      BY <2>1, <2>2
    <3> QED
      BY <3>1, FS_EmptySet DEF FewStarted
  <2>4. ASSUME load.sol >= Reserve, NEW w \in Wallet PROVE ReserveInv(w)
    <3>1. sol[w] = load.sol /\ Busy(w) = {} /\ Spenders(w) = {}
      BY <1>2, <1>3, <2>1, <2>2 DEF Busy, Spenders
    <3> QED
      BY <2>1, <2>2, <2>4, <3>1 DEF ReserveInv
  <2> QED
    BY <2>3, <2>4 DEF SpendInv
<1> QED
  BY <1>1, <1>7, <1>9, <1>10, <1>11, <1>12 DEF MoneyInv

\* Money.tla with payoutExecutor.ts, planPurchase.ts, balanceLedger.ts: the strengthening
\* holds in every behaviour, types included.
THEOREM MoneyKept == Spec => []MoneyInv
<1>1. Init => MoneyInv
  BY MoneyInit
<1>2. MoneyInv /\ [Next]_vars => MoneyInv'
  BY MoneyStep
<1> QED
  BY <1>1, <1>2, PTL DEF Spec

\* Of a position, none but the transfer its row names; so one at most.
LEMMA OneTransfer == MoneyInv => PaidOnce
<1> SUFFICES ASSUME MoneyInv, NEW p \in Position PROVE Cardinality(For(<<"payout", p>>)) <= 1
  BY Zenon DEF PaidOnce
<1> DEFINE S == For(<<"payout", p>>)
<1>1. PICK k : k = attempt[p].tx
  OBVIOUS
<1>2. S \subseteq {k}
  BY <1>1 DEF MoneyInv, PayInv, RowTells, PayoutOf
<1> HIDE DEF S
<1>3. S = {} \/ S = {k}
  BY <1>2
<1>4. Cardinality(S) = 0 \/ Cardinality(S) = 1
  BY <1>3, FS_EmptySet, FS_Singleton
<1>5. Cardinality(S) <= 1
  BY <1>4
<1> QED
  BY <1>5 DEF S

\* Two calls for one position are two handlers.
LEMMA TwiceCounts ==
  ASSUME MoneyInv, NEW p \in Position, Twice(p)
  PROVE  Cardinality({h \in Handler : Mine(h) = p}) > 1
<1> DEFINE S == {h \in Handler : Mine(h) = p}
<1>1. PICK h, g \in Handler : h # g /\ Mine(h) = p /\ Mine(g) = p
  BY DEF Twice
<1>2. \A f \in Handler : pc[f] = "idle" => Mine(f) = 0
  BY DEF MoneyInv, PayInv, HandlerTells, Mine, NoHandler
<1>3. S \in SUBSET {f \in Handler : pc[f] # "idle"}
  BY <1>2
<1>4. IsFiniteSet(S)
  BY <1>3, FS_Subset DEF MoneyInv, SpendInv, FewStarted
<1> QED
  BY <1>1, <1>4, Pair

\* payoutExecutor.ts, registerFeeSystem.ts: a payout is signed at most once, is traceable
\* from its row once handed over, and the fee ledger says charged only of what landed.
THEOREM PayoutsSound == Spec => []PayoutsAreSound
<1>1. MoneyInv => PayoutsAreSound
  <2> SUFFICES ASSUME MoneyInv PROVE PayoutsAreSound
    OBVIOUS
  <2>1. TypeOK /\ PayInv /\ \A p \in Position : attempt[p].status \in Status
    BY DEF MoneyInv, TypeOK, PayoutTypeOK
  <2>2. PaidOnce
    BY OneTransfer
  <2>3. PayoutIsTraceable
    <3>1. ASSUME NEW p \in Position, NEW i \in For(<<"payout", p>>)
          PROVE  attempt[p].tx = i /\ attempt[p].status \in {"SUBMITTED", "CONFIRMED", "FAILED"}
      BY <2>1, <3>1 DEF PayInv, RowTells, PayoutOf, Status, Terminal
    <3> QED
      BY <3>1 DEF PayoutIsTraceable
  <2>4. ChargedHasLanded
    BY <2>1 DEF ChargedHasLanded, PayInv, RowTells, LedgerTells
  <2>5. UnchargedLandedSaysFailed
    <3>1. ASSUME NEW p \in Position, ledger[p] = "plain", NEW i \in For(<<"payout", p>>)
          PROVE  attempt[p].status = "FAILED" \/ Cardinality({h \in Handler : Mine(h) = p}) > 1
      <4>1. Unpaid(p)
        BY <2>1, <3>1 DEF PayInv, LedgerTells
      <4>2. PayoutOf(p) # {}
        BY <3>1 DEF PayoutOf
      <4> QED
        BY <4>1, <4>2, TwiceCounts DEF Unpaid
    <3> QED
      BY <3>1 DEF UnchargedLandedSaysFailed
  <2> QED
    BY <2>1, <2>2, <2>3, <2>4, <2>5 DEF PayoutsAreSound
<1> QED
  BY <1>1, MoneyKept, PTL

\* payoutExecutor.ts: a row that is decided, and a fee ledger row, are never written again.
THEOREM DecisionsFinal == Spec => DecisionsAreFinal
<1> DEFINE Final == \A p \in Position :
                      /\ attempt[p].status \in Terminal => attempt'[p] = attempt[p]
                      /\ ledger[p] # "none" => ledger'[p] = ledger[p]
<1>1. MoneyInv /\ [Next]_vars => [Final]_vars
  <2> SUFFICES ASSUME MoneyInv, Next PROVE Final
    OBVIOUS
  <2>1. CASE PayoutAction
    <3>1. PICK h \in Handler : PayStep(h)
      BY <2>1 DEF PayoutAction, PayoutNext, PayStep
    <3>2. PayKeeps(h)
      BY <3>1, PayGlobal DEF MoneyInv, TypeOK, ChainTypeOK
    <3> QED
      BY <3>2 DEF PayKeeps
  <2>2. CASE UNCHANGED <<attempt, ledger>>
    BY <2>2
  <2> QED
    BY <2>1, <2>2 DEF Next, PlanAction, PlanFault, LedgerAction, LedgerFault, Withdraw, ChainAction,
                      Restart, payoutVars
<1> QED
  BY <1>1, MoneyKept, PTL DEF Spec, DecisionsAreFinal

\* planPurchase.ts, balanceLedger.ts: only a crowd breaks into the reserve, payments are
\* recorded until something fails, no day is sold twice, and deposits came in.
THEOREM BalancesSound == Spec => []BalancesAreSound
<1>1. MoneyInv => BalancesAreSound
  <2> SUFFICES ASSUME MoneyInv PROVE BalancesAreSound
    OBVIOUS
  <2>1. TypeOK /\ PurchaseInv /\ RefreshInv /\ SpendInv /\ LedgerTypeOK /\ Solid /\ faults \in Nat
    BY DEF MoneyInv, TypeOK, Solid, PayoutTypeOK
  <2>2. ReserveNeedsCrowd
    <3>1. ASSUME NEW w \in Wallet, sol[w] < Reserve, load.sol >= Reserve, w \notin crowd PROVE FALSE
      <4>1. sol[w] >= Reserve /\ sol[w] \in Nat
        BY <2>1, <3>1 DEF SpendInv, ReserveInv, Solid
      <4> QED
        BY <3>1, <4>1
    <3> QED
      BY <3>1 DEF ReserveNeedsCrowd
  <2>3. PaymentsRecorded
    <3>1. ASSUME NEW i \in Payments, txs[i].state = "landed", \A s \in subs : s.tx # i, ~(faults > 0)
          PROVE  \E q \in Request : pop[q].tx = i /\ ppc[q] \in {"confirm", "record"}
      <4>1. faults = 0
        BY <2>1, <3>1
      <4> QED
        BY <2>1, <3>1, <4>1 DEF PurchaseInv, PaymentTells
    <3> QED
      BY <3>1 DEF PaymentsRecorded, Payments
  <2>4. NoDayPaidTwice
    BY <2>1 DEF NoDayPaidTwice, PurchaseInv, SubsTell
  <2>5. CreditsAreReal
    <3>1. ASSUME NEW w \in Wallet, credited[w] > inflow[w], w \notin stale PROVE FALSE
      <4>1. credited[w] <= inflow[w] /\ credited[w] \in Nat /\ inflow[w] \in Nat
        BY <2>1, <3>1 DEF RefreshInv, CreditInv, LedgerTypeOK
      <4> QED
        BY <3>1, <4>1
    <3> QED
      BY <3>1 DEF CreditsAreReal
  <2> QED
    BY <2>2, <2>3, <2>4, <2>5 DEF BalancesAreSound
<1> QED
  BY <1>1, MoneyKept, PTL

=============================================================================
