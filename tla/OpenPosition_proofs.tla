------------------------- MODULE OpenPosition_proofs -------------------------
(***************************************************************************)
(* What OpenPosition.tla promises for every set of runs, wallets, tokens    *)
(* and deployments, and for every bound: one tracked buy per wallet and     *)
(* token, rows only of landed swaps, no landed swap lost to one failure,    *)
(* no buy of a token whose last buy is unverified, and safety.ts's three    *)
(* limits kept but for buys that overlapped; and what SwapRouting.tla       *)
(* promises of the swap a buy or a sale sends: one executed per call,       *)
(* within its cap and its floor, and reported truly.                        *)
(***************************************************************************)
EXTENDS OpenPosition, SwapRouting, SequenceTheorems, FiniteSetTheorems, TLAPS

\* Places before the swap, and places at which its rows are still to be written.
Checking == {"gates", "count", "dup", "balance", "build"}
Unwritten == Following \ {"alone"}

\* The swap a run follows up: sent for its key, landed where the run relies on
\* it, with no row and no trade before the run writes them.
SwapOf(b) ==
    /\ pc[b] \notin Following \cup {"alert", "notify"} => op[b].tx = 0
    /\ pc[b] \in Following \ {"failed"} => op[b].tx # 0
    /\ pc[b] \in Following /\ op[b].tx # 0 =>
         LET x == txs[op[b].tx] IN
           /\ x.key = KeyOf(b) /\ x.rival = op[b].rival /\ x.planned = op[b].planned
           /\ pc[b] \in {"verify", "lost", "write", "alone"} => x.state = "landed"
           /\ pc[b] \in Unwritten => x.row = "none" /\ x.trade = "none"

\* What a run inside openPosition may rely on: its key is locked, not unverified
\* before the swap, and after the duplicate check no other position has it.
KeyHeld(b) ==
    /\ pc[b] \in Inside => KeyOf(b) \in openLocks
    /\ pc[b] \in Checking => KeyOf(b) \notin unverified
    /\ pc[b] \in {"balance", "build"} \cup Unwritten => OpenFor(KeyOf(b)) = {}
    /\ pc[b] = "alone" => OpenFor(KeyOf(b)) \subseteq {op[b].tx}

\* Places reached by one failure already.
OnceFailed(b) ==
    \/ pc[b] \in {"lost", "alone"}
    \/ pc[b] = "failed" /\ op[b].tx # 0 /\ txs[op[b].tx].state # "dead"

\* A run knows its token when it begins and its wallet before openPosition.
KeyKnown(b) ==
    /\ pc[b] = "configs" => op[b].token \in Token
    /\ pc[b] \in {"plan", "enter"} => KeyOf(b) \in Key

Runs ==
    \A b \in Buyer : KeyKnown(b) /\ SwapOf(b) /\ KeyHeld(b) /\ (OnceFailed(b) => faults >= 1)

\* openLocks lets one run per key in.
Exclusive ==
    \A b, c \in Buyer : pc[b] \in Inside /\ pc[c] \in Inside /\ KeyOf(b) = KeyOf(c) => b = c

\* A swap that may still land, or has, and that nobody recorded or follows.
AtLeastTwoFaults ==
    \A i \in DOMAIN txs :
      txs[i].state # "dead" /\ txs[i].trade = "none" /\ ~InHand(i) => crashed \/ faults >= 2

Books == TypeOK /\ Runs /\ Exclusive /\ OneBuyTracked /\ RowHasTrade /\ AtLeastTwoFaults

\* --- The limits ---

\* Past the count, with the row still to come.
Counted == {"dup", "balance", "build"} \cup Following \cup {"alert"}

Fresh(w) == {i \in OpenIn(w) : ~txs[i].rival}

\* Of the runs past the count one at most has no rival; while its row is to come
\* the rows without rivals leave room for it.
CountInv ==
    /\ \A w \in Wallet : Cardinality(Fresh(w)) <= maxOpen
    /\ \A b \in Buyer : pc[b] \in Counted /\ ~op[b].rival =>
         /\ \A c \in Buyer \ {b} :
              pc[c] \in Counted /\ op[c].wallet = op[b].wallet => op[c].rival
         /\ pc[b] \in Counted \ {"alone", "alert"} => Cardinality(Fresh(op[b].wallet)) < maxOpen

Planned == {i \in OpenRows : txs[i].planned}

\* The same for the plan, which only launches ask for.
PlanInv ==
    /\ Cardinality(Planned) <= PlanMax
    /\ \A b \in Buyer : pc[b] = "plan" => b \in Launch
    /\ \A b \in Buyer : op[b].planned =>
         /\ b \in Launch /\ pc[b] \in Inside \cup {"enter"}
         /\ \A c \in Launch \ {b} : ~op[c].planned
         /\ pc[b] \notin {"alone", "alert", "notify"} => Cardinality(Planned) < PlanMax

Spent(w) == {i \in Swaps("landed") : txs[i].key[1] = w /\ txs[i].rival /\ txs[i].row # "closed"}
Going(w) == {i \in Swaps("pending") : txs[i].key[1] = w /\ ~txs[i].rival}
Builds(b) == pc[b] = "build" /\ ~op[b].rival

\* A wallet's SOL and what its rival buys took cover the reserve, and the one
\* buy without a rival that is on its way.
ReserveInv ==
    /\ \A w \in Wallet : sol[w] + Cardinality(Spent(w)) >= Reserve
    /\ \A w \in Wallet : \A i, j \in Going(w) : i = j
    /\ \A b \in Buyer : Builds(b) => Going(op[b].wallet) = {}
    /\ \A b, c \in Buyer : Builds(b) /\ Builds(c) /\ op[b].wallet = op[c].wallet => b = c
    /\ \A w \in Wallet :
         Going(w) # {} \/ (\E b \in Buyer : Builds(b) /\ op[b].wallet = w)
           => sol[w] + Cardinality(Spent(w)) >= Reserve + 1

LimitInv == CountInv /\ PlanInv /\ ReserveInv
-----------------------------------------------------------------------------
\* --- Swaps ----------------------------------------------------------------------

USE LimitAssumption, BoundAssumption, BuyerAssumption

\* A swap with new values in some of its fields.
LEMMA PutSwap ==
  ASSUME TypeOK, NEW i \in DOMAIN txs, NEW x \in TxType, txs' = [txs EXCEPT ![i] = x]
  PROVE  /\ txs' \in Seq(TxType) /\ Len(txs') = Len(txs) /\ DOMAIN txs' = DOMAIN txs
         /\ txs'[i] = x /\ \A j \in DOMAIN txs : j # i => txs'[j] = txs[j]
<1>1. txs \in Seq(TxType) /\ DOMAIN txs = 1..Len(txs)
  BY DEF TypeOK
<1>2. txs' \in Seq(TxType) /\ Len(txs') = Len(txs)
      /\ \A j \in 1..Len(txs) : txs'[j] = IF j = i THEN x ELSE txs[j]
  BY <1>1, ExceptSeq
<1> QED
  BY <1>1, <1>2

\* The fields of a swap have their types.
LEMMA SwapType ==
  ASSUME TypeOK, NEW i \in DOMAIN txs
  PROVE  /\ txs[i] \in TxType /\ txs[i].key \in Key /\ txs[i].key[1] \in Wallet
         /\ txs[i].state \in {"pending", "landed", "dead"}
         /\ txs[i].row \in {"none", "open", "closed"}
         /\ txs[i].trade \in {"none", "failed", "confirmed"}
         /\ txs[i].rival \in BOOLEAN /\ txs[i].planned \in BOOLEAN
<1>1. txs[i] \in TxType
  BY DEF TypeOK
<1> QED
  BY <1>1 DEF TxType, Key

\* A trade status written.
LEMMA SetTradeFields ==
  ASSUME TypeOK, NEW i \in DOMAIN txs, NEW s \in {"failed", "confirmed"}, SetTrade(i, s)
  PROVE  /\ txs' \in Seq(TxType) /\ Len(txs') = Len(txs) /\ DOMAIN txs' = DOMAIN txs
         /\ \A j \in DOMAIN txs : j # i => txs'[j] = txs[j]
         /\ txs'[i].key = txs[i].key /\ txs'[i].state = txs[i].state /\ txs'[i].row = txs[i].row
         /\ txs'[i].trade = s
         /\ txs'[i].rival = txs[i].rival /\ txs'[i].planned = txs[i].planned
<1> DEFINE x == [txs[i] EXCEPT !.trade = s]
<1>1. txs[i] \in TxType
  BY SwapType
<1>2. x \in TxType /\ x.key = txs[i].key /\ x.state = txs[i].state /\ x.row = txs[i].row
      /\ x.trade = s /\ x.rival = txs[i].rival /\ x.planned = txs[i].planned
  BY <1>1 DEF TxType
<1>3. txs' = [txs EXCEPT ![i] = x]
  BY DEF SetTrade, TypeOK
<1> HIDE DEF x
<1> QED
  BY <1>2, <1>3, PutSwap

\* Trade and position written together.
LEMMA SetRowsFields ==
  ASSUME TypeOK, NEW i \in DOMAIN txs, SetRows(i)
  PROVE  /\ txs' \in Seq(TxType) /\ Len(txs') = Len(txs) /\ DOMAIN txs' = DOMAIN txs
         /\ \A j \in DOMAIN txs : j # i => txs'[j] = txs[j]
         /\ txs'[i].key = txs[i].key /\ txs'[i].state = txs[i].state /\ txs'[i].row = "open"
         /\ txs'[i].trade = "confirmed"
         /\ txs'[i].rival = txs[i].rival /\ txs'[i].planned = txs[i].planned
<1> DEFINE x == [txs[i] EXCEPT !.row = "open", !.trade = "confirmed"]
<1>1. txs[i] \in TxType
  BY SwapType
<1>2. x \in TxType /\ x.key = txs[i].key /\ x.state = txs[i].state /\ x.row = "open"
      /\ x.trade = "confirmed" /\ x.rival = txs[i].rival /\ x.planned = txs[i].planned
  BY <1>1 DEF TxType
<1>3. txs' = [txs EXCEPT ![i] = x]
  BY DEF SetRows, TypeOK
<1> HIDE DEF x
<1> QED
  BY <1>2, <1>3, PutSwap

\* The chain settles a swap.
LEMMA SetStateFields ==
  ASSUME TypeOK, NEW i \in DOMAIN txs, NEW s \in {"landed", "dead"},
         txs' = [txs EXCEPT ![i].state = s]
  PROVE  /\ txs' \in Seq(TxType) /\ Len(txs') = Len(txs) /\ DOMAIN txs' = DOMAIN txs
         /\ \A j \in DOMAIN txs : j # i => txs'[j] = txs[j]
         /\ txs'[i].key = txs[i].key /\ txs'[i].state = s /\ txs'[i].row = txs[i].row
         /\ txs'[i].trade = txs[i].trade
         /\ txs'[i].rival = txs[i].rival /\ txs'[i].planned = txs[i].planned
<1> DEFINE x == [txs[i] EXCEPT !.state = s]
<1>1. txs[i] \in TxType
  BY SwapType
<1>2. x \in TxType /\ x.key = txs[i].key /\ x.state = s /\ x.row = txs[i].row
      /\ x.trade = txs[i].trade /\ x.rival = txs[i].rival /\ x.planned = txs[i].planned
  BY <1>1 DEF TxType
<1>3. txs' = [txs EXCEPT ![i] = x]
  BY DEF TypeOK
<1> HIDE DEF x
<1> QED
  BY <1>2, <1>3, PutSwap

\* The sell side closes a position.
LEMMA SellFields ==
  ASSUME TypeOK, NEW i \in DOMAIN txs, Sell(i)
  PROVE  /\ txs' \in Seq(TxType) /\ Len(txs') = Len(txs) /\ DOMAIN txs' = DOMAIN txs
         /\ \A j \in DOMAIN txs : j # i => txs'[j] = txs[j]
         /\ txs'[i].key = txs[i].key /\ txs'[i].state = txs[i].state /\ txs'[i].row = "closed"
         /\ txs'[i].trade = txs[i].trade
         /\ txs'[i].rival = txs[i].rival /\ txs'[i].planned = txs[i].planned
<1> DEFINE x == [txs[i] EXCEPT !.row = "closed"]
<1>1. txs[i] \in TxType
  BY SwapType
<1>2. x \in TxType /\ x.key = txs[i].key /\ x.state = txs[i].state /\ x.row = "closed"
      /\ x.trade = txs[i].trade /\ x.rival = txs[i].rival /\ x.planned = txs[i].planned
  BY <1>1 DEF TxType
<1>3. txs' = [txs EXCEPT ![i] = x]
  BY DEF Sell, TypeOK
<1> HIDE DEF x
<1> QED
  BY <1>2, <1>3, PutSwap

\* A swap sent.
LEMMA SendFields ==
  ASSUME TypeOK, NEW b \in Buyer, Broadcast(b)
  PROVE  LET n == Len(txs) + 1 IN
         /\ txs' \in Seq(TxType) /\ Len(txs') = n /\ n \notin DOMAIN txs /\ n # 0 /\ n \in Nat
         /\ DOMAIN txs' = DOMAIN txs \cup {n}
         /\ \A j \in DOMAIN txs : txs'[j] = txs[j]
         /\ txs'[n].key = KeyOf(b) /\ txs'[n].state = "pending" /\ txs'[n].row = "none"
         /\ txs'[n].trade = "none"
         /\ txs'[n].rival = op[b].rival /\ txs'[n].planned = op[b].planned
<1> DEFINE x == [key |-> KeyOf(b), state |-> "pending", row |-> "none",
                 trade |-> "none", rival |-> op[b].rival, planned |-> op[b].planned]
<1>1. txs \in Seq(TxType) /\ Len(txs) \in Nat /\ DOMAIN txs = 1..Len(txs)
  BY DEF TypeOK
<1>2. KeyOf(b) \in Key /\ op[b].rival \in BOOLEAN /\ op[b].planned \in BOOLEAN
  BY DEF TypeOK, Broadcast, Inside, OpType
<1>3. /\ x \in TxType /\ x.key = KeyOf(b) /\ x.state = "pending" /\ x.row = "none"
      /\ x.trade = "none" /\ x.rival = op[b].rival /\ x.planned = op[b].planned
  BY <1>2 DEF TxType
<1>4. txs' = Append(txs, x)
  BY DEF Broadcast
<1> HIDE DEF x
<1>5. /\ txs' \in Seq(TxType) /\ Len(txs') = Len(txs) + 1 /\ txs'[Len(txs) + 1] = x
      /\ DOMAIN txs' = 1..(Len(txs) + 1)
      /\ \A j \in 1..Len(txs) : txs'[j] = txs[j]
  BY <1>1, <1>3, <1>4, AppendProperties
<1> QED
  BY <1>1, <1>3, <1>5
-----------------------------------------------------------------------------
\* --- A run's step moves that run alone --------------------------------------------

OthersStay(b) ==
    /\ pc' = [pc EXCEPT ![b] = pc'[b]] /\ op' = [op EXCEPT ![b] = op'[b]]
    /\ \A c \in Buyer \ {b} : pc'[c] = pc[c] /\ op'[c] = op[c]

RunStep(b) == Begin(b) \/ Step(b) \/ Failure(b)

\* The steps of a run by what they touch.
BeforeStep(b) ==
    Begin(b) \/ NextConfig(b) \/ EndRun(b) \/ CheckPlan(b) \/ PlanUnknown(b) \/ Enter(b)
CheckStep(b) ==
    \/ Refuse(b) \/ PassGates(b) \/ CountOpen(b) \/ CheckDuplicate(b) \/ CheckBalance(b)
    \/ CheckError(b)
FollowStep(b) ==
    BuildFails(b) \/ SwapThrows(b) \/ Confirmed(b) \/ Verified(b) \/ VerifyFails(b)
WriteStep(b) ==
    RecordFailed(b) \/ WriteRows(b) \/ WriteFails(b) \/ RecordAlone(b) \/ Notify(b)

\* There are no others.
LEMMA Kinds ==
  ASSUME NEW b \in Buyer
  PROVE  RunStep(b) <=> \/ BeforeStep(b) \/ CheckStep(b) \/ Broadcast(b) \/ FollowStep(b)
                        \/ WriteStep(b)
BY DEF RunStep, Step, Failure, BeforeStep, CheckStep, FollowStep, WriteStep

\* openPosition is over: its key is free, and its locals are reset.
LEMMA ReturnFields ==
  ASSUME TypeOK, NEW b \in Buyer, Return(b)
  PROVE  /\ pc' \in [Buyer -> PC] /\ op' \in [Buyer -> OpType] /\ OthersStay(b)
         /\ pc'[b] = "configs" /\ op'[b].wallet = op[b].wallet /\ op'[b].token = op[b].token
         /\ op'[b].tx = 0 /\ ~op'[b].rival /\ ~op'[b].planned
         /\ openLocks' = openLocks \ {KeyOf(b)}
<1> DEFINE o == [op[b] EXCEPT !.todo = @ \ {op[b].wallet}, !.tx = 0, !.rival = FALSE,
                              !.planned = FALSE]
<1>1. op[b] \in OpType /\ op \in [Buyer -> OpType] /\ pc \in [Buyer -> PC]
  BY DEF TypeOK
<1>2. /\ o \in OpType /\ o.wallet = op[b].wallet /\ o.token = op[b].token /\ o.tx = 0
      /\ o.rival = FALSE /\ o.planned = FALSE
  BY <1>1 DEF OpType
<1>3. op' = [op EXCEPT ![b] = o]
  BY <1>1 DEF Return
<1>4. pc' = [pc EXCEPT ![b] = "configs"] /\ openLocks' = openLocks \ {KeyOf(b)}
  BY DEF Return
<1> HIDE DEF o
<1>5. /\ pc' \in [Buyer -> PC] /\ pc'[b] = "configs" /\ \A c \in Buyer \ {b} : pc'[c] = pc[c]
      /\ pc' = [pc EXCEPT ![b] = pc'[b]]
  BY <1>1, <1>4 DEF PC
<1>6. /\ op' \in [Buyer -> OpType] /\ op'[b] = o /\ \A c \in Buyer \ {b} : op'[c] = op[c]
      /\ op' = [op EXCEPT ![b] = op'[b]]
  BY <1>1, <1>2, <1>3
<1> QED
  BY <1>2, <1>4, <1>5, <1>6 DEF OthersStay

\* A step moves one run at most.
LEMMA OthersStayStep == ASSUME TypeOK, NEW b \in Buyer, RunStep(b) PROVE OthersStay(b)
<1> USE DEF OthersStay, TypeOK, Goto
<1>1. CASE Return(b)
  BY <1>1, ReturnFields
<1>2. CASE Begin(b) \/ NextConfig(b) \/ EndRun(b)
  BY <1>2 DEF Begin, NextConfig, EndRun
<1>3. CASE CheckPlan(b) \/ PlanUnknown(b) \/ Enter(b) \/ PassGates(b)
  BY <1>3 DEF CheckPlan, PlanUnknown, Enter, EnterUnless, PassGates
<1>4. CASE (CountOpen(b) \/ CheckDuplicate(b) \/ CheckBalance(b)) /\ ~Return(b)
  BY <1>4 DEF CountOpen, CheckDuplicate, CheckBalance
<1>5. CASE Broadcast(b) \/ BuildFails(b) \/ SwapThrows(b) \/ Confirmed(b) \/ Verified(b) \/ VerifyFails(b)
  BY <1>5 DEF Broadcast, BuildFails, SwapThrows, Confirmed, Verified, VerifyFails
<1>6. CASE (RecordFailed(b) \/ RecordAlone(b)) /\ ~Return(b)
  BY <1>6 DEF RecordFailed, RecordAlone
<1>7. CASE WriteRows(b) \/ WriteFails(b)
  BY <1>7 DEF WriteRows, WriteFails
<1>8. CASE Refuse(b) \/ CheckError(b) \/ Notify(b)
  BY <1>1, <1>8 DEF Refuse, CheckError, Notify
<1> QED
  BY <1>1, <1>2, <1>3, <1>4, <1>5, <1>6, <1>7, <1>8 DEF RunStep, Step, Failure

\* The steps a run takes outside openPosition, or into it.
LEMMA Before ==
  ASSUME TypeOK, NEW b \in Buyer, KeyKnown(b), BeforeStep(b)
  PROVE  /\ pc[b] \notin Inside /\ pc[b] \in {"idle", "configs", "plan", "enter"}
         /\ op'[b] \in OpType /\ pc'[b] \in {"idle", "configs", "plan", "enter", "gates"}
         /\ op'[b].tx = op[b].tx \/ op'[b].tx = 0
         /\ op'[b].rival => op[b].rival
         /\ KeyKnown(b)'
         /\ pc'[b] = "gates" =>
              /\ pc[b] = "enter" /\ op' = op /\ KeyOf(b) \in Key
              /\ KeyOf(b) \notin openLocks \cup unverified
              /\ openLocks' = openLocks \cup {KeyOf(b)}
         /\ pc'[b] # "gates" => openLocks' = openLocks
         /\ UNCHANGED <<unverified, txs, sol, maxOpen, crashed>> /\ faults' \in {faults, faults + 1}
<1> USE DEF Inside, Goto, BeforeStep
<1>0. op[b] \in OpType /\ op \in [Buyer -> OpType] /\ pc \in [Buyer -> PC]
  BY DEF TypeOK
<1>1. CASE Begin(b)
  <2>1. PICK t \in Token, ws \in SUBSET Wallet : op' = [op EXCEPT ![b].token = t, ![b].todo = ws]
    BY <1>1 DEF Begin
  <2> DEFINE o == [op[b] EXCEPT !.token = t, !.todo = ws]
  <2>2. o \in OpType /\ o.token = t /\ o.tx = op[b].tx /\ o.rival = op[b].rival
    BY <1>0 DEF OpType
  <2>3. op'[b] = o
    BY <1>0, <2>1
  <2> HIDE DEF o
  <2>4. pc[b] = "idle" /\ pc'[b] = "configs"
    BY <1>0, <1>1 DEF Begin
  <2> QED
    BY <1>1, <2>2, <2>3, <2>4 DEF KeyKnown, Begin
<1>2. CASE NextConfig(b)
  <2>0. pc[b] = "configs" /\ op[b].token \in Token
    BY <1>2 DEF NextConfig, KeyKnown
  <2>1. PICK w \in op[b].todo :
            \/ /\ op' = [op EXCEPT ![b].wallet = w]
               /\ Goto(b, IF b \in Launch THEN "plan" ELSE "enter")
            \/ op' = [op EXCEPT ![b].todo = @ \ {w}] /\ UNCHANGED pc
    BY <1>2 DEF NextConfig
  <2>2. w \in Wallet
    BY <1>0 DEF OpType
  <2>3. CASE op' = [op EXCEPT ![b].wallet = w] /\ Goto(b, IF b \in Launch THEN "plan" ELSE "enter")
    <3> DEFINE o == [op[b] EXCEPT !.wallet = w]
    <3>1. o \in OpType /\ o.token = op[b].token /\ o.wallet = w /\ o.tx = op[b].tx
          /\ o.rival = op[b].rival
      BY <1>0, <2>2 DEF OpType
    <3>2. op'[b] = o /\ pc'[b] \in {"plan", "enter"}
      BY <1>0, <2>3
    <3> HIDE DEF o
    <3> QED
      BY <1>2, <2>0, <2>2, <3>1, <3>2 DEF KeyKnown, KeyOf, Key, NextConfig, envVars
  <2>4. CASE op' = [op EXCEPT ![b].todo = @ \ {w}] /\ UNCHANGED pc
    <3> DEFINE o == [op[b] EXCEPT !.todo = @ \ {w}]
    <3>1. o \in OpType /\ o.token = op[b].token /\ o.tx = op[b].tx /\ o.rival = op[b].rival
      BY <1>0 DEF OpType
    <3>2. op'[b] = o /\ pc'[b] = "configs"
      BY <1>0, <2>0, <2>4
    <3> HIDE DEF o
    <3> QED
      BY <1>2, <2>0, <3>1, <3>2 DEF KeyKnown, NextConfig, envVars
  <2> QED
    BY <2>1, <2>3, <2>4
<1>3. CASE EndRun(b)
  <2>1. Idle \in OpType /\ Idle.tx = 0 /\ Idle.rival = FALSE
    BY DEF Idle, OpType
  <2>2. op'[b] = Idle /\ pc'[b] = "idle" /\ pc[b] = "configs"
    BY <1>0, <1>3 DEF EndRun
  <2> QED
    BY <1>3, <2>1, <2>2 DEF KeyKnown, EndRun, envVars
<1>4. CASE CheckPlan(b)
  <2>0. pc[b] = "plan" /\ op[b].token \in Token /\ KeyOf(b) \in Key
    BY <1>4 DEF CheckPlan, KeyKnown, KeyOf, Key
  <2>1. CASE Goto(b, "configs") /\ op' = [op EXCEPT ![b].todo = @ \ {op[b].wallet}]
    <3> DEFINE o == [op[b] EXCEPT !.todo = @ \ {op[b].wallet}]
    <3>1. o \in OpType /\ o.token = op[b].token /\ o.tx = op[b].tx /\ o.rival = op[b].rival
      BY <1>0 DEF OpType
    <3>2. op'[b] = o /\ pc'[b] = "configs"
      BY <1>0, <2>1
    <3> HIDE DEF o
    <3> QED
      BY <1>4, <2>0, <3>1, <3>2 DEF KeyKnown, CheckPlan, envVars
  <2>2. ASSUME NEW p \in BOOLEAN, Goto(b, "enter"), op' = [op EXCEPT ![b].planned = p]
        PROVE  /\ op'[b] \in OpType /\ pc'[b] = "enter" /\ op'[b].tx = op[b].tx
               /\ op'[b].rival = op[b].rival /\ KeyKnown(b)'
    <3> DEFINE o == [op[b] EXCEPT !.planned = p]
    <3>1. o \in OpType /\ o.token = op[b].token /\ o.wallet = op[b].wallet /\ o.tx = op[b].tx
          /\ o.rival = op[b].rival
      BY <1>0 DEF OpType
    <3>2. op'[b] = o /\ pc'[b] = "enter"
      BY <1>0, <2>2
    <3> HIDE DEF o
    <3> QED
      BY <2>0, <3>1, <3>2 DEF KeyKnown, KeyOf
  <2> QED
    BY <1>4, <2>0, <2>1, <2>2 DEF CheckPlan, envVars
<1>5. CASE PlanUnknown(b)
  BY <1>0, <1>5 DEF PlanUnknown, KeyKnown, KeyOf, Fault
<1>6. CASE Enter(b)
  <2>0. pc[b] = "enter" /\ op[b].token \in Token /\ KeyOf(b) \in Key
    BY <1>6 DEF Enter, EnterUnless, KeyKnown, KeyOf, Key
  <2>1. CASE KeyOf(b) \in openLocks \cup unverified
    <3> DEFINE o == [op[b] EXCEPT !.todo = @ \ {op[b].wallet}, !.planned = FALSE]
    <3>1. o \in OpType /\ o.token = op[b].token /\ o.tx = op[b].tx /\ o.rival = op[b].rival
      BY <1>0 DEF OpType
    <3>2. op'[b] = o /\ pc'[b] = "configs"
      BY <1>0, <1>6, <2>1 DEF Enter, EnterUnless
    <3> HIDE DEF o
    <3> QED
      BY <1>6, <2>0, <2>1, <3>1, <3>2 DEF KeyKnown, Enter, EnterUnless, envVars
  <2>2. CASE KeyOf(b) \notin openLocks \cup unverified
    BY <1>0, <1>6, <2>0, <2>2 DEF KeyKnown, Enter, EnterUnless, envVars
  <2> QED
    BY <2>1, <2>2
<1> QED
  BY <1>1, <1>2, <1>3, <1>4, <1>5, <1>6

\* The checks before the swap: refused, or on to the next one.
LEMMA Checks ==
  ASSUME TypeOK, NEW b \in Buyer, CheckStep(b)
  PROVE  /\ pc[b] \in Checking
         /\ UNCHANGED <<unverified, txs, sol, maxOpen, crashed>> /\ faults' \in {faults, faults + 1}
         /\ \/ Return(b)
            \/ /\ UNCHANGED openLocks /\ op'[b] \in OpType
               /\ op'[b].wallet = op[b].wallet /\ op'[b].token = op[b].token
               /\ op'[b].tx = op[b].tx /\ op'[b].planned = op[b].planned
               /\ \/ pc[b] = "gates" /\ pc'[b] = "count" /\ op' = op
                  \/ /\ pc[b] = "count" /\ pc'[b] = "dup"
                     /\ Cardinality(OpenIn(op[b].wallet)) < maxOpen
                     /\ op'[b].rival = RivalAt(b, Inside \ {"gates", "count", "notify"})
                  \/ pc[b] = "dup" /\ pc'[b] = "balance" /\ op' = op /\ OpenFor(KeyOf(b)) = {}
                  \/ /\ pc[b] = "balance" /\ pc'[b] = "build"
                     /\ sol[op[b].wallet] >= 1 + Reserve
                     /\ op'[b].rival = (op[b].rival \/ PendingIn(op[b].wallet)
                                          \/ RivalAt(b, {"build"}))
<1> USE DEF Checking, Goto, CheckStep
<1>0. op[b] \in OpType /\ op \in [Buyer -> OpType] /\ pc \in [Buyer -> PC]
  BY DEF TypeOK
<1>1. CASE Refuse(b) \/ CheckError(b)
  BY <1>1 DEF Refuse, CheckError, envVars, Fault
<1>2. CASE PassGates(b)
  BY <1>0, <1>2 DEF PassGates, envVars
<1>3. CASE CountOpen(b)
  <2> DEFINE r == RivalAt(b, Inside \ {"gates", "count", "notify"})
             o == [op[b] EXCEPT !.rival = r]
  <2>0. r \in BOOLEAN
    BY DEF RivalAt
  <2>1. CASE Cardinality(OpenIn(op[b].wallet)) < maxOpen
    <3> HIDE DEF r
    <3>1. o \in OpType /\ o.wallet = op[b].wallet /\ o.token = op[b].token /\ o.tx = op[b].tx
          /\ o.planned = op[b].planned /\ o.rival = r
      BY <1>0, <2>0 DEF OpType
    <3>2. op'[b] = o /\ pc'[b] = "dup" /\ pc[b] = "count" /\ UNCHANGED openLocks
      BY <1>0, <1>3, <2>1 DEF CountOpen, evaluateMaxOpenPositions, r
    <3> HIDE DEF o
    <3>3. UNCHANGED <<unverified, txs, sol, maxOpen, crashed, faults>>
      BY <1>3 DEF CountOpen, envVars
    <3> QED
      BY <2>1, <3>1, <3>2, <3>3 DEF r
  <2>2. CASE ~(Cardinality(OpenIn(op[b].wallet)) < maxOpen)
    BY <1>3, <2>2 DEF CountOpen, evaluateMaxOpenPositions, envVars
  <2> QED
    BY <2>1, <2>2
<1>4. CASE CheckDuplicate(b)
  BY <1>0, <1>4 DEF CheckDuplicate, evaluateDuplicateOpenPosition, envVars
<1>5. CASE CheckBalance(b)
  <2> DEFINE r == (op[b].rival \/ PendingIn(op[b].wallet) \/ RivalAt(b, {"build"}))
             o == [op[b] EXCEPT !.rival = r]
  <2>0. r \in BOOLEAN
    BY DEF RivalAt
  <2>1. CASE sol[op[b].wallet] >= 1 + Reserve
    <3>2. op'[b] = o /\ pc'[b] = "build" /\ pc[b] = "balance" /\ UNCHANGED openLocks
      BY <1>0, <1>5, <2>1 DEF CheckBalance, evaluateWalletBalance
    <3> HIDE DEF r
    <3>1. o \in OpType /\ o.wallet = op[b].wallet /\ o.token = op[b].token /\ o.tx = op[b].tx
          /\ o.planned = op[b].planned /\ o.rival = r
      BY <1>0, <2>0 DEF OpType
    <3> HIDE DEF o
    <3>3. UNCHANGED <<unverified, txs, sol, maxOpen, crashed, faults>>
      BY <1>5 DEF CheckBalance, envVars
    <3> QED
      BY <2>1, <3>1, <3>2, <3>3 DEF r
  <2>2. CASE ~(sol[op[b].wallet] >= 1 + Reserve)
    BY <1>5, <2>2 DEF CheckBalance, evaluateWalletBalance, envVars
  <2> QED
    BY <2>1, <2>2
<1> QED
  BY <1>1, <1>2, <1>3, <1>4, <1>5

\* Steps that follow the swap up and write nothing of it.
LEMMA Follows ==
  ASSUME TypeOK, NEW b \in Buyer, FollowStep(b)
  PROVE  /\ pc \in [Buyer -> PC] /\ pc[b] \in Following \cup {"build"}
         /\ UNCHANGED <<op, openLocks, txs, sol, maxOpen, crashed>>
         /\ \/ pc[b] = "build" /\ pc'[b] = "failed" /\ UNCHANGED unverified /\ faults' = faults + 1
            \/ /\ pc[b] = "confirm" /\ pc'[b] = "failed" /\ UNCHANGED unverified
               /\ faults' \in {faults, faults + 1}
               /\ txs[op[b].tx].state # "dead" => faults' = faults + 1
            \/ /\ pc[b] = "confirm" /\ pc'[b] = "verify" /\ UNCHANGED faults
               /\ txs[op[b].tx].state = "landed"
               /\ unverified' = unverified \cup {KeyOf(b)}
            \/ /\ pc[b] = "verify" /\ pc'[b] = "write" /\ UNCHANGED faults
               /\ unverified' = unverified \ {KeyOf(b)}
            \/ pc[b] = "verify" /\ pc'[b] = "lost" /\ UNCHANGED unverified /\ faults' = faults + 1
BY DEF FollowStep, TypeOK, BuildFails, SwapThrows, Confirmed, Verified, VerifyFails, Fault, Goto, Following,
   envVars

\* Steps that write the rows of the swap, or fail to.
LEMMA Writes ==
  ASSUME TypeOK, NEW b \in Buyer, WriteStep(b)
  PROVE  /\ pc[b] \in Inside \ Checking
         /\ UNCHANGED <<unverified, sol, maxOpen, crashed>> /\ faults' \in {faults, faults + 1}
         /\ \/ /\ Return(b)
               /\ \/ /\ pc[b] = "failed"
                     /\ \/ op[b].tx = 0 /\ UNCHANGED txs
                        \/ op[b].tx # 0 /\ SetTrade(op[b].tx, "failed")
                        \/ UNCHANGED txs /\ faults' = faults + 1
                  \/ /\ pc[b] = "alone" /\ UNCHANGED txs
                     /\ txs[op[b].tx].trade = "none" => faults' = faults + 1
                  \/ pc[b] \in {"alert", "notify"} /\ UNCHANGED txs
            \/ /\ UNCHANGED <<op, openLocks>> /\ pc \in [Buyer -> PC]
               /\ \/ /\ pc[b] = "lost" /\ pc'[b] = "alert"
                     /\ \/ op[b].tx = 0 /\ UNCHANGED txs
                        \/ op[b].tx # 0 /\ SetTrade(op[b].tx, "failed")
                        \/ UNCHANGED txs /\ faults' = faults + 1
                  \/ /\ pc[b] = "write" /\ pc'[b] = "notify"
                     /\ OpenFor(KeyOf(b)) = {} /\ SetRows(op[b].tx)
                  \/ /\ pc[b] = "write" /\ pc'[b] = "alone"
                     /\ \/ OpenFor(KeyOf(b)) # {} /\ UNCHANGED txs
                        \/ /\ faults' = faults + 1
                           /\ UNCHANGED txs \/ (OpenFor(KeyOf(b)) = {} /\ SetRows(op[b].tx))
                  \/ /\ pc[b] = "alone" /\ pc'[b] = "alert"
                     /\ txs[op[b].tx].trade = "none" /\ SetTrade(op[b].tx, "confirmed")
<1> USE DEF WriteStep, TypeOK, Goto, Inside, Checking, Fault
<1>1. CASE RecordFailed(b)
  BY <1>1 DEF RecordFailed
<1>2. CASE WriteRows(b)
  BY <1>2 DEF WriteRows
<1>3. CASE WriteFails(b)
  BY <1>3 DEF WriteFails
<1>4. CASE RecordAlone(b)
  BY <1>4 DEF RecordAlone
<1>5. CASE Notify(b)
  BY <1>5 DEF Notify, envVars
<1> QED
  BY <1>1, <1>2, <1>3, <1>4, <1>5

\* What a run's step does to the swaps: one is sent, or the one it follows is
\* recorded.
Moved(b) ==
    /\ txs' \in Seq(TxType) /\ Len(txs') >= Len(txs) /\ DOMAIN txs \subseteq DOMAIN txs'
    /\ \A i \in DOMAIN txs :
         /\ txs'[i].key = txs[i].key /\ txs'[i].state = txs[i].state
         /\ txs'[i].rival = txs[i].rival /\ txs'[i].planned = txs[i].planned
         /\ \/ txs'[i] = txs[i]
            \/ /\ pc[b] \in Following /\ i = op[b].tx /\ i # 0
               /\ txs'[i].trade # "none" /\ txs[i].trade = "none"
               /\ \/ txs'[i].row = txs[i].row
                  \/ /\ pc[b] = "write" /\ pc'[b] \in {"notify", "alone"}
                     /\ txs[i].row = "none" /\ txs'[i].row = "open"
                     /\ txs'[i].trade = "confirmed" /\ OpenFor(KeyOf(b)) = {}
    /\ \/ DOMAIN txs' = DOMAIN txs
       \/ /\ Broadcast(b) /\ DOMAIN txs' = DOMAIN txs \cup {Len(txs) + 1}
          /\ Len(txs) + 1 \notin DOMAIN txs
          /\ txs'[Len(txs) + 1].key = KeyOf(b) /\ txs'[Len(txs) + 1].state = "pending"
          /\ txs'[Len(txs) + 1].row = "none" /\ txs'[Len(txs) + 1].trade = "none"

\* A run moves the swaps so.
LEMMA SwapsMove == ASSUME Books, NEW b \in Buyer, RunStep(b) PROVE Moved(b)
<1> USE DEF Books, Moved
<1>0. TypeOK /\ KeyKnown(b) /\ SwapOf(b) /\ Len(txs) \in Nat /\ DOMAIN txs = 1..Len(txs)
      /\ txs \in Seq(TxType) /\ op[b].tx \in Nat
  BY DEF Runs, TypeOK, OpType
<1>1. CASE UNCHANGED txs
  BY <1>0, <1>1
<1>2. CASE Broadcast(b)
  <2> DEFINE n == Len(txs) + 1
  <2>1. /\ txs' \in Seq(TxType) /\ Len(txs') = n /\ n \notin DOMAIN txs
        /\ DOMAIN txs' = DOMAIN txs \cup {n} /\ \A i \in DOMAIN txs : txs'[i] = txs[i]
        /\ txs'[n].key = KeyOf(b) /\ txs'[n].state = "pending" /\ txs'[n].row = "none"
        /\ txs'[n].trade = "none"
    BY <1>0, <1>2, SendFields
  <2>2. n >= Len(txs)
    BY <1>0
  <2> HIDE DEF n
  <2>3. Len(txs') >= Len(txs) /\ DOMAIN txs \subseteq DOMAIN txs'
    BY <2>1, <2>2
  <2> QED
    BY <1>2, <2>1, <2>3 DEF n
<1>3. ASSUME pc[b] \in Following, op[b].tx # 0, NEW s \in {"failed", "confirmed"},
             SetTrade(op[b].tx, s), txs[op[b].tx].trade = "none"
      PROVE  Moved(b)
  <2>1. op[b].tx \in DOMAIN txs
    BY <1>0, <1>3 DEF TypeOK, Following, Inside
  <2> QED
    BY <1>0, <1>3, <2>1, SetTradeFields
<1>4. ASSUME pc[b] = "write", pc'[b] \in {"notify", "alone"}, SetRows(op[b].tx),
             OpenFor(KeyOf(b)) = {}
      PROVE  Moved(b)
  <2>1. op[b].tx \in DOMAIN txs /\ op[b].tx # 0 /\ txs[op[b].tx].row = "none"
        /\ txs[op[b].tx].trade = "none" /\ pc[b] \in Following
    BY <1>0, <1>4 DEF TypeOK, Following, Inside, SwapOf, Unwritten
  <2> QED
    BY <1>0, <1>4, <2>1, SetRowsFields
<1>5. CASE BeforeStep(b) \/ CheckStep(b) \/ FollowStep(b)
  BY <1>0, <1>1, <1>5, Before, Checks, Follows
<1>6. CASE WriteStep(b)
  <2>1. pc[b] \in {"failed", "lost"} /\ op[b].tx # 0 => txs[op[b].tx].trade = "none"
    BY <1>0 DEF SwapOf, Unwritten, Following
  <2> QED
    BY <1>0, <1>1, <1>3, <1>4, <1>6, <2>1, Writes DEF SwapOf, Following
<1> QED
  BY <1>2, <1>5, <1>6, Kinds


\* What it does to the locks: nothing but at its own key, and nothing outside
\* openPosition.
LocksMoved(b) ==
    /\ \A k \in Key \ {KeyOf(b)} :
         (k \in openLocks' <=> k \in openLocks) /\ (k \in unverified' => k \in unverified)
    /\ pc[b] \in Inside \/ (pc'[b] = "gates" /\ KeyOf(b) \notin openLocks)
       \/ UNCHANGED <<openLocks, unverified, txs>>
    /\ openLocks' \in SUBSET Key /\ unverified' \in SUBSET Key
    /\ faults' \in {faults, faults + 1} /\ UNCHANGED <<sol, maxOpen, crashed>>

\* A run moves the locks so.
LEMMA LocksMove == ASSUME Books, NEW b \in Buyer, RunStep(b) PROVE LocksMoved(b)
<1> USE DEF Books, LocksMoved
<1>0. TypeOK /\ KeyKnown(b) /\ openLocks \in SUBSET Key /\ unverified \in SUBSET Key
      /\ (pc[b] \in Inside => KeyOf(b) \in Key)
  BY DEF Runs, TypeOK
<1>1. CASE BeforeStep(b)
  BY <1>0, <1>1, Before
<1>2. CASE CheckStep(b)
  BY <1>0, <1>2, Checks, ReturnFields DEF Checking, Inside
<1>3. CASE Broadcast(b)
  BY <1>0, <1>3 DEF Broadcast, Inside
<1>4. CASE FollowStep(b)
  <2>1. pc[b] \in Inside
    BY <1>0, <1>4, Follows DEF Following, Inside
  <2> QED
    BY <1>0, <1>4, <2>1, Follows
<1>5. CASE WriteStep(b)
  BY <1>0, <1>5, Writes, ReturnFields
<1> QED
  BY <1>1, <1>2, <1>3, <1>4, <1>5, Kinds

\* What the other runs rely on is left alone.
LEMMA OthersKeep ==
  ASSUME Books, NEW b \in Buyer, RunStep(b), NEW c \in Buyer \ {b}
  PROVE  KeyKnown(c)' /\ SwapOf(c)' /\ KeyHeld(c)' /\ (OnceFailed(c)' => OnceFailed(c))
<1>1. TypeOK /\ KeyKnown(c) /\ SwapOf(c) /\ KeyHeld(c) /\ KeyKnown(b) /\ SwapOf(b) /\ KeyHeld(b)
      /\ c \in Buyer
  BY DEF Books, Runs
<1>2. pc'[c] = pc[c] /\ op'[c] = op[c] /\ KeyOf(c)' = KeyOf(c)
  BY <1>1, OthersStayStep DEF OthersStay, KeyOf
<1>3. Moved(b) /\ LocksMoved(b)
  BY SwapsMove, LocksMove
<1>4. pc[c] \in Inside /\ pc[b] \in Inside => KeyOf(c) # KeyOf(b)
  BY DEF Books, Exclusive
<1>5. pc[c] \in Inside => KeyOf(c) \in Key \ {KeyOf(b)} \/ UNCHANGED <<openLocks, unverified, txs>>
  BY <1>1, <1>3, <1>4 DEF LocksMoved, KeyHeld, TypeOK
<1>6. Following \subseteq Inside
  BY DEF Following, Inside
<1>7. pc[c] \in Following /\ op[c].tx # 0 => op[c].tx \in DOMAIN txs /\ txs'[op[c].tx] = txs[op[c].tx]
  <2> SUFFICES ASSUME pc[c] \in Following, op[c].tx # 0
               PROVE  op[c].tx \in DOMAIN txs /\ txs'[op[c].tx] = txs[op[c].tx]
    OBVIOUS
  <2>1. op[c].tx \in DOMAIN txs
    BY <1>1, <1>6 DEF TypeOK, OpType
  <2>2. txs[op[c].tx].key = KeyOf(c)
    BY <1>1 DEF SwapOf
  <2>3. ~(pc[b] \in Following /\ op[c].tx = op[b].tx)
    <3> SUFFICES ASSUME pc[b] \in Following, op[c].tx = op[b].tx PROVE FALSE
      OBVIOUS
    <3>1. txs[op[c].tx].key = KeyOf(b)
      BY <1>1 DEF SwapOf
    <3> QED
      BY <1>4, <1>6, <2>2, <3>1
  <2> QED
    BY <1>3, <2>1, <2>3 DEF Moved
<1>8. pc[c] \in Inside => OpenFor(KeyOf(c))' \subseteq OpenFor(KeyOf(c))
  <2> SUFFICES ASSUME pc[c] \in Inside, NEW j \in DOMAIN txs', txs'[j].row = "open",
                      txs'[j].key = KeyOf(c)
               PROVE  j \in DOMAIN txs /\ txs[j].row = "open" /\ txs[j].key = KeyOf(c)
    BY <1>2 DEF OpenFor, OpenRows
  <2>1. j \in DOMAIN txs /\ txs[j].key = KeyOf(c)
    BY <1>3 DEF Moved
  <2>2. txs[j].row # "open" => pc[b] = "write" /\ j = op[b].tx /\ j # 0
    BY <1>3, <2>1 DEF Moved
  <2>3. pc[b] = "write" /\ j = op[b].tx /\ j # 0 => txs[j].key = KeyOf(b) /\ pc[b] \in Inside
    BY <1>1, <1>6 DEF SwapOf, Following
  <2> QED
    BY <1>4, <2>1, <2>2, <2>3
<1>9. SwapOf(c)' /\ (OnceFailed(c)' => OnceFailed(c))
  BY <1>1, <1>2, <1>7 DEF SwapOf, OnceFailed, Following
<1>10. KeyHeld(c)'
  <2>1. pc[c] \in Checking \cup Following \cup {"balance", "build", "alone"} \cup Unwritten => pc[c] \in Inside
    BY DEF Checking, Unwritten, Following, Inside
  <2> QED
    BY <1>1, <1>2, <1>3, <1>5, <1>8, <2>1 DEF KeyHeld, LocksMoved
<1> QED
  BY <1>1, <1>2, <1>9, <1>10 DEF KeyKnown


RunInv(b) == KeyKnown(b) /\ SwapOf(b) /\ KeyHeld(b) /\ (OnceFailed(b) => faults >= 1)

\* A run leaves openPosition with nothing to rely on.
LEMMA ReturnKeeps ==
  ASSUME Books, NEW b \in Buyer, pc[b] \in Inside, Return(b)
  PROVE  RunInv(b)'
<1>1. op[b].token \in Token
  BY DEF Books, TypeOK, KeyOf, Key
<1>2. /\ pc'[b] = "configs" /\ op'[b].token = op[b].token /\ op'[b].tx = 0
  BY ReturnFields DEF Books
<1> QED
  BY <1>1, <1>2 DEF RunInv, KeyKnown, SwapOf, KeyHeld, OnceFailed, Following, Inside, Checking,
     Unwritten

\* Before the swap.
LEMMA CheckKeeps ==
  ASSUME Books, NEW b \in Buyer, BeforeStep(b) \/ CheckStep(b) PROVE RunInv(b)'
<1>1. TypeOK /\ KeyKnown(b) /\ SwapOf(b) /\ KeyHeld(b) /\ op[b] \in OpType
  BY DEF Books, Runs, TypeOK
<1>2. CASE BeforeStep(b)
  <2>1. op'[b].tx = 0 /\ KeyKnown(b)'
    BY <1>1, <1>2, Before DEF SwapOf, Following
  <2>2. CASE pc'[b] = "gates"
    <3>1. KeyOf(b)' = KeyOf(b) /\ KeyOf(b)' \in openLocks' /\ KeyOf(b)' \notin unverified'
      BY <1>1, <1>2, <2>2, Before DEF KeyOf
    <3> QED
      BY <2>1, <2>2, <3>1 DEF RunInv, SwapOf, KeyHeld, OnceFailed, Following, Inside, Checking,
         Unwritten
  <2>3. CASE pc'[b] # "gates"
    <3>1. pc'[b] \in {"idle", "configs", "plan", "enter"}
      BY <1>1, <1>2, <2>3, Before
    <3> QED
      BY <2>1, <3>1 DEF RunInv, SwapOf, KeyHeld, OnceFailed, Following, Inside, Checking, Unwritten
  <2> QED
    BY <2>2, <2>3
<1>3. CASE CheckStep(b) /\ ~Return(b)
  <2>1. /\ pc[b] \in Checking /\ UNCHANGED <<unverified, txs, openLocks>>
        /\ op'[b].wallet = op[b].wallet /\ op'[b].token = op[b].token /\ op'[b].tx = op[b].tx
        /\ \/ pc[b] = "gates" /\ pc'[b] = "count"
           \/ pc[b] = "count" /\ pc'[b] = "dup"
           \/ pc[b] = "dup" /\ pc'[b] = "balance" /\ OpenFor(KeyOf(b)) = {}
           \/ pc[b] = "balance" /\ pc'[b] = "build"
    BY <1>1, <1>3, Checks
  <2>2. /\ KeyOf(b)' = KeyOf(b) /\ OpenFor(KeyOf(b))' = OpenFor(KeyOf(b)) /\ op[b].tx = 0
        /\ KeyOf(b) \in openLocks /\ KeyOf(b) \notin unverified
    BY <1>1, <2>1 DEF KeyOf, OpenFor, OpenRows, SwapOf, KeyHeld, Checking, Following, Inside
  <2> QED
    BY <1>1, <2>1, <2>2 DEF RunInv, KeyKnown, SwapOf, KeyHeld, OnceFailed, Following, Inside, Checking,
       Unwritten
<1>4. CASE CheckStep(b) /\ Return(b)
  <2>1. pc[b] \in Inside
    BY <1>1, <1>4, Checks DEF Checking, Inside
  <2> QED
    BY <1>4, <2>1, ReturnKeeps
<1> QED
  BY <1>2, <1>3, <1>4

\* From the swap to its verification.
LEMMA FollowKeeps ==
  ASSUME Books, NEW b \in Buyer, Broadcast(b) \/ FollowStep(b) PROVE RunInv(b)'
<1>1. TypeOK /\ KeyKnown(b) /\ SwapOf(b) /\ KeyHeld(b) /\ op[b] \in OpType
      /\ (OnceFailed(b) => faults >= 1) /\ faults \in Nat
  BY DEF Books, Runs, TypeOK
<1>2. CASE Broadcast(b)
  <2> DEFINE n == Len(txs) + 1
             o == [op[b] EXCEPT !.tx = n]
  <2>1. n \in Nat /\ n # 0 /\ n \notin DOMAIN txs /\ DOMAIN txs' = DOMAIN txs \cup {n}
        /\ txs'[n].key = KeyOf(b) /\ txs'[n].rival = op[b].rival
        /\ txs'[n].planned = op[b].planned /\ txs'[n].row = "none" /\ txs'[n].trade = "none"
        /\ \A i \in DOMAIN txs : txs'[i] = txs[i]
    BY <1>1, <1>2, SendFields
  <2>2. o.wallet = op[b].wallet /\ o.token = op[b].token /\ o.tx = n
        /\ o.rival = op[b].rival /\ o.planned = op[b].planned
    BY <1>1, <2>1 DEF OpType
  <2>3. op'[b] = o /\ pc[b] = "build" /\ pc'[b] = "confirm" /\ UNCHANGED <<openLocks, unverified>>
    BY <1>1, <1>2 DEF Broadcast, TypeOK, Goto
  <2> HIDE DEF o, n
  <2>4. KeyOf(b)' = KeyOf(b)
    BY <2>2, <2>3 DEF KeyOf
  <2>5. OpenFor(KeyOf(b))' = {}
    BY <1>1, <2>1, <2>3, <2>4 DEF OpenFor, OpenRows, KeyHeld
  <2>6. KeyOf(b) \in openLocks
    BY <1>1, <2>3 DEF KeyHeld, Inside
  <2>7. SwapOf(b)'
    BY <2>1, <2>2, <2>3, <2>4 DEF SwapOf, Following, Unwritten
  <2> QED
    BY <2>3, <2>4, <2>5, <2>6, <2>7 DEF RunInv, KeyKnown, KeyHeld, OnceFailed, Following, Inside,
       Checking, Unwritten
<1>3. CASE FollowStep(b)
  <2>1. UNCHANGED <<op, openLocks, txs>>
    BY <1>1, <1>3, Follows
  <2>2. KeyOf(b)' = KeyOf(b) /\ OpenFor(KeyOf(b))' = OpenFor(KeyOf(b))
    BY <2>1 DEF KeyOf, OpenFor, OpenRows
  <2>3. CASE pc[b] = "build" /\ pc'[b] = "failed" /\ faults' = faults + 1
    BY <1>1, <2>1, <2>2, <2>3 DEF RunInv, KeyKnown, SwapOf, KeyHeld, OnceFailed, Following, Inside,
       Checking, Unwritten
  <2>4. CASE pc[b] = "confirm" /\ pc'[b] = "failed" /\ faults' \in {faults, faults + 1}
             /\ (txs[op[b].tx].state # "dead" => faults' = faults + 1)
    BY <1>1, <2>1, <2>2, <2>4 DEF RunInv, KeyKnown, SwapOf, KeyHeld, OnceFailed, Following, Inside,
       Checking, Unwritten
  <2>5. CASE pc[b] = "confirm" /\ pc'[b] = "verify" /\ txs[op[b].tx].state = "landed"
    BY <1>1, <2>1, <2>2, <2>5 DEF RunInv, KeyKnown, SwapOf, KeyHeld, OnceFailed, Following, Inside,
       Checking, Unwritten
  <2>6. CASE pc[b] = "verify" /\ pc'[b] = "write"
    BY <1>1, <2>1, <2>2, <2>6 DEF RunInv, KeyKnown, SwapOf, KeyHeld, OnceFailed, Following, Inside,
       Checking, Unwritten
  <2>7. CASE pc[b] = "verify" /\ pc'[b] = "lost" /\ faults' = faults + 1
    BY <1>1, <2>1, <2>2, <2>7 DEF RunInv, KeyKnown, SwapOf, KeyHeld, OnceFailed, Following, Inside,
       Checking, Unwritten
  <2> QED
    BY <1>1, <1>3, <2>3, <2>4, <2>5, <2>6, <2>7, Follows
<1> QED
  BY <1>2, <1>3

\* Writing the rows.
LEMMA WriteKeeps == ASSUME Books, NEW b \in Buyer, WriteStep(b) PROVE RunInv(b)'
<1>1. TypeOK /\ KeyKnown(b) /\ SwapOf(b) /\ KeyHeld(b) /\ op[b] \in OpType
      /\ (OnceFailed(b) => faults >= 1) /\ faults \in Nat /\ pc[b] \in Inside
  BY Writes DEF Books, Runs, TypeOK
<1>2. CASE Return(b)
  BY <1>1, <1>2, ReturnKeeps
<1>3. CASE ~Return(b)
  <2>1. UNCHANGED <<op, openLocks, unverified>> /\ KeyOf(b)' = KeyOf(b)
        /\ KeyOf(b) \in openLocks
    BY <1>1, <1>3, Writes DEF KeyOf, KeyHeld
  <2>2. CASE pc'[b] \in {"alert", "notify"}
    BY <1>1, <2>1, <2>2 DEF RunInv, KeyKnown, SwapOf, KeyHeld, OnceFailed, Following, Inside,
       Checking, Unwritten
  <2>3. CASE pc[b] = "write" /\ pc'[b] = "alone"
    <3> DEFINE x == op[b].tx
    <3>1. x \in DOMAIN txs /\ x # 0 /\ txs[x].key = KeyOf(b) /\ txs[x].state = "landed"
          /\ txs[x].rival = op[b].rival /\ txs[x].planned = op[b].planned
          /\ OpenFor(KeyOf(b)) = {}
      BY <1>1, <2>3 DEF SwapOf, TypeOK, Following, Inside, OpType, KeyHeld, Unwritten
    <3>2. Moved(b)
      BY <1>1, SwapsMove, Kinds
    <3>3. txs'[x].key = KeyOf(b) /\ txs'[x].state = "landed"
          /\ txs'[x].rival = op[b].rival /\ txs'[x].planned = op[b].planned
      BY <3>1, <3>2 DEF Moved
    <3>4. OpenFor(KeyOf(b))' \subseteq {x}
      <4> SUFFICES ASSUME NEW j \in DOMAIN txs', txs'[j].row = "open", txs'[j].key = KeyOf(b)
                   PROVE  j = x
        BY <2>1 DEF OpenFor, OpenRows
      <4>1. j \in DOMAIN txs /\ txs[j].key = KeyOf(b)
        BY <3>2 DEF Moved
      <4>2. txs[j].row # "open"
        BY <3>1, <4>1 DEF OpenFor, OpenRows
      <4> QED
        BY <3>2, <4>1, <4>2 DEF Moved
    <3>5. faults' >= 1
      BY <1>1, <1>3, <2>3, <3>1, Writes
    <3> QED
      BY <2>1, <2>3, <3>1, <3>3, <3>4, <3>5 DEF RunInv, KeyKnown, SwapOf, KeyHeld, OnceFailed,
         Following, Inside, Checking, Unwritten
  <2> QED
    BY <1>1, <1>3, <2>2, <2>3, Writes
<1> QED
  BY <1>2, <1>3


\* A run's step leaves every run its invariant.
LEMMA RunsKeep == ASSUME Books, NEW b \in Buyer, RunStep(b) PROVE Runs'
<1> SUFFICES ASSUME NEW c \in Buyer PROVE RunInv(c)'
  BY DEF Runs, RunInv
<1>1. CASE c = b
  BY <1>1, Kinds, CheckKeeps, FollowKeeps, WriteKeeps
<1>2. CASE c # b
  <2>1. OnceFailed(c)' => faults' >= 1
    BY <1>2, OthersKeep, LocksMove DEF LocksMoved, Books, Runs, TypeOK
  <2> QED
    BY <1>2, <2>1, OthersKeep DEF RunInv
<1> QED
  BY <1>1, <1>2

\* A run's step keeps the types.
LEMMA RunType == ASSUME Books, NEW b \in Buyer, RunStep(b) PROVE TypeOK'
<1>0. TypeOK /\ KeyKnown(b) /\ op \in [Buyer -> OpType] /\ pc \in [Buyer -> PC]
      /\ Moved(b) /\ LocksMoved(b) /\ OthersStay(b) /\ op[b].tx \in Nat
  BY SwapsMove, LocksMove, OthersStayStep DEF Books, Runs, TypeOK, OpType
<1>1. op'[b] \in OpType /\ pc'[b] \in PC
      /\ (pc'[b] \in Inside => KeyOf(b)' \in Key /\ op'[b].tx <= Len(txs'))
  <2>1. CASE BeforeStep(b)
    BY <1>0, <2>1, Before DEF KeyOf, PC, Inside, Books, Runs, SwapOf, Following, Moved, TypeOK
  <2>2. CASE CheckStep(b)
    BY <1>0, <2>2, Checks, ReturnFields DEF KeyOf, PC, Inside, Moved, TypeOK, Checking
  <2>3. CASE Broadcast(b)
    <3> DEFINE n == Len(txs) + 1
               o == [op[b] EXCEPT !.tx = n]
    <3>1. n \in Nat /\ Len(txs') = n /\ pc[b] = "build" /\ pc'[b] = "confirm"
      BY <1>0, <2>3, SendFields DEF Broadcast, Goto
    <3>2. o \in OpType /\ o.wallet = op[b].wallet /\ o.token = op[b].token /\ o.tx = n
      BY <1>0, <3>1 DEF OpType
    <3>3. op'[b] = o
      BY <1>0, <2>3 DEF Broadcast
    <3> HIDE DEF n, o
    <3>4. KeyOf(b) \in Key /\ n <= n
      BY <1>0, <3>1 DEF TypeOK, Inside
    <3> QED
      BY <3>1, <3>2, <3>3, <3>4 DEF KeyOf, PC, Inside
  <2>4. CASE FollowStep(b)
    BY <1>0, <2>4, Follows DEF KeyOf, PC, Inside, TypeOK, Following
  <2>5. CASE WriteStep(b)
    <3>1. CASE Return(b)
      BY <1>0, <3>1, ReturnFields DEF PC, Inside
    <3>2. CASE ~Return(b)
      <4>1. UNCHANGED op /\ pc[b] \in Inside /\ pc'[b] \in {"alert", "notify", "alone"}
        BY <1>0, <2>5, <3>2, Writes
      <4>2. Len(txs) \in Nat /\ Len(txs') \in Nat
        BY <1>0 DEF TypeOK, Moved
      <4> QED
        BY <1>0, <4>1, <4>2 DEF KeyOf, PC, Inside, TypeOK, Moved
    <3> QED
      BY <3>1, <3>2
  <2> QED
    BY <2>1, <2>2, <2>3, <2>4, <2>5, Kinds
<1>2. pc' \in [Buyer -> PC] /\ op' \in [Buyer -> OpType]
  BY <1>0, <1>1 DEF OthersStay
<1>3. \A c \in Buyer : pc'[c] \in Inside => KeyOf(c)' \in Key /\ op'[c].tx <= Len(txs')
  <2> TAKE c \in Buyer
  <2>1. CASE c # b
    <3>1. pc[c] \in Inside => KeyOf(c) \in Key /\ op[c].tx <= Len(txs)
      BY <1>0 DEF TypeOK
    <3>2. op[c].tx \in Nat /\ Len(txs) \in Nat /\ Len(txs') \in Nat /\ Len(txs') >= Len(txs)
      BY <1>0 DEF TypeOK, OpType, Moved
    <3> QED
      BY <1>0, <2>1, <3>1, <3>2 DEF OthersStay, KeyOf
  <2> QED
    BY <1>1, <2>1
<1>4. runs' \in 0..MaxRuns /\ faults' \in 0..MaxFaults
  BY <1>0 DEF RunStep, Step, Failure, TypeOK, Begin, NextConfig, EndRun, CheckPlan, PlanUnknown, Enter,
     EnterUnless, Refuse, PassGates, CountOpen, CheckDuplicate, CheckBalance, CheckError, Broadcast,
     BuildFails, SwapThrows, RecordFailed, Confirmed, Verified, VerifyFails, WriteRows, WriteFails,
     RecordAlone, Notify, Fault, envVars
<1> QED
  BY <1>0, <1>2, <1>3, <1>4 DEF TypeOK, LocksMoved, Moved


\* One run per key still.
LEMMA ExclusiveKept == ASSUME Books, NEW b \in Buyer, RunStep(b) PROVE Exclusive'
<1>0. TypeOK /\ KeyKnown(b) /\ OthersStay(b) /\ \A c \in Buyer : KeyHeld(c)
  BY OthersStayStep DEF Books, Runs
<1>1. pc'[b] \in Inside => \/ pc[b] \in Inside /\ KeyOf(b)' = KeyOf(b)
                           \/ KeyOf(b) \notin openLocks /\ KeyOf(b)' = KeyOf(b)
  <2>1. CASE BeforeStep(b)
    BY <1>0, <2>1, Before DEF Inside, KeyOf
  <2>2. CASE CheckStep(b)
    BY <1>0, <2>2, Checks, ReturnFields DEF Inside, Checking, KeyOf
  <2>3. CASE Broadcast(b)
    BY <1>0, <2>3 DEF Broadcast, Inside, KeyOf, TypeOK, OpType
  <2>4. CASE FollowStep(b)
    BY <1>0, <2>4, Follows DEF Following, Inside, KeyOf
  <2>5. CASE WriteStep(b)
    BY <1>0, <2>5, Writes, ReturnFields DEF Inside, KeyOf
  <2> QED
    BY <2>1, <2>2, <2>3, <2>4, <2>5, Kinds
<1>2. ASSUME NEW c \in Buyer \ {b}, pc'[b] \in Inside, pc'[c] \in Inside, KeyOf(b)' = KeyOf(c)'
      PROVE  FALSE
  <2>1. pc[c] \in Inside /\ KeyOf(c) = KeyOf(b) /\ KeyOf(c) \in openLocks
    BY <1>0, <1>1, <1>2 DEF OthersStay, KeyOf, KeyHeld
  <2> QED
    BY <1>1, <1>2, <2>1 DEF Books, Exclusive
<1>3. ASSUME NEW c \in Buyer \ {b}, NEW d \in Buyer \ {b}, pc'[c] \in Inside, pc'[d] \in Inside,
             KeyOf(c)' = KeyOf(d)'
      PROVE  c = d
  BY <1>0, <1>3 DEF OthersStay, KeyOf, Books, Exclusive
<1> QED
  BY <1>2, <1>3 DEF Exclusive

\* A swap is followed by a run that followed it before, or sent it now.
LEMMA HandsMove ==
  ASSUME Books, NEW b \in Buyer, RunStep(b)
  PROVE  /\ \A i \in DOMAIN txs : InHand(i)' => InHand(i)
         /\ \A i \in DOMAIN txs : InHand(i) => InHand(i)' \/ (pc[b] \in Following /\ op[b].tx = i)
         /\ \A i \in DOMAIN txs' \ DOMAIN txs : InHand(i)'
<1>0. TypeOK /\ SwapOf(b) /\ OthersStay(b) /\ KeyKnown(b) /\ DOMAIN txs = 1..Len(txs)
      /\ Len(txs) \in Nat /\ op[b] \in OpType
  BY OthersStayStep DEF Books, Runs, TypeOK
<1>1. CASE Broadcast(b)
  <2>1. pc'[b] = "confirm" /\ op'[b].tx = Len(txs) + 1 /\ pc[b] = "build" /\ Len(txs) + 1 \notin DOMAIN txs
    BY <1>0, <1>1 DEF Broadcast, Goto, TypeOK, OpType
  <2>2. DOMAIN txs' = DOMAIN txs \cup {Len(txs) + 1}
    BY <1>0, <1>1, SendFields
  <2> QED
    BY <1>0, <2>1, <2>2 DEF InHand, OthersStay, Following
<1>2. CASE ~Broadcast(b)
  <2>1. pc'[b] \in Following => (pc[b] \in Following \/ op'[b].tx = 0) /\ op'[b].tx = op[b].tx
    <3>1. CASE BeforeStep(b)
      BY <1>0, <3>1, Before DEF Following
    <3>2. CASE CheckStep(b)
      BY <1>0, <3>2, Checks, ReturnFields DEF Following
    <3>4. CASE FollowStep(b)
      BY <1>0, <3>4, Follows DEF Following, SwapOf
    <3>5. CASE WriteStep(b)
      BY <1>0, <3>5, Writes, ReturnFields DEF Following
    <3> QED
      BY <1>2, <3>1, <3>2, <3>4, <3>5, Kinds
  <2>2. DOMAIN txs' = DOMAIN txs
    BY <1>2, SwapsMove DEF Moved
  <2> QED
    BY <1>0, <1>2, <2>1, <2>2 DEF InHand, OthersStay
<1> QED
  BY <1>1, <1>2

\* One tracked buy per wallet and token still: a run sends a buy only while no
\* position has its key, and no other run follows one of it.
LEMMA TrackedKept == ASSUME Books, NEW b \in Buyer, RunStep(b) PROVE OneBuyTracked'
<1>0. Moved(b) /\ TypeOK /\ SwapOf(b) /\ KeyHeld(b) /\ \A c \in Buyer : SwapOf(c)
  BY SwapsMove DEF Books, Runs
<1> DEFINE Tracked(i) == Settled(i) /\ (InHand(i) \/ txs[i].row = "open")
<1>1. ASSUME NEW i \in DOMAIN txs, Tracked(i)' PROVE Tracked(i)
  <2>1. txs[i].state = txs'[i].state /\ (InHand(i)' => InHand(i))
    BY <1>0, HandsMove DEF Moved
  <2>2. CASE txs'[i] = txs[i]
    BY <1>1, <2>1, <2>2 DEF Settled
  <2>3. CASE txs'[i] # txs[i]
    <3>1. InHand(i)
      BY <1>0, <2>3 DEF Moved, InHand
    <3>2. txs[i].row = txs'[i].row \/ txs[i].row = "none"
      BY <1>0, <2>3 DEF Moved
    <3> QED
      BY <1>1, <2>1, <3>1, <3>2 DEF Settled
  <2> QED
    BY <2>2, <2>3
<1>2. ASSUME Broadcast(b), NEW i \in DOMAIN txs, txs[i].key = KeyOf(b), Tracked(i) PROVE FALSE
  <2>0. pc[b] = "build"
    BY <1>2 DEF Broadcast
  <2>1. txs[i].row # "open"
    BY <1>0, <1>2, <2>0 DEF KeyHeld, OpenFor, OpenRows
  <2>2. PICK c \in Buyer : pc[c] \in Following /\ op[c].tx = i
    BY <1>2, <2>1 DEF InHand
  <2>3. i # 0
    BY <1>0 DEF TypeOK
  <2>4. KeyOf(c) = KeyOf(b)
    BY <1>0, <1>2, <2>2, <2>3 DEF SwapOf
  <2>5. c = b
    BY <2>0, <2>2, <2>4 DEF Books, Exclusive, Inside, Following
  <2> QED
    BY <2>0, <2>2, <2>5 DEF Following
<1>3. \A i, j \in DOMAIN txs : txs[i].key = txs[j].key /\ Tracked(i) /\ Tracked(j) => i = j
  BY DEF Books, OneBuyTracked
<1> HIDE DEF Tracked
<1>4. ASSUME NEW i \in DOMAIN txs', NEW j \in DOMAIN txs', txs'[i].key = txs'[j].key,
             Tracked(i)', Tracked(j)'
      PROVE  i = j
  <2>1. CASE i \in DOMAIN txs /\ j \in DOMAIN txs
    BY <1>0, <1>1, <1>3, <1>4, <2>1 DEF Moved
  <2>2. CASE ~(i \in DOMAIN txs /\ j \in DOMAIN txs)
    <3>1. Broadcast(b) /\ DOMAIN txs' = DOMAIN txs \cup {Len(txs) + 1}
          /\ txs'[Len(txs) + 1].key = KeyOf(b)
      BY <1>0, <2>2 DEF Moved
    <3>2. \A k \in DOMAIN txs : txs'[k].key = txs[k].key
      BY <1>0 DEF Moved
    <3> QED
      BY <1>1, <1>2, <1>4, <2>2, <3>1, <3>2
  <2> QED
    BY <2>1, <2>2
<1> QED
  BY <1>4 DEF OneBuyTracked, Tracked

\* Rows only of landed swaps, written with their trade.
LEMMA RowsKept == ASSUME Books, NEW b \in Buyer, RunStep(b) PROVE RowHasTrade'
<1>0. Moved(b) /\ TypeOK /\ SwapOf(b) /\ RowHasTrade
  BY SwapsMove DEF Books, Runs
<1> SUFFICES ASSUME NEW i \in DOMAIN txs', txs'[i].row # "none"
             PROVE  txs'[i].state = "landed" /\ txs'[i].trade = "confirmed"
  BY DEF RowHasTrade
<1>1. i \in DOMAIN txs
  BY <1>0 DEF Moved
<1>2. CASE txs'[i] = txs[i]
  BY <1>0, <1>1, <1>2 DEF RowHasTrade
<1>3. CASE txs'[i] # txs[i]
  <2>1. txs[i].trade = "none" /\ txs[i].row = "none"
    BY <1>0, <1>1, <1>3 DEF RowHasTrade, Moved
  <2>2. pc[b] = "write" /\ i = op[b].tx /\ i # 0 /\ txs'[i].trade = "confirmed"
    BY <1>0, <1>1, <1>3, <2>1 DEF Moved
  <2> QED
    BY <1>0, <1>1, <2>2 DEF SwapOf, Following, Moved
<1> QED
  BY <1>2, <1>3

\* A run gives a swap up unrecorded only after a second failure.
LEMMA FaultsKept == ASSUME Books, NEW b \in Buyer, RunStep(b) PROVE AtLeastTwoFaults'
<1>0. Moved(b) /\ LocksMoved(b) /\ TypeOK /\ SwapOf(b) /\ KeyKnown(b) /\ op[b] \in OpType
      /\ (OnceFailed(b) => faults >= 1) /\ faults \in Nat
  BY SwapsMove, LocksMove DEF Books, Runs, TypeOK
<1> SUFFICES ASSUME NEW i \in DOMAIN txs', txs'[i].state # "dead", txs'[i].trade = "none",
                    ~InHand(i)', ~crashed
             PROVE  faults' >= 2
  BY <1>0 DEF AtLeastTwoFaults, LocksMoved
<1>1. i \in DOMAIN txs /\ txs[i].state # "dead" /\ txs[i].trade = "none"
  BY <1>0, HandsMove DEF Moved
<1>2. CASE ~InHand(i)
  BY <1>0, <1>1, <1>2 DEF Books, AtLeastTwoFaults, LocksMoved
<1>3. CASE InHand(i)
  <2>1. pc[b] \in Following /\ op[b].tx = i /\ i # 0 /\ i \in DOMAIN txs
    BY <1>0, <1>1, <1>3, HandsMove DEF TypeOK
  <2>2. ~(pc'[b] \in Following /\ op'[b].tx = i)
    BY DEF InHand
  <2>3. CASE BeforeStep(b) \/ CheckStep(b) \/ Broadcast(b)
    BY <1>0, <2>1, <2>3, Before, Checks DEF Following, Inside, Checking, Broadcast
  <2>4. CASE FollowStep(b)
    BY <1>0, <2>1, <2>2, <2>4, Follows DEF Following
  <2>5. CASE WriteStep(b)
    <3>0. ASSUME NEW s \in {"failed", "confirmed"}, SetTrade(i, s) PROVE FALSE
      BY <1>0, <1>1, <3>0, SetTradeFields
    <3>1. SetRows(i) => FALSE
      BY <1>0, <1>1, SetRowsFields
    <3>2. CASE Return(b) /\ pc[b] = "failed"
      <4>1. faults' = faults + 1
        BY <1>0, <2>1, <2>5, <3>0, <3>2, Writes
      <4>2. OnceFailed(b)
        BY <1>1, <2>1, <3>2 DEF OnceFailed
      <4> QED
        BY <1>0, <4>1, <4>2
    <3>3. CASE Return(b) /\ pc[b] = "alone"
      <4>1. faults' = faults + 1
        BY <1>0, <1>1, <2>1, <2>5, <3>3, Writes, ReturnFields
      <4>2. OnceFailed(b)
        BY <3>3 DEF OnceFailed
      <4> QED
        BY <1>0, <4>1, <4>2
    <3>4. CASE Return(b) /\ pc[b] \in {"alert", "notify"}
      BY <2>1, <3>4 DEF Following
    <3>5. CASE ~Return(b) /\ pc[b] = "lost"
      <4>1. faults' = faults + 1
        BY <1>0, <2>1, <2>5, <3>0, <3>5, Writes
      <4>2. OnceFailed(b)
        BY <3>5 DEF OnceFailed
      <4> QED
        BY <1>0, <4>1, <4>2
    <3>6. CASE ~Return(b) /\ pc[b] \in {"write", "alone"}
      BY <1>0, <2>1, <2>2, <2>5, <3>0, <3>1, <3>6, Writes DEF Following
    <3> QED
      BY <1>0, <2>5, <3>2, <3>3, <3>4, <3>5, <3>6, Writes, ReturnFields
  <2> QED
    BY <2>3, <2>4, <2>5, Kinds
<1> QED
  BY <1>2, <1>3


-----------------------------------------------------------------------------
\* --- The surroundings ---------------------------------------------------------------

Surrounding == ChainStep \/ (\E i \in DOMAIN txs : Sell(i)) \/ (\E k \in Key : LockLapses(k))

\* The chain settles swaps, the sell side closes positions, locks lapse; no run
\* moves.
LEMMA Around ==
  ASSUME TypeOK, Surrounding
  PROVE  /\ UNCHANGED <<pc, op, openLocks, runs, maxOpen, crashed>> /\ unverified' \subseteq unverified
         /\ faults' \in {faults, faults + 1} /\ faults' \in 0..MaxFaults /\ sol' \in [Wallet -> Nat]
         /\ txs' \in Seq(TxType) /\ Len(txs') = Len(txs) /\ DOMAIN txs' = DOMAIN txs
         /\ \A i \in DOMAIN txs :
              /\ txs'[i].key = txs[i].key /\ txs'[i].trade = txs[i].trade
              /\ txs'[i].rival = txs[i].rival /\ txs'[i].planned = txs[i].planned
              /\ \/ txs'[i].state = txs[i].state
                 \/ txs[i].state = "pending" /\ txs'[i].state \in {"landed", "dead"}
              /\ txs'[i].row = txs[i].row \/ (txs[i].row = "open" /\ txs'[i].row = "closed")
<1>0. sol \in [Wallet -> Nat] /\ faults \in 0..MaxFaults /\ txs \in Seq(TxType)
  BY DEF TypeOK
<1>1. ASSUME NEW i \in DOMAIN txs, Land(i) PROVE sol' \in [Wallet -> Nat]
  <2> DEFINE w == txs[i].key[1]
             n == sol[w] - 1
  <2>1. w \in Wallet
    BY SwapType
  <2>2. n \in Nat /\ sol' = [sol EXCEPT ![w] = n]
    BY <1>0, <1>1, <2>1 DEF Land
  <2> HIDE DEF n, w
  <2> QED
    BY <1>0, <2>1, <2>2
<1>2. ASSUME NEW i \in DOMAIN txs, Sell(i) PROVE sol' \in [Wallet -> Nat]
  <2> DEFINE w == txs[i].key[1]
             n == sol[w] + 1
  <2>1. w \in Wallet
    BY SwapType
  <2>2. n \in Nat /\ sol' = [sol EXCEPT ![w] = n]
    BY <1>0, <1>2, <2>1 DEF Sell
  <2> HIDE DEF n, w
  <2> QED
    BY <1>0, <2>1, <2>2
<1>3. CASE \E i \in DOMAIN txs : Land(i)
  <2>1. PICK i \in DOMAIN txs : Land(i)
    BY <1>3
  <2>2. txs[i].state = "pending" /\ txs' = [txs EXCEPT ![i].state = "landed"]
        /\ UNCHANGED <<pc, op, openLocks, unverified, runs, maxOpen, crashed, faults>>
    BY <2>1 DEF Land, procVars
  <2> QED
    BY <1>0, <1>1, <2>1, <2>2, SetStateFields
<1>4. CASE \E i \in DOMAIN txs : Drop(i)
  <2>1. PICK i \in DOMAIN txs : Drop(i)
    BY <1>4
  <2>2. txs[i].state = "pending" /\ txs' = [txs EXCEPT ![i].state = "dead"]
        /\ UNCHANGED <<pc, op, openLocks, unverified, runs, maxOpen, crashed, sol>>
    BY <2>1 DEF Drop, procVars
  <2>3. faults' \in {faults, faults + 1} /\ faults' \in 0..MaxFaults
    BY <1>0, <2>1 DEF Drop, Fault
  <2> QED
    BY <1>0, <2>1, <2>2, <2>3, SetStateFields
<1>5. CASE \E i \in DOMAIN txs : Sell(i)
  <2>1. PICK i \in DOMAIN txs : Sell(i)
    BY <1>5
  <2>2. txs[i].row = "open"
        /\ UNCHANGED <<pc, op, openLocks, unverified, runs, maxOpen, crashed, faults>>
    BY <2>1 DEF Sell, procVars
  <2> QED
    BY <1>0, <1>2, <2>1, <2>2, SellFields
<1>6. CASE \E k \in Key : LockLapses(k)
  BY <1>0, <1>6 DEF LockLapses, envVars
<1> QED
  BY <1>3, <1>4, <1>5, <1>6 DEF Surrounding, ChainStep

\* They leave the books as they are.
LEMMA AroundKeeps == ASSUME Books, Surrounding PROVE Books'
<1>0. TypeOK /\ UNCHANGED <<pc, op, openLocks, runs, maxOpen, crashed>> /\ unverified' \subseteq unverified
      /\ faults' \in {faults, faults + 1} /\ faults' \in 0..MaxFaults /\ sol' \in [Wallet -> Nat]
      /\ txs' \in Seq(TxType) /\ Len(txs') = Len(txs) /\ DOMAIN txs' = DOMAIN txs /\ faults \in Nat
      /\ DOMAIN txs = 1..Len(txs) /\ Len(txs) \in Nat
  BY Around DEF Books, TypeOK
<1> DEFINE Change(i) ==
      /\ txs'[i].key = txs[i].key /\ txs'[i].trade = txs[i].trade
      /\ txs'[i].rival = txs[i].rival /\ txs'[i].planned = txs[i].planned
      /\ \/ txs'[i].state = txs[i].state
         \/ txs[i].state = "pending" /\ txs'[i].state \in {"landed", "dead"}
      /\ txs'[i].row = txs[i].row \/ (txs[i].row = "open" /\ txs'[i].row = "closed")
<1>1. \A i \in DOMAIN txs : Change(i)
  BY <1>0, Around
<1>2. TypeOK'
  BY <1>0 DEF TypeOK, KeyOf
<1>3. Exclusive'
  BY <1>0 DEF Books, Exclusive, KeyOf
<1>4. RowHasTrade'
  BY <1>0, <1>1 DEF Books, RowHasTrade
<1>5. \A i \in DOMAIN txs : InHand(i)' <=> InHand(i)
  BY <1>0 DEF InHand
<1>6. OneBuyTracked'
  BY <1>0, <1>1, <1>5 DEF Books, OneBuyTracked, Settled
<1>7. AtLeastTwoFaults'
  <2> SUFFICES ASSUME NEW i \in DOMAIN txs, txs'[i].state # "dead", txs'[i].trade = "none",
                      ~InHand(i)', ~crashed
               PROVE  faults' >= 2
    BY <1>0 DEF AtLeastTwoFaults
  <2>1. txs[i].state # "dead" /\ txs[i].trade = "none" /\ ~InHand(i)
    BY <1>1, <1>5
  <2>2. faults >= 2
    BY <2>1 DEF Books, AtLeastTwoFaults
  <2> QED
    BY <1>0, <2>2
<1>8. ASSUME NEW c \in Buyer PROVE RunInv(c)'
  <2>1. KeyKnown(c) /\ SwapOf(c) /\ KeyHeld(c) /\ (OnceFailed(c) => faults >= 1)
    BY DEF Books, Runs
  <2>2. KeyOf(c)' = KeyOf(c) /\ op'[c] = op[c] /\ pc'[c] = pc[c]
    BY <1>0 DEF KeyOf
  <2>3. pc[c] \in Following /\ op[c].tx # 0 => op[c].tx \in DOMAIN txs /\ Change(op[c].tx)
    BY <1>0, <1>1 DEF TypeOK, OpType, Following, Inside
  <2>4. OpenFor(KeyOf(c))' \subseteq OpenFor(KeyOf(c))
    BY <1>0, <1>1, <2>2 DEF OpenFor, OpenRows
  <2>5. SwapOf(c)'
    BY <2>1, <2>2, <2>3 DEF SwapOf
  <2>6. OnceFailed(c)' => OnceFailed(c)
    BY <2>2, <2>3 DEF OnceFailed, Following
  <2> QED
    BY <1>0, <2>1, <2>2, <2>4, <2>5, <2>6 DEF RunInv, KeyKnown, KeyHeld
<1> QED
  BY <1>2, <1>3, <1>4, <1>6, <1>7, <1>8 DEF Books, Runs, RunInv

\* A restart forgets the runs and the locks.
LEMMA CrashKeeps == ASSUME Books, Crash PROVE Books'
<1>0. TypeOK /\ UNCHANGED <<txs, sol, runs, maxOpen>> /\ crashed' = TRUE /\ openLocks' = {}
      /\ unverified' = {} /\ (\A b \in Buyer : pc'[b] = "idle" /\ op'[b] = Idle)
      /\ pc' = [b \in Buyer |-> "idle"] /\ op' = [b \in Buyer |-> Idle]
      /\ faults < MaxFaults /\ faults' = faults + 1
  BY DEF Crash, Fault, Books
<1>1. Idle \in OpType /\ Idle.tx = 0
  BY DEF Idle, OpType
<1>2. TypeOK'
  BY <1>0, <1>1 DEF TypeOK, PC, Inside
<1>3. Runs' /\ Exclusive' /\ AtLeastTwoFaults'
  BY <1>0, <1>1 DEF Runs, KeyKnown, SwapOf, KeyHeld, OnceFailed, Exclusive, AtLeastTwoFaults, Inside,
     Following, Checking, Unwritten
<1>4. RowHasTrade'
  BY <1>0 DEF Books, RowHasTrade
<1>5. OneBuyTracked'
  <2>1. \A i : ~InHand(i)'
    BY <1>0 DEF InHand, Following
  <2> QED
    BY <1>0, <2>1 DEF Books, OneBuyTracked, Settled
<1> QED
  BY <1>2, <1>3, <1>4, <1>5 DEF Books

\* Every step is a run's, the surroundings' or a restart.
LEMMA Steps == Next <=> (\E b \in Buyer : RunStep(b)) \/ Surrounding \/ Crash
BY DEF Next, RunStep, Surrounding

\* The books at the start.
LEMMA BooksInit == Init => Books
<1> SUFFICES ASSUME Init PROVE Books
  OBVIOUS
<1>1. Idle \in OpType /\ Idle.tx = 0
  BY DEF Idle, OpType
<1>2. txs \in Seq(TxType) /\ DOMAIN txs = {} /\ Len(txs) = 0
  BY DEF Init
<1>3. PICK s \in Setups : sol = [w \in Wallet |-> s[1]] /\ maxOpen = s[2]
  BY DEF Init
<1>4. TypeOK
  <2>1. s[1] \in Nat /\ s[2] \in Nat
    BY SetupAssumption
  <2>2. sol \in [Wallet -> Nat] /\ maxOpen \in Nat
    BY <1>3, <2>1
  <2>3. pc \in [Buyer -> PC] /\ op \in [Buyer -> OpType] /\ \A b \in Buyer : pc[b] \notin Inside
    BY <1>1 DEF Init, PC, Inside
  <2>4. runs \in 0..MaxRuns /\ faults \in 0..MaxFaults
    BY DEF Init
  <2> QED
    BY <1>2, <2>2, <2>3, <2>4 DEF Init, TypeOK
<1>5. Runs /\ Exclusive /\ OneBuyTracked /\ RowHasTrade /\ AtLeastTwoFaults
  BY <1>1, <1>2 DEF Init, Runs, KeyKnown, SwapOf, KeyHeld, OnceFailed, Exclusive, OneBuyTracked,
     RowHasTrade, AtLeastTwoFaults, Inside, Following, Checking, Unwritten
<1> QED
  BY <1>4, <1>5 DEF Books

\* Every step keeps the books.
LEMMA BooksStep == Books /\ [Next]_vars => Books'
<1> SUFFICES ASSUME Books, [Next]_vars PROVE Books'
  OBVIOUS
<1>1. ASSUME NEW b \in Buyer, RunStep(b) PROVE Books'
  BY <1>1, RunType, RunsKeep, ExclusiveKept, TrackedKept, RowsKept, FaultsKept DEF Books
<1>2. CASE UNCHANGED vars
  BY <1>2 DEF vars, procVars, envVars, Books, TypeOK, Runs, KeyKnown, SwapOf, KeyHeld, OnceFailed,
     Exclusive, OneBuyTracked, RowHasTrade, AtLeastTwoFaults, KeyOf, OpenFor, OpenRows, InHand, Settled
<1> QED
  BY <1>1, <1>2, AroundKeeps, CrashKeeps, Steps

\* The books of the buy side, with what makes them inductive: what each run may
\* rely on at its place, and one run per key inside openPosition.
THEOREM BooksKept == Spec => []Books
BY BooksInit, BooksStep, PTL DEF Spec

\* BuysAreSound, for every number of runs, wallets, tokens and failures.
THEOREM BuysSound == Spec => []BuysAreSound
<1>1. Books => BuysAreSound
  BY DEF Books, BuysAreSound, LandedIsRecorded, AtLeastTwoFaults, Swaps
<1> QED
  BY <1>1, BooksKept, PTL

\* A run broadcasts a buy only with its key out of unverifiedSwapLocks: the key
\* it holds in openLocks cannot become unverified by another run.
THEOREM UnverifiedHoldsBuys == Spec => NoBuyWhileUnverified
<1> DEFINE A == \A i \in DOMAIN txs' \ DOMAIN txs : txs'[i].key \notin unverified
<1>1. Books /\ [Next]_vars => [A]_vars
  <2> SUFFICES ASSUME Books, [Next]_vars PROVE [A]_vars
    OBVIOUS
  <2>1. ASSUME NEW b \in Buyer, RunStep(b) PROVE A
    <3> SUFFICES ASSUME NEW i \in DOMAIN txs' \ DOMAIN txs PROVE txs'[i].key \notin unverified
      OBVIOUS
    <3>1. Broadcast(b) /\ txs'[i].key = KeyOf(b)
      BY <2>1, SwapsMove DEF Moved
    <3>2. KeyOf(b) \notin unverified
      BY <3>1 DEF Broadcast, Books, Runs, KeyHeld, Checking
    <3> QED
      BY <3>1, <3>2
  <2>2. Surrounding \/ Crash => DOMAIN txs' = DOMAIN txs
    BY Around DEF Books, Crash
  <2> QED
    BY <2>1, <2>2, Steps
<1> QED
  BY <1>1, BooksKept, PTL DEF Spec, NoBuyWhileUnverified
-----------------------------------------------------------------------------
\* --- The limits -----------------------------------------------------------------------

\* Sets of swaps are finite.
LEMMA SwapsFinite ==
  ASSUME TypeOK, NEW S \in SUBSET DOMAIN txs
  PROVE  /\ IsFiniteSet(S) /\ Cardinality(S) \in Nat
         /\ \A T \in SUBSET S : IsFiniteSet(T) /\ Cardinality(T) \in Nat
                                /\ Cardinality(T) <= Cardinality(S)
<1>1. DOMAIN txs = 1..Len(txs) /\ Len(txs) \in Nat
  BY DEF TypeOK
<1>2. IsFiniteSet(DOMAIN txs)
  BY <1>1, FS_Interval
<1>3. IsFiniteSet(S)
  BY <1>2, FS_Subset
<1> QED
  BY <1>3, FS_Subset, FS_CardinalityType

\* One more swap, or one less.
LEMMA OneMore ==
  ASSUME TypeOK, NEW S \in SUBSET DOMAIN txs, NEW i
  PROVE  /\ Cardinality(S \cup {i}) \in Nat /\ Cardinality(S \cup {i}) <= Cardinality(S) + 1
         /\ i \notin S => Cardinality(S \cup {i}) = Cardinality(S) + 1
         /\ Cardinality(S \ {i}) \in Nat /\ Cardinality(S \ {i}) + 1 >= Cardinality(S)
<1>1. IsFiniteSet(S) /\ Cardinality(S) \in Nat
  BY SwapsFinite
<1>2. IsFiniteSet(S \cup {i})
      /\ Cardinality(S \cup {i}) = IF i \in S THEN Cardinality(S) ELSE Cardinality(S) + 1
  BY <1>1, FS_AddElement
<1>3. IsFiniteSet(S \ {i})
      /\ Cardinality(S \ {i}) = IF i \in S THEN Cardinality(S) - 1 ELSE Cardinality(S)
  BY <1>1, FS_RemoveElement
<1>4. Cardinality(S \cup {i}) \in Nat /\ Cardinality(S \ {i}) \in Nat
  BY <1>2, <1>3, FS_CardinalityType
<1> QED
  BY <1>1, <1>2, <1>3, <1>4

\* What a run's step does to a set of open rows that a swap's rival and planned
\* marks and key select: it adds the swap whose rows it writes, if that is one.
LEMMA RowsMove ==
  ASSUME Books, NEW b \in Buyer, RunStep(b)
  PROVE  \/ /\ OpenRows' = OpenRows
            /\ \A i \in OpenRows : txs'[i].key = txs[i].key /\ txs'[i].rival = txs[i].rival
                                   /\ txs'[i].planned = txs[i].planned
         \/ /\ pc[b] = "write" /\ pc'[b] \in {"notify", "alone"}
            /\ OpenRows' = OpenRows \cup {op[b].tx} /\ op[b].tx \notin OpenRows
            /\ op[b].tx \in DOMAIN txs
            /\ \A i \in OpenRows \cup {op[b].tx} :
                 txs'[i].key = txs[i].key /\ txs'[i].rival = txs[i].rival
                 /\ txs'[i].planned = txs[i].planned
            /\ txs[op[b].tx].key = KeyOf(b) /\ txs[op[b].tx].rival = op[b].rival
            /\ txs[op[b].tx].planned = op[b].planned
<1>0. TypeOK /\ SwapOf(b) /\ Moved(b) /\ DOMAIN txs = 1..Len(txs)
  BY SwapsMove DEF Books, Runs, TypeOK
<1>1. \A i \in DOMAIN txs' \ DOMAIN txs : txs'[i].row # "open"
  BY <1>0 DEF Moved
<1>2. CASE \A i \in DOMAIN txs : txs'[i].row = txs[i].row
  <2>1. OpenRows' = OpenRows
    BY <1>0, <1>1, <1>2 DEF OpenRows, Moved
  <2> QED
    BY <1>0, <2>1 DEF OpenRows, Moved
<1>3. CASE \E i \in DOMAIN txs : txs'[i].row # txs[i].row
  <2>1. PICK i \in DOMAIN txs : txs'[i].row # txs[i].row
    BY <1>3
  <2>2. pc[b] = "write" /\ pc'[b] \in {"notify", "alone"} /\ i = op[b].tx /\ i # 0
        /\ txs[i].row = "none" /\ txs'[i].row = "open"
    BY <1>0, <2>1 DEF Moved
  <2>3. \A j \in DOMAIN txs \ {i} : txs'[j].row = txs[j].row
    BY <1>0, <2>2 DEF Moved
  <2>4. OpenRows' = OpenRows \cup {i} /\ i \notin OpenRows
    BY <1>0, <1>1, <2>1, <2>2, <2>3 DEF OpenRows, Moved
  <2>5. txs[i].key = KeyOf(b) /\ txs[i].rival = op[b].rival /\ txs[i].planned = op[b].planned
    BY <1>0, <2>2 DEF SwapOf, Following
  <2> QED
    BY <1>0, <2>1, <2>2, <2>4, <2>5 DEF OpenRows, Moved
<1> QED
  BY <1>2, <1>3

\* The wallet's rows without rivals: one more, if this run had none.
LEMMA FreshMove ==
  ASSUME Books, NEW b \in Buyer, RunStep(b), NEW w \in Wallet
  PROVE  \/ Fresh(w)' = Fresh(w)
         \/ /\ pc[b] = "write" /\ pc'[b] \in {"notify", "alone"}
            /\ ~op[b].rival /\ op[b].wallet = w
            /\ Fresh(w)' = Fresh(w) \cup {op[b].tx}
BY RowsMove DEF Fresh, OpenIn, KeyOf

\* A run gets past the count, or stays past it.
LEMMA CountedMove ==
  ASSUME Books, NEW b \in Buyer, RunStep(b), pc'[b] \in Counted
  PROVE  /\ op'[b].wallet = op[b].wallet /\ op[b].wallet \in Wallet
         /\ \/ /\ pc[b] \in Counted /\ (op[b].rival => op'[b].rival)
               /\ pc'[b] \notin {"alone", "alert"} => pc[b] \notin {"alone", "alert"}
            \/ /\ pc[b] = "count" /\ pc'[b] = "dup"
               /\ Cardinality(OpenIn(op[b].wallet)) < maxOpen
               /\ op'[b].rival = RivalAt(b, Counted)
<1>0. TypeOK /\ KeyKnown(b) /\ op[b] \in OpType /\ op \in [Buyer -> OpType] /\ pc \in [Buyer -> PC]
  BY DEF Books, Runs, TypeOK
<1>1. Inside \ {"gates", "count", "notify"} = Counted
  BY DEF Inside, Counted, Following
<1>2. CASE BeforeStep(b)
  BY <1>0, <1>2, Before DEF Counted, Following
<1>3. CASE CheckStep(b)
  <2>1. op[b].wallet \in Wallet
    BY <1>0, <1>3, Checks DEF TypeOK, Checking, Inside, KeyOf, Key
  <2>2. ~Return(b)
    BY <1>0, ReturnFields DEF Counted, Following
  <2> QED
    BY <1>0, <1>1, <1>3, <2>1, <2>2, Checks DEF Counted
<1>4. CASE Broadcast(b)
  <2>1. pc[b] = "build" /\ op' = [op EXCEPT ![b].tx = Len(txs) + 1] /\ pc'[b] = "confirm"
    BY <1>0, <1>4 DEF Broadcast, Goto
  <2>2. op'[b].wallet = op[b].wallet /\ op'[b].rival = op[b].rival
    BY <1>0, <2>1 DEF OpType
  <2> QED
    BY <1>0, <2>1, <2>2 DEF Counted, TypeOK, Inside, KeyOf, Key
<1>5. CASE FollowStep(b)
  <2>1. UNCHANGED op /\ pc[b] \in {"build", "confirm", "verify"}
        /\ pc'[b] \in {"failed", "verify", "write", "lost"}
    BY <1>0, <1>5, Follows
  <2> QED
    BY <1>0, <2>1 DEF Counted, Following, TypeOK, Inside, KeyOf, Key
<1>6. CASE WriteStep(b)
  <2>1. \/ UNCHANGED op /\ pc[b] \in {"lost", "write", "alone"} /\ pc'[b] \in {"alert", "alone"}
        \/ Return(b)
    BY <1>0, <1>6, Writes DEF Counted, Following
  <2> QED
    BY <1>0, <2>1, ReturnFields DEF Counted, Following, TypeOK, Inside, KeyOf, Key
<1> QED
  BY <1>2, <1>3, <1>4, <1>5, <1>6, Kinds

\* The count of a wallet's rows without rivals stays within maxOpenPositions: a
\* run counts while no other is past its count, or has a rival.
LEMMA CountKept == ASSUME Books, CountInv, NEW b \in Buyer, RunStep(b) PROVE CountInv'
<1>0. TypeOK /\ OthersStay(b) /\ maxOpen' = maxOpen /\ maxOpen \in Nat
      /\ \A w \in Wallet : Fresh(w) \subseteq OpenIn(w) /\ OpenIn(w) \subseteq DOMAIN txs
  BY OthersStayStep, LocksMove DEF Books, TypeOK, LocksMoved, Fresh, OpenIn, OpenRows
<1>1. \A w \in Wallet : Cardinality(Fresh(w)) \in Nat /\ Cardinality(OpenIn(w)) \in Nat
        /\ Cardinality(Fresh(w)) <= Cardinality(OpenIn(w))
  BY <1>0, SwapsFinite
<1>2. ASSUME NEW w \in Wallet PROVE Cardinality(Fresh(w))' <= maxOpen
  <2>1. CASE Fresh(w)' = Fresh(w)
    BY <2>1 DEF CountInv
  <2>2. CASE pc[b] = "write" /\ ~op[b].rival /\ op[b].wallet = w /\ Fresh(w)' = Fresh(w) \cup {op[b].tx}
    <3>1. Cardinality(Fresh(w)) < maxOpen
      BY <2>2 DEF CountInv, Counted, Following
    <3>2. Cardinality(Fresh(w) \cup {op[b].tx}) <= Cardinality(Fresh(w)) + 1
          /\ Cardinality(Fresh(w) \cup {op[b].tx}) \in Nat
      BY <1>0, OneMore
    <3> QED
      BY <1>0, <1>1, <2>2, <3>1, <3>2
  <2> QED
    BY <2>1, <2>2, FreshMove
<1>3. ASSUME pc'[b] \in Counted, ~op'[b].rival
      PROVE  /\ op'[b].wallet \in Wallet
             /\ \A d \in Buyer \ {b} :
                  pc'[d] \in Counted /\ op'[d].wallet = op'[b].wallet => op'[d].rival
             /\ pc'[b] \in Counted \ {"alone", "alert"} =>
                  Cardinality(Fresh(op[b].wallet))' < maxOpen
  <2>0. PICK w \in Wallet : w = op[b].wallet
    BY <1>3, CountedMove
  <2>1. op'[b].wallet = w
    BY <1>3, <2>0, CountedMove
  <2>2. pc'[b] # "alone" => Fresh(w)' = Fresh(w)
    BY <1>3, <2>0, FreshMove DEF Counted, Following
  <2>3. CASE pc[b] \in Counted /\ ~op[b].rival
             /\ (pc'[b] \notin {"alone", "alert"} => pc[b] \notin {"alone", "alert"})
    <3>1. Cardinality(Fresh(w))' < maxOpen \/ pc'[b] \in {"alone", "alert"}
      BY <1>0, <2>0, <2>2, <2>3 DEF CountInv, Counted
    <3> QED
      BY <1>0, <2>0, <2>1, <2>3, <3>1 DEF CountInv, OthersStay
  <2>4. CASE /\ pc[b] = "count" /\ pc'[b] = "dup"
             /\ Cardinality(OpenIn(op[b].wallet)) < maxOpen
             /\ op'[b].rival = RivalAt(b, Counted)
    <3>1. \A d \in Buyer \ {b} : ~(pc[d] \in Counted /\ op[d].wallet = w)
      BY <1>3, <2>0, <2>4 DEF RivalAt
    <3>2. Cardinality(Fresh(w)) < maxOpen
      BY <1>0, <1>1, <2>0, <2>4
    <3>3. Cardinality(Fresh(w))' < maxOpen
      BY <2>2, <2>4, <3>2
    <3> QED
      BY <1>0, <2>1, <2>4, <3>1, <3>3 DEF OthersStay
  <2> QED
    BY <1>3, <2>0, <2>3, <2>4, CountedMove
<1>4. ASSUME NEW c \in Buyer \ {b}, pc'[c] \in Counted, ~op'[c].rival
      PROVE  /\ \A d \in Buyer \ {c} :
                  pc'[d] \in Counted /\ op'[d].wallet = op'[c].wallet => op'[d].rival
             /\ pc'[c] \in Counted \ {"alone", "alert"} =>
                  Cardinality(Fresh(op[c].wallet))' < maxOpen
  <2>0. pc'[c] = pc[c] /\ op'[c] = op[c] /\ c \in Buyer /\ op[c].wallet \in Wallet
    BY <1>0, <1>4 DEF OthersStay, TypeOK, Counted, Following, Inside, KeyOf, Key
  <2>1. PICK w \in Wallet : w = op[c].wallet
    BY <2>0
  <2>2. \A d \in Buyer \ {c} : pc[d] \in Counted /\ op[d].wallet = w => op[d].rival
    BY <1>4, <2>0, <2>1 DEF CountInv
  <2>3. pc'[b] \in Counted /\ op'[b].wallet = w => op'[b].rival
    <3> SUFFICES ASSUME pc'[b] \in Counted, op'[b].wallet = w PROVE op'[b].rival
      OBVIOUS
    <3>1. op[b].wallet = w
      BY CountedMove
    <3>2. RivalAt(b, Counted)
      BY <1>4, <2>0, <2>1, <3>1 DEF RivalAt
    <3> QED
      BY <2>2, <3>1, <3>2, CountedMove
  <2>4. Fresh(w)' = Fresh(w)
    BY <2>0, <2>1, <2>2, FreshMove DEF Counted, Following
  <2> QED
    <3>1. pc'[c] \in Counted \ {"alone", "alert"} => Cardinality(Fresh(w))' < maxOpen
      BY <1>4, <2>0, <2>1, <2>4 DEF CountInv
    <3> QED
      BY <1>0, <1>4, <2>0, <2>1, <2>2, <2>3, <3>1 DEF OthersStay
<1>5. ASSUME NEW c \in Buyer, pc'[c] \in Counted, ~op'[c].rival
      PROVE  /\ \A d \in Buyer \ {c} :
                  pc'[d] \in Counted /\ op'[d].wallet = op'[c].wallet => op'[d].rival
             /\ pc'[c] \in Counted \ {"alone", "alert"} =>
                  Cardinality(Fresh(op[c].wallet))' < maxOpen
  BY <1>3, <1>4, <1>5
<1> QED
  BY <1>0, <1>2, <1>5 DEF CountInv

\* A run is planned by its plan check and stays so until its row is written; only
\* launches ask for the plan.
LEMMA PlannedMove ==
  ASSUME Books, PlanInv, NEW b \in Buyer, RunStep(b)
  PROVE  /\ pc'[b] = "plan" => b \in Launch
         /\ op'[b].planned =>
              \/ /\ op[b].planned /\ pc'[b] \in Inside \cup {"enter"}
                 /\ pc'[b] \notin {"alone", "alert", "notify"} =>
                      pc[b] \notin {"alone", "alert", "notify"}
              \/ /\ pc[b] = "plan" /\ pc'[b] = "enter" /\ b \in Launch /\ ~op[b].planned
                 /\ Cardinality(OpenRows) < PlanMax
                 /\ \A c \in Launch \ {b} : pc[c] \notin Inside \cup {"enter"}
<1>0. TypeOK /\ KeyKnown(b) /\ op[b] \in OpType /\ op \in [Buyer -> OpType] /\ pc \in [Buyer -> PC]
      /\ (op[b].planned => pc[b] \in Inside \cup {"enter"})
      /\ (pc[b] = "plan" => b \in Launch)
  BY DEF Books, Runs, TypeOK, PlanInv
<1>1. CASE Begin(b)
  <2>1. op'[b].planned = op[b].planned /\ pc[b] = "idle" /\ pc'[b] = "configs"
    BY <1>0, <1>1 DEF Begin, Goto, OpType
  <2> QED
    BY <1>0, <2>1 DEF Inside
<1>2. CASE NextConfig(b)
  <2>1. op'[b].planned = op[b].planned /\ pc[b] = "configs"
        /\ (pc'[b] = "plan" => b \in Launch)
    BY <1>0, <1>2 DEF NextConfig, Goto, OpType
  <2> QED
    BY <1>0, <2>1 DEF Inside
<1>3. CASE EndRun(b)
  <2>1. op'[b].planned = FALSE /\ pc'[b] = "idle"
    BY <1>0, <1>3 DEF EndRun, Goto, Idle
  <2> QED
    BY <2>1
<1>4. CASE CheckPlan(b)
  <2>0. pc[b] = "plan" /\ ~op[b].planned
    BY <1>0, <1>4 DEF CheckPlan, Inside
  <2>1. CASE Goto(b, "configs") /\ op' = [op EXCEPT ![b].todo = @ \ {op[b].wallet}]
    <3>1. op'[b].planned = op[b].planned /\ pc'[b] = "configs"
      BY <1>0, <2>1 DEF Goto, OpType
    <3> QED
      BY <2>0, <3>1
  <2>2. CASE ~PlanBlocks(Cardinality(OpenRows))
    <3> DEFINE p == \A c \in Launch \ {b} : pc[c] \notin Inside \cup {"enter"}
    <3>1. op' = [op EXCEPT ![b].planned = p] /\ pc'[b] = "enter"
      BY <1>0, <1>4, <2>2 DEF CheckPlan, Goto
    <3>2. Cardinality(OpenRows) < PlanMax
      <4>1. Cardinality(OpenRows) \in Nat
        BY <1>0, SwapsFinite DEF OpenRows
      <4> QED
        BY <2>2, <4>1 DEF PlanBlocks
    <3> HIDE DEF p
    <3>3. op'[b].planned = p
      BY <1>0, <3>1 DEF OpType
    <3> QED
      BY <1>0, <2>0, <3>1, <3>2, <3>3 DEF p
  <2> QED
    BY <1>4, <2>1, <2>2 DEF CheckPlan
<1>5. CASE PlanUnknown(b)
  BY <1>0, <1>5 DEF PlanUnknown, Goto
<1>6. CASE Enter(b)
  <2>1. CASE KeyOf(b) \in openLocks \cup unverified
    <3>1. op'[b].planned = FALSE /\ pc'[b] = "configs"
      BY <1>0, <1>6, <2>1 DEF Enter, EnterUnless, Goto, OpType
    <3> QED
      BY <3>1
  <2>2. CASE KeyOf(b) \notin openLocks \cup unverified
    <3>1. op' = op /\ pc[b] = "enter" /\ pc'[b] = "gates"
      BY <1>0, <1>6, <2>2 DEF Enter, EnterUnless, Goto
    <3> QED
      BY <1>0, <3>1 DEF Inside
  <2> QED
    BY <2>1, <2>2
<1>7. CASE CheckStep(b)
  BY <1>0, <1>7, Checks, ReturnFields DEF Inside, Checking
<1>8. CASE Broadcast(b)
  <2>1. op'[b].planned = op[b].planned /\ pc'[b] = "confirm" /\ pc[b] = "build"
    BY <1>0, <1>8 DEF Broadcast, Goto, OpType
  <2> QED
    BY <1>0, <2>1 DEF Inside
<1>9. CASE FollowStep(b)
  <2>1. UNCHANGED op /\ pc[b] \in {"build", "confirm", "verify"}
        /\ pc'[b] \in {"failed", "verify", "write", "lost"}
    BY <1>0, <1>9, Follows
  <2> QED
    BY <1>0, <2>1 DEF Inside
<1>10. CASE WriteStep(b)
  <2>1. \/ UNCHANGED op /\ pc'[b] \in {"alert", "alone", "notify"}
        \/ Return(b)
    BY <1>0, <1>10, Writes
  <2> QED
    BY <1>0, <2>1, ReturnFields DEF Inside
<1> QED
  BY <1>1, <1>2, <1>3, <1>4, <1>5, <1>6, <1>7, <1>8, <1>9, <1>10, Kinds DEF BeforeStep

\* Planned rows stay within the plan: one launch at most is planned, from the
\* check of its plan until it has left openPosition.
LEMMA PlanKept == ASSUME Books, PlanInv, NEW b \in Buyer, RunStep(b) PROVE PlanInv'
<1>0. TypeOK /\ OthersStay(b) /\ SwapOf(b) /\ Planned \subseteq OpenRows /\ OpenRows \subseteq DOMAIN txs
      /\ PlanMax \in Nat
  BY OthersStayStep DEF Books, Runs, Planned, OpenRows
<1>1. Cardinality(Planned) \in Nat /\ Cardinality(OpenRows) \in Nat
      /\ Cardinality(Planned) <= Cardinality(OpenRows) /\ Cardinality(Planned) <= PlanMax
  BY <1>0, SwapsFinite DEF PlanInv
<1>2. \/ Planned' = Planned
      \/ /\ pc[b] = "write" /\ pc'[b] \in {"notify", "alone"} /\ op[b].planned
         /\ Planned' = Planned \cup {op[b].tx}
  BY RowsMove DEF Planned
<1>3. Cardinality(Planned)' <= PlanMax
  <2>1. CASE Planned' = Planned
    BY <1>1, <2>1
  <2>2. CASE pc[b] = "write" /\ op[b].planned /\ Planned' = Planned \cup {op[b].tx}
    <3>1. Cardinality(Planned) < PlanMax
      BY <2>2 DEF PlanInv
    <3>2. Cardinality(Planned \cup {op[b].tx}) <= Cardinality(Planned) + 1
          /\ Cardinality(Planned \cup {op[b].tx}) \in Nat
      BY <1>0, OneMore
    <3> QED
      BY <1>0, <1>1, <2>2, <3>1, <3>2
  <2> QED
    BY <1>2, <2>1, <2>2
<1>4. \A c \in Buyer : pc'[c] = "plan" => c \in Launch
  BY <1>0, PlannedMove DEF PlanInv, OthersStay
<1>5. ASSUME op'[b].planned
      PROVE  /\ b \in Launch /\ pc'[b] \in Inside \cup {"enter"}
             /\ \A c \in Launch \ {b} : ~op'[c].planned
             /\ pc'[b] \notin {"alone", "alert", "notify"} => Cardinality(Planned)' < PlanMax
  <2>0. Launch \subseteq Buyer
    BY DEF Buyer
  <2>1. CASE /\ op[b].planned /\ pc'[b] \in Inside \cup {"enter"}
             /\ pc'[b] \notin {"alone", "alert", "notify"} => pc[b] \notin {"alone", "alert", "notify"}
    <3>1. b \in Launch /\ \A c \in Launch \ {b} : ~op[c].planned
      BY <2>1 DEF PlanInv
    <3>2. pc'[b] \notin {"alone", "alert", "notify"} => Cardinality(Planned) < PlanMax /\ Planned' = Planned
      BY <1>2, <2>1 DEF PlanInv
    <3> QED
      BY <1>0, <2>0, <2>1, <3>1, <3>2 DEF OthersStay
  <2>2. CASE /\ pc[b] = "plan" /\ pc'[b] = "enter" /\ b \in Launch
             /\ Cardinality(OpenRows) < PlanMax
             /\ \A c \in Launch \ {b} : pc[c] \notin Inside \cup {"enter"}
    <3>1. \A c \in Launch \ {b} : ~op[c].planned
      BY <2>0, <2>2 DEF PlanInv
    <3>2. Cardinality(Planned) < PlanMax /\ Planned' = Planned
      BY <1>0, <1>1, <1>2, <2>2
    <3> QED
      BY <1>0, <2>0, <2>2, <3>1, <3>2 DEF OthersStay
  <2> QED
    BY <1>5, <2>1, <2>2, PlannedMove
<1>6. ASSUME NEW c \in Buyer \ {b}, op'[c].planned
      PROVE  /\ c \in Launch /\ pc'[c] \in Inside \cup {"enter"}
             /\ \A d \in Launch \ {c} : ~op'[d].planned
             /\ pc'[c] \notin {"alone", "alert", "notify"} => Cardinality(Planned)' < PlanMax
  <2>0. Launch \subseteq Buyer /\ op'[c] = op[c] /\ pc'[c] = pc[c] /\ c \in Buyer
    BY <1>0 DEF Buyer, OthersStay
  <2>1. c \in Launch /\ pc[c] \in Inside \cup {"enter"} /\ \A d \in Launch \ {c} : ~op[d].planned
    BY <1>6, <2>0 DEF PlanInv
  <2>2. ~op[b].planned
    BY <1>6, <2>0, <2>1 DEF PlanInv
  <2>3. ~op'[b].planned
    BY <2>0, <2>1, <2>2, PlannedMove
  <2>4. Planned' = Planned
    BY <1>2, <2>2
  <2>5. pc'[c] \notin {"alone", "alert", "notify"} => Cardinality(Planned)' < PlanMax
    BY <1>6, <2>0, <2>4 DEF PlanInv
  <2> QED
    BY <1>0, <2>0, <2>1, <2>3, <2>5 DEF OthersStay
<1>7. ASSUME NEW c \in Buyer, op'[c].planned
      PROVE  /\ c \in Launch /\ pc'[c] \in Inside \cup {"enter"}
             /\ \A d \in Launch \ {c} : ~op'[d].planned
             /\ pc'[c] \notin {"alone", "alert", "notify"} => Cardinality(Planned)' < PlanMax
  BY <1>5, <1>6, <1>7
<1> QED
  BY <1>0, <1>3, <1>4, <1>7 DEF PlanInv

\* A run without a rival at "build" read the balance while nothing else of its
\* wallet was on the way.
LEMMA BuildMove ==
  ASSUME Books, NEW b \in Buyer, RunStep(b), Builds(b)'
  PROVE  /\ pc[b] = "balance" /\ op'[b].wallet = op[b].wallet /\ op[b].wallet \in Wallet
         /\ sol[op[b].wallet] >= 1 + Reserve
         /\ Going(op[b].wallet) = {}
         /\ \A c \in Buyer \ {b} : ~(pc[c] = "build" /\ op[c].wallet = op[b].wallet)
         /\ ~Broadcast(b)
<1>0. TypeOK /\ KeyKnown(b) /\ pc'[b] = "build" /\ ~op'[b].rival
  BY DEF Books, Runs, Builds
<1>1. CheckStep(b)
  <2>1. ~BeforeStep(b)
    BY <1>0, Before
  <2>2. ~Broadcast(b)
    BY <1>0 DEF Broadcast, Goto, TypeOK
  <2>3. ~FollowStep(b)
    BY <1>0, Follows
  <2>4. ~WriteStep(b)
    BY <1>0, Writes, ReturnFields
  <2> QED
    BY <2>1, <2>2, <2>3, <2>4, Kinds
<1>2. ~Return(b)
  BY <1>0, ReturnFields
<1>3. /\ pc[b] = "balance" /\ op'[b].wallet = op[b].wallet /\ sol[op[b].wallet] >= 1 + Reserve
      /\ op'[b].rival = (op[b].rival \/ PendingIn(op[b].wallet) \/ RivalAt(b, {"build"}))
  BY <1>0, <1>1, <1>2, Checks
<1>4. op[b].wallet \in Wallet /\ ~Broadcast(b)
  BY <1>0, <1>3 DEF TypeOK, Inside, KeyOf, Key, Broadcast
<1>5. ~PendingIn(op[b].wallet) /\ ~RivalAt(b, {"build"})
  BY <1>0, <1>3
<1> QED
  BY <1>3, <1>4, <1>5 DEF PendingIn, RivalAt, Going, Swaps

\* A run's step leaves what the reserve is covered by; a buy without a rival goes
\* out.
LEMMA SentMove ==
  ASSUME Books, NEW b \in Buyer, RunStep(b), NEW w \in Wallet
  PROVE  /\ Spent(w)' = Spent(w) /\ UNCHANGED sol
         /\ \/ Going(w)' = Going(w)
            \/ /\ Broadcast(b) /\ Builds(b) /\ op[b].wallet = w
               /\ Going(w)' = Going(w) \cup {Len(txs) + 1}
<1>0. Moved(b) /\ LocksMoved(b) /\ TypeOK
  BY SwapsMove, LocksMove DEF Books
<1>1. \A i \in DOMAIN txs : txs'[i].row = "closed" <=> txs[i].row = "closed"
  BY <1>0 DEF Moved
<1>2. Spent(w)' = Spent(w)
  <2>1. \A i \in DOMAIN txs' \ DOMAIN txs : txs'[i].state = "pending"
    BY <1>0 DEF Moved
  <2> QED
    BY <1>0, <1>1, <2>1 DEF Spent, Swaps, Moved
<1>3. CASE DOMAIN txs' = DOMAIN txs
  BY <1>0, <1>2, <1>3 DEF Going, Swaps, Moved, LocksMoved
<1>4. CASE DOMAIN txs' # DOMAIN txs
  <2> DEFINE n == Len(txs) + 1
  <2>1. Broadcast(b) /\ DOMAIN txs' = DOMAIN txs \cup {n} /\ n \notin DOMAIN txs
        /\ txs'[n].key = KeyOf(b) /\ txs'[n].state = "pending" /\ pc[b] = "build"
    BY <1>0, <1>4 DEF Moved, Broadcast
  <2>2. txs'[n].rival = op[b].rival
    BY <1>0, <2>1, SendFields
  <2>3. \A i \in DOMAIN txs : txs'[i].key = txs[i].key /\ txs'[i].state = txs[i].state
                              /\ txs'[i].rival = txs[i].rival
    BY <1>0 DEF Moved
  <2> HIDE DEF n
  <2>4. Going(w)' = Going(w) \/ (~op[b].rival /\ op[b].wallet = w /\ Going(w)' = Going(w) \cup {n})
    BY <2>1, <2>2, <2>3 DEF Going, Swaps, KeyOf
  <2> QED
    BY <1>0, <1>2, <2>1, <2>4 DEF Builds, LocksMoved, n
<1> QED
  BY <1>3, <1>4

\* A run's step keeps the reserve covered.
LEMMA ReserveKept == ASSUME Books, ReserveInv, NEW b \in Buyer, RunStep(b) PROVE ReserveInv'
<1>0. TypeOK /\ OthersStay(b) /\ sol' = sol /\ sol \in [Wallet -> Nat] /\ Reserve \in Nat
  BY OthersStayStep, LocksMove DEF Books, LocksMoved, TypeOK
<1>1. \A w \in Wallet : Spent(w)' = Spent(w) /\ Cardinality(Spent(w)) \in Nat
                        /\ sol[w] + Cardinality(Spent(w)) >= Reserve
  <2> TAKE w \in Wallet
  <2>1. Spent(w) \subseteq DOMAIN txs
    BY DEF Spent, Swaps
  <2> QED
    BY <1>0, <2>1, SwapsFinite, SentMove DEF ReserveInv
<1>2. ASSUME NEW c \in Buyer \ {b}, Builds(c)'
      PROVE  Builds(c) /\ op'[c].wallet = op[c].wallet /\ op[c].wallet \in Wallet
  BY <1>0, <1>2 DEF Builds, OthersStay, TypeOK, Inside, KeyOf, Key
<1>3. \A w \in Wallet : sol'[w] + Cardinality(Spent(w))' >= Reserve
  BY <1>0, <1>1
<1>4. ASSUME NEW w \in Wallet, NEW i \in Going(w)', NEW j \in Going(w)' PROVE i = j
  <2>1. CASE Going(w)' = Going(w)
    BY <1>4, <2>1 DEF ReserveInv
  <2>2. CASE Builds(b) /\ op[b].wallet = w /\ Going(w)' = Going(w) \cup {Len(txs) + 1}
    <3>1. Going(w) = {}
      BY <2>2 DEF ReserveInv
    <3> QED
      BY <1>4, <2>2, <3>1
  <2> QED
    BY <2>1, <2>2, SentMove
<1>5. ASSUME NEW c \in Buyer, Builds(c)' PROVE Going(op[c].wallet)' = {}
  <2>1. CASE c = b
    <3>1. PICK w \in Wallet : w = op[b].wallet
      BY <1>5, <2>1, BuildMove
    <3>2. op'[b].wallet = w /\ Going(w) = {} /\ ~Broadcast(b)
      BY <1>5, <2>1, <3>1, BuildMove
    <3>3. Going(w)' = {}
      BY <3>2, SentMove
    <3> QED
      BY <2>1, <3>2, <3>3
  <2>2. CASE c # b
    <3>1. PICK w \in Wallet : w = op[c].wallet
      BY <1>2, <1>5, <2>2
    <3>2. op'[c].wallet = w /\ Builds(c) /\ Going(w) = {}
      BY <1>2, <1>5, <2>2, <3>1 DEF ReserveInv
    <3>3. ~(Builds(b) /\ op[b].wallet = w)
      BY <2>2, <3>1, <3>2 DEF ReserveInv
    <3>4. Going(w)' = {}
      BY <3>2, <3>3, SentMove
    <3> QED
      BY <3>2, <3>4
  <2> QED
    BY <2>1, <2>2
<1>6. ASSUME NEW c \in Buyer, NEW d \in Buyer, Builds(c)', Builds(d)', op'[c].wallet = op'[d].wallet
      PROVE  c = d
  <2>1. ASSUME NEW x \in Buyer \ {b}, Builds(x)', Builds(b)', op'[x].wallet = op'[b].wallet
        PROVE  FALSE
    <3>1. Builds(x) /\ op[x].wallet = op[b].wallet
      BY <1>2, <2>1, BuildMove
    <3> QED
      BY <2>1, <3>1, BuildMove DEF Builds
  <2>2. CASE c # b /\ d # b
    BY <1>2, <1>6, <2>2 DEF ReserveInv
  <2> QED
    BY <1>6, <2>1, <2>2
<1>7. ASSUME NEW w \in Wallet,
             Going(w)' # {} \/ \E c \in Buyer : Builds(c)' /\ op'[c].wallet = w
      PROVE  sol'[w] + Cardinality(Spent(w))' >= Reserve + 1
  <2>1. CASE \E c \in Buyer \ {b} : Builds(c)' /\ op'[c].wallet = w
    BY <1>0, <1>1, <1>2, <2>1 DEF ReserveInv
  <2>2. CASE Builds(b)' /\ op'[b].wallet = w
    <3>1. sol[w] >= 1 + Reserve
      BY <2>2, BuildMove
    <3> QED
      BY <1>0, <1>1, <3>1
  <2>3. CASE Going(w)' # {}
    <3>1. Going(w) # {} \/ \E c \in Buyer : Builds(c) /\ op[c].wallet = w
      BY <2>3, SentMove
    <3> QED
      BY <1>0, <1>1, <3>1 DEF ReserveInv
  <2> QED
    BY <1>7, <2>1, <2>2, <2>3
<1> QED
  BY <1>3, <1>4, <1>5, <1>6, <1>7 DEF ReserveInv

\* The chain pays a swap out of what covers the reserve, or counts it as a rival's;
\* a sale pays back.
LEMMA ReserveAround == ASSUME Books, ReserveInv, Surrounding PROVE ReserveInv'
<1>0. TypeOK /\ UNCHANGED <<pc, op>> /\ sol \in [Wallet -> Nat] /\ Reserve \in Nat
      /\ (\A b \in Buyer : Builds(b)' <=> Builds(b))
      /\ DOMAIN txs' = DOMAIN txs /\ DOMAIN txs = 1..Len(txs)
  BY Around DEF Books, Builds, TypeOK
<1>1. \A w \in Wallet : Spent(w) \subseteq DOMAIN txs /\ Cardinality(Spent(w)) \in Nat
  <2>1. \A w \in Wallet : Spent(w) \subseteq DOMAIN txs
    BY DEF Spent, Swaps
  <2> QED
    BY <1>0, <2>1, SwapsFinite
<1>2. ASSUME NEW w \in Wallet PROVE Going(w)' \subseteq Going(w)
  BY <1>0, Around DEF Going, Swaps
<1> DEFINE Covered(w) ==
      \/ sol'[w] + Cardinality(Spent(w))' >= sol[w] + Cardinality(Spent(w))
      \/ /\ Going(w) # {} /\ Going(w)' = {}
         /\ \A b \in Buyer : ~(Builds(b) /\ op[b].wallet = w)
         /\ sol'[w] + Cardinality(Spent(w))' >= Reserve
<1>3. ASSUME NEW w \in Wallet PROVE Covered(w)
  <2>0. sol[w] \in Nat /\ Cardinality(Spent(w)) \in Nat /\ Spent(w) \subseteq DOMAIN txs
    BY <1>0, <1>1
  <2>1. ASSUME NEW i \in DOMAIN txs, Land(i) PROVE Covered(w)
    <3>0. /\ txs[i].state = "pending" /\ txs'[i].state = "landed" /\ txs'[i].key = txs[i].key
          /\ txs'[i].rival = txs[i].rival /\ txs'[i].row = txs[i].row
          /\ (\A j \in DOMAIN txs : j # i => txs'[j] = txs[j])
          /\ txs[i].key[1] \in Wallet
      BY <1>0, <2>1, SetStateFields, SwapType DEF Land
    <3>1. txs[i].row = "none"
      BY <3>0, SwapType, <1>0 DEF Books, RowHasTrade
    <3>2. i \notin Spent(w)
      BY <3>0 DEF Spent, Swaps
    <3>3. CASE txs[i].key[1] # w
      <4>1. sol'[w] = sol[w] /\ Spent(w)' = Spent(w)
        BY <1>0, <2>1, <3>0, <3>3 DEF Land, Spent, Swaps
      <4> QED
        BY <2>0, <4>1
    <3>4. CASE txs[i].key[1] = w /\ txs[i].rival
      <4>1. sol'[w] = sol[w] - 1
        BY <1>0, <2>1, <3>0, <3>4 DEF Land
      <4>2. Spent(w)' = Spent(w) \cup {i}
        BY <1>0, <3>0, <3>1, <3>4 DEF Spent, Swaps
      <4>3. Cardinality(Spent(w))' = Cardinality(Spent(w)) + 1
        BY <1>0, <2>0, <3>2, <4>2, OneMore
      <4> QED
        BY <2>0, <4>1, <4>3
    <3>5. CASE txs[i].key[1] = w /\ ~txs[i].rival
      <4>1. sol'[w] = sol[w] - 1
        BY <1>0, <2>1, <3>0, <3>5 DEF Land
      <4>2. Spent(w)' = Spent(w)
        BY <1>0, <3>0, <3>2, <3>5 DEF Spent, Swaps
      <4>3. i \in Going(w) /\ i \notin Going(w)'
        BY <3>0, <3>5 DEF Going, Swaps
      <4>4. Going(w)' = {}
        BY <1>2, <4>3 DEF ReserveInv
      <4>5. \A b \in Buyer : ~(Builds(b) /\ op[b].wallet = w)
        BY <4>3 DEF ReserveInv
      <4>6. sol[w] + Cardinality(Spent(w)) >= Reserve + 1
        BY <4>3 DEF ReserveInv
      <4> QED
        BY <1>0, <2>0, <4>1, <4>2, <4>3, <4>4, <4>5, <4>6
    <3> QED
      BY <3>3, <3>4, <3>5
  <2>2. ASSUME NEW i \in DOMAIN txs, Sell(i) PROVE sol'[w] + Cardinality(Spent(w))' >= sol[w] + Cardinality(Spent(w))
    <3>0. /\ txs[i].row = "open" /\ txs'[i].row = "closed" /\ txs'[i].key = txs[i].key
          /\ txs'[i].rival = txs[i].rival /\ txs'[i].state = txs[i].state
          /\ (\A j \in DOMAIN txs : j # i => txs'[j] = txs[j])
          /\ txs[i].key[1] \in Wallet
      BY <1>0, <2>2, SellFields, SwapType DEF Sell
    <3>1. CASE txs[i].key[1] # w
      <4>1. sol'[w] = sol[w] /\ Spent(w)' = Spent(w)
        BY <1>0, <2>2, <3>0, <3>1 DEF Sell, Spent, Swaps
      <4> QED
        BY <2>0, <4>1
    <3>2. CASE txs[i].key[1] = w
      <4>1. sol'[w] = sol[w] + 1
        BY <1>0, <2>2, <3>0, <3>2 DEF Sell
      <4>2. Spent(w)' = Spent(w) \ {i}
        BY <1>0, <3>0, <3>2 DEF Spent, Swaps
      <4>3. Cardinality(Spent(w))' \in Nat /\ Cardinality(Spent(w))' + 1 >= Cardinality(Spent(w))
        BY <1>0, <2>0, <4>2, OneMore
      <4> QED
        BY <2>0, <4>1, <4>3
    <3> QED
      BY <3>1, <3>2
  <2>3. ASSUME NEW i \in DOMAIN txs, Drop(i) PROVE sol'[w] + Cardinality(Spent(w))' >= sol[w] + Cardinality(Spent(w))
    <3>0. /\ txs[i].state = "pending" /\ txs'[i].state = "dead"
          /\ (\A j \in DOMAIN txs : j # i => txs'[j] = txs[j])
      BY <1>0, <2>3, SetStateFields DEF Drop
    <3>1. sol' = sol /\ Spent(w)' = Spent(w)
      BY <1>0, <2>3, <3>0 DEF Drop, Spent, Swaps
    <3> QED
      BY <2>0, <3>1
  <2>4. ASSUME NEW k \in Key, LockLapses(k) PROVE sol'[w] + Cardinality(Spent(w))' >= sol[w] + Cardinality(Spent(w))
    <3>1. sol' = sol /\ Spent(w)' = Spent(w)
      BY <2>4 DEF LockLapses, envVars, Spent, Swaps
    <3> QED
      BY <2>0, <3>1
  <2> QED
    BY <2>1, <2>2, <2>3, <2>4 DEF Surrounding, ChainStep
<1>4. ASSUME NEW w \in Wallet
      PROVE  /\ sol'[w] + Cardinality(Spent(w))' >= Reserve
             /\ Going(w)' # {} \/ (\E b \in Buyer : Builds(b) /\ op[b].wallet = w)
                  => sol'[w] + Cardinality(Spent(w))' >= Reserve + 1
  <2>0. sol'[w] \in Nat /\ sol[w] \in Nat /\ Cardinality(Spent(w)) \in Nat /\ Cardinality(Spent(w))' \in Nat
    <3>1. Spent(w)' \subseteq DOMAIN txs /\ sol' \in [Wallet -> Nat]
      BY <1>0, Around DEF Spent, Swaps
    <3> QED
      BY <1>0, <1>1, <3>1, SwapsFinite
  <2>1. sol[w] + Cardinality(Spent(w)) >= Reserve
        /\ (Going(w) # {} \/ (\E b \in Buyer : Builds(b) /\ op[b].wallet = w)
              => sol[w] + Cardinality(Spent(w)) >= Reserve + 1)
    BY DEF ReserveInv
  <2> QED
    BY <1>0, <1>2, <1>3, <2>0, <2>1
<1>5. \A b \in Buyer : Builds(b) => op[b].wallet \in Wallet
  BY <1>0 DEF Builds, TypeOK, Inside, KeyOf, Key
<1>6. \A b \in Buyer : Builds(b)' => Going(op[b].wallet)' = {}
  <2> SUFFICES ASSUME NEW b \in Buyer, Builds(b) PROVE Going(op[b].wallet)' = {}
    BY <1>0
  <2>1. PICK w \in Wallet : w = op[b].wallet /\ op'[b].wallet = w
    BY <1>0, <1>5
  <2>2. Going(w) = {}
    BY <2>1 DEF ReserveInv
  <2> QED
    BY <1>2, <2>1, <2>2
<1>7. \A w \in Wallet : \A i, j \in Going(w)' : i = j
  BY <1>2 DEF ReserveInv
<1>8. \A b, c \in Buyer : Builds(b)' /\ Builds(c)' /\ op'[b].wallet = op'[c].wallet => b = c
  BY <1>0 DEF ReserveInv
<1> QED
  BY <1>0, <1>4, <1>6, <1>7, <1>8 DEF ReserveInv

\* Positions closed leave room.
LEMMA LimitAround == ASSUME Books, LimitInv, Surrounding PROVE LimitInv'
<1>0. TypeOK /\ UNCHANGED <<pc, op, maxOpen>> /\ maxOpen \in Nat /\ PlanMax \in Nat
  BY Around DEF Books, TypeOK
<1>1. OpenRows' \subseteq OpenRows
      /\ \A i \in OpenRows : txs'[i].key = txs[i].key /\ txs'[i].rival = txs[i].rival
                             /\ txs'[i].planned = txs[i].planned
  BY <1>0, Around DEF OpenRows
<1>2. ASSUME NEW w \in Wallet
      PROVE  /\ Cardinality(Fresh(w))' <= Cardinality(Fresh(w))
             /\ Cardinality(Fresh(w))' \in Nat /\ Cardinality(Fresh(w)) \in Nat
  <2>1. Fresh(w)' \subseteq Fresh(w) /\ Fresh(w) \subseteq DOMAIN txs
    BY <1>1 DEF Fresh, OpenIn, OpenRows
  <2> QED
    BY <1>0, <2>1, SwapsFinite
<1>3. Cardinality(Planned)' <= Cardinality(Planned)
      /\ Cardinality(Planned)' \in Nat /\ Cardinality(Planned) \in Nat
  <2>1. Planned' \subseteq Planned /\ Planned \subseteq DOMAIN txs
    BY <1>1 DEF Planned, OpenRows
  <2> QED
    BY <1>0, <2>1, SwapsFinite
<1>4. CountInv'
  <2>1. \A w \in Wallet : Cardinality(Fresh(w))' <= maxOpen
    BY <1>0, <1>2 DEF LimitInv, CountInv
  <2>2. ASSUME NEW b \in Buyer, pc[b] \in Counted, ~op[b].rival
        PROVE  /\ \A c \in Buyer \ {b} :
                    pc[c] \in Counted /\ op[c].wallet = op[b].wallet => op[c].rival
               /\ pc[b] \in Counted \ {"alone", "alert"} => Cardinality(Fresh(op[b].wallet))' < maxOpen
    <3>1. PICK w \in Wallet : w = op[b].wallet /\ op'[b].wallet = w
      BY <1>0, <2>2 DEF TypeOK, Counted, Following, Inside, KeyOf, Key
    <3>2. pc[b] \in Counted \ {"alone", "alert"} => Cardinality(Fresh(w)) < maxOpen
      BY <2>2, <3>1 DEF LimitInv, CountInv
    <3>3. pc[b] \in Counted \ {"alone", "alert"} => Cardinality(Fresh(w))' < maxOpen
      BY <1>0, <1>2, <3>2
    <3> QED
      BY <2>2, <3>1, <3>3 DEF LimitInv, CountInv
  <2> QED
    BY <1>0, <2>1, <2>2 DEF CountInv
<1>5. PlanInv'
  <2>1. Cardinality(Planned)' <= PlanMax
    BY <1>0, <1>3 DEF LimitInv, PlanInv
  <2>2. \A b \in Buyer : op[b].planned /\ pc[b] \notin {"alone", "alert", "notify"} =>
          Cardinality(Planned)' < PlanMax
    BY <1>0, <1>3 DEF LimitInv, PlanInv
  <2> QED
    BY <1>0, <2>1, <2>2 DEF LimitInv, PlanInv
<1> QED
  BY <1>4, <1>5, ReserveAround DEF LimitInv

\* A restart ends every run; what is on its way stays covered.
LEMMA LimitCrash == ASSUME Books, LimitInv, Crash PROVE LimitInv'
<1>0. UNCHANGED <<txs, sol, maxOpen>> /\ (\A b \in Buyer : pc'[b] = "idle" /\ op'[b] = Idle)
  BY DEF Crash
<1>1. CountInv'
  BY <1>0 DEF LimitInv, CountInv, Counted, Following, Fresh, OpenIn, OpenRows
<1>2. PlanInv'
  BY <1>0 DEF LimitInv, PlanInv, Planned, OpenRows, Idle
<1>3. \A w \in Wallet : Spent(w)' = Spent(w) /\ Going(w)' = Going(w)
  BY <1>0 DEF Spent, Going, Swaps
<1>4. \A b \in Buyer : ~Builds(b)'
  BY <1>0 DEF Builds
<1>5. ReserveInv'
  BY <1>0, <1>3, <1>4 DEF LimitInv, ReserveInv
<1> QED
  BY <1>1, <1>2, <1>5 DEF LimitInv

\* The limits at the start: wallets hold their reserve.
LEMMA LimitInit == Init => LimitInv
<1> SUFFICES ASSUME Init PROVE LimitInv
  OBVIOUS
<1>1. PICK s \in Setups : sol = [w \in Wallet |-> s[1]] /\ maxOpen = s[2]
  BY DEF Init
<1>2. s[1] \in Nat /\ s[2] \in Nat /\ Reserve <= s[1] /\ Reserve \in Nat
  BY SetupAssumption
<1>3. DOMAIN txs = {} /\ (\A b \in Buyer : pc[b] = "idle" /\ op[b] = Idle)
  BY DEF Init
<1>4. Planned = {} /\ \A w \in Wallet : Fresh(w) = {} /\ Spent(w) = {} /\ Going(w) = {}
  BY <1>3 DEF Planned, Fresh, OpenIn, OpenRows, Spent, Going, Swaps
<1>5. Cardinality({}) = 0
  BY FS_EmptySet
<1>6. CountInv /\ PlanInv
  <2>1. Cardinality(Planned) <= PlanMax /\ \A w \in Wallet : Cardinality(Fresh(w)) <= maxOpen
    BY <1>1, <1>2, <1>4, <1>5
  <2>2. \A b \in Buyer : pc[b] \notin Counted /\ pc[b] # "plan" /\ ~op[b].planned
    BY <1>3 DEF Counted, Following, Idle
  <2> QED
    BY <2>1, <2>2 DEF CountInv, PlanInv
<1>7. ReserveInv
  <2>1. \A w \in Wallet : sol[w] + Cardinality(Spent(w)) >= Reserve
    <3> TAKE w \in Wallet
    <3>1. sol[w] = s[1] /\ Cardinality(Spent(w)) = 0
      BY <1>1, <1>4, <1>5
    <3> QED
      BY <1>2, <3>1
  <2>2. \A b \in Buyer : ~Builds(b)
    BY <1>3 DEF Builds
  <2> QED
    BY <1>4, <2>1, <2>2 DEF ReserveInv
<1> QED
  BY <1>6, <1>7 DEF LimitInv

\* Every step keeps the limits.
LEMMA LimitStep == Books /\ LimitInv /\ [Next]_vars => LimitInv'
<1> SUFFICES ASSUME Books, LimitInv, [Next]_vars PROVE LimitInv'
  OBVIOUS
<1>1. ASSUME NEW b \in Buyer, RunStep(b) PROVE LimitInv'
  BY <1>1, CountKept, PlanKept, ReserveKept DEF LimitInv
<1>2. CASE UNCHANGED vars
  BY <1>2 DEF vars, procVars, envVars, LimitInv, CountInv, PlanInv, ReserveInv, Fresh, OpenIn, OpenRows,
     Planned, Spent, Going, Builds, Swaps
<1> QED
  BY <1>1, <1>2, LimitAround, LimitCrash, Steps

\* safety.ts's limits give way only to buys that overlapped: of the runs past a
\* check one at most read it alone, and what it read leaves room for its buy.
THEOREM LimitsHold == Spec => []LimitsNeedRivals
<1>1. Books /\ LimitInv => LimitsNeedRivals
  <2> SUFFICES ASSUME Books, LimitInv PROVE LimitsNeedRivals
    OBVIOUS
  <2>0. TypeOK /\ maxOpen \in Nat /\ PlanMax \in Nat /\ sol \in [Wallet -> Nat] /\ Reserve \in Nat
    BY DEF Books, TypeOK
  <2>1. LimitNeedsRival
    <3> SUFFICES ASSUME NEW w \in Wallet, \A i \in OpenIn(w) : ~txs[i].rival
                 PROVE  ~(Cardinality(OpenIn(w)) > maxOpen)
      BY DEF LimitNeedsRival
    <3>1. Fresh(w) = OpenIn(w) /\ OpenIn(w) \subseteq DOMAIN txs
      BY DEF Fresh, OpenIn, OpenRows
    <3>2. Cardinality(OpenIn(w)) \in Nat
      BY <2>0, <3>1, SwapsFinite
    <3> QED
      BY <2>0, <3>1, <3>2 DEF LimitInv, CountInv
  <2>2. PlanLimitNeedsRival
    <3> SUFFICES ASSUME \A i \in OpenRows : txs[i].planned
                 PROVE  ~(Cardinality(OpenRows) > PlanMax)
      BY DEF PlanLimitNeedsRival
    <3>1. Planned = OpenRows /\ OpenRows \subseteq DOMAIN txs
      BY DEF Planned, OpenRows
    <3>2. Cardinality(OpenRows) \in Nat
      BY <2>0, <3>1, SwapsFinite
    <3> QED
      BY <2>0, <3>1, <3>2 DEF LimitInv, PlanInv
  <2>3. ReserveNeedsRival
    <3> SUFFICES ASSUME NEW w \in Wallet, sol[w] < Reserve PROVE Spent(w) # {}
      BY DEF ReserveNeedsRival, Spent
    <3>1. sol[w] + Cardinality(Spent(w)) >= Reserve
      BY DEF LimitInv, ReserveInv
    <3>2. Cardinality({}) = 0 /\ sol[w] \in Nat
      BY <2>0, FS_EmptySet
    <3> QED
      BY <2>0, <3>1, <3>2
  <2> QED
    BY <2>1, <2>2, <2>3 DEF LimitsNeedRivals
<1>2. Spec => [](Books /\ LimitInv)
  BY BooksInit, BooksStep, LimitInit, LimitStep, PTL DEF Spec
<1> QED
  BY <1>1, <1>2, PTL

-----------------------------------------------------------------------------
\* --- SwapRouting: the execution of a call ---

\* While the call has a transaction of its own, the last one is it.
Carrying == {"checkJupiter", "check", "send", "direct", "confirmBundle", "confirm"}

Reserves == [tok : Nat \ {0}, sol : Nat]
SwapTx == [venue : {"JUPITER", "PUMPSWAP", "RAYDIUM"}, side : {"buy", "sell"}, in : Nat \ {0}, least : Nat,
           read : Reserves, recipient : {"reserved", "normal", "none"}, torn : BOOLEAN, paid : Nat, got : Nat,
           call : Nat, status : {"signed", "pending", "lost", "done", "reverted", "dead"}]

\* What a quote from the reserves a transaction was built from would bring
Fair(tx) ==
    IF tx.side = "buy" THEN (tx.read.tok * BuySol) \div (tx.read.sol + BuySol)
    ELSE (tx.read.sol * SellTok) \div (tx.read.tok + SellTok)

\* A transaction within its limits, executed or not
Lawful(tx) ==
    /\ tx.torn \/ tx.read \in Markets
    /\ tx.in = IF tx.side = "buy" THEN BuySol ELSE SellTok
    /\ tx.venue # "JUPITER" => 100 * (tx.least + 1) > Fair(tx) * (100 - Slip)
    /\ tx.status = "done" => tx.got >= tx.least /\ (tx.side = "buy" => tx.paid <= BuySol)

Scenario == [dex : {"PUMPSWAP", "RAYDIUM", "ORCA"}, known : BOOLEAN, mayhem : BOOLEAN,
             way : {"plain", "jito", "fast"}, calls : Nat, moves : Nat, faults : Nat]

\* The running call: its place, its error and its reads.
CallIs ==
    /\ setup \in Scenario
    /\ pool \in Markets /\ moved \in BOOLEAN
    /\ wallet \in [sol : Nat, wsol : Nat, tok : Nat]
    /\ call \in [at : {"idle", "ask", "fallback", "readBase", "readQuote"} \cup Carrying,
                 side : {"none", "buy", "sell"}, attempt : 0 .. 3,
                 jupiter : Error \cup {"none"}, read : [tok : Nat, sol : Nat]]
    /\ call.side = "sell" => call.attempt <= 2
    /\ call.at # "idle" => call.side # "none"
    /\ call.at = "fallback" => call.jupiter \in Error
    /\ call.at = "readQuote" => call.read.tok # 0 /\ (~moved => call.read.tok = pool.tok)

TxsAre ==
    /\ swapTxs \in Seq(SwapTx) /\ result \in Seq(Error \cup {"landed"})
    /\ \A i \in DOMAIN swapTxs : Lawful(swapTxs[i])

\* Every call has one transaction at most, the running one the last.
CallsAre ==
    /\ \A i \in DOMAIN swapTxs : swapTxs[i].call <= Len(result) + 1
    /\ \A i \in DOMAIN swapTxs : swapTxs[i].call = Len(result) + 1 => i = Last /\ call.at \in Carrying
    /\ call.at \in Carrying => Last > 0 /\ swapTxs[Last].call = Len(result) + 1
    /\ \A i, j \in DOMAIN swapTxs : i # j => swapTxs[i].call # swapTxs[j].call
    /\ SuccessIsReal

RoutingInv == CallIs /\ TxsAre /\ CallsAre

LEMMA MarketFacts ==
    /\ \A p \in Markets : p.tok \in Nat \ {0} /\ p.sol \in Nat /\ p = [tok |-> p.tok, sol |-> p.sol]
    /\ Markets # {} /\ BuySol \in Nat \ {0} /\ SellTok \in Nat \ {0} /\ Slip \in 0 .. 99 /\ Fee \in 0 .. 99
<1>1. \A p \in [tok : Nat \ {0}, sol : Nat] : p.tok \in Nat \ {0} /\ p.sol \in Nat /\ p = [tok |-> p.tok, sol |-> p.sol]
  OBVIOUS
<1> QED
  BY <1>1, RoutingAssumption DEF RoutingAssumption

\* --- Amounts ---

LEMMA DivIs ==
  ASSUME NEW a \in Nat, NEW b \in Nat, b > 0
  PROVE  a \div b \in Nat /\ b * (a \div b) <= a /\ b * ((a \div b) + 1) > a
BY SMT

LEMMA ProductIs ==
  ASSUME NEW a \in Nat, NEW b \in Nat
  PROVE  a * b \in Nat
BY SMT

LEMMA QuoteIs ==
  ASSUME NEW a \in Nat, NEW b \in Nat, NEW c \in Nat \ {0}
  PROVE  /\ Quote(a, b, c) \in Nat
         /\ (b * c) \div (a + c) \in Nat
         /\ Quote(a, b, c) = 0 \/ Quote(a, b, c) = (b * c) \div (a + c)
<1>1. b * c \in Nat /\ a + c \in Nat /\ a + c > 0
  BY ProductIs
<1>2. (b * c) \div (a + c) \in Nat
  BY <1>1, DivIs
<1> QED
  BY <1>2 DEF Quote

LEMMA FloorIs ==
  ASSUME NEW a \in Nat
  PROVE  Floor(a) \in Nat /\ 100 * (Floor(a) + 1) > a * (100 - Slip)
<1> DEFINE share == a * (100 - Slip)
<1>1. 100 - Slip \in Nat
  BY MarketFacts
<1>2. share \in Nat
  BY <1>1, ProductIs
<1> HIDE DEF share
<1>3. share \div 100 \in Nat /\ 100 * ((share \div 100) + 1) > share
  BY <1>2, DivIs
<1> QED
  BY <1>3 DEF Floor, share

LEMMA OutIs ==
  ASSUME NEW a \in Nat, NEW b \in Nat, NEW c \in Nat \ {0}
  PROVE  Out(a, b, c) \in Nat
<1>1. (b * c) \div (a + c) \in Nat
  BY QuoteIs
<1>0. 100 - Fee \in Nat
  BY MarketFacts
<1>2. ((b * c) \div (a + c)) * (100 - Fee) \in Nat
  BY <1>1, <1>0, ProductIs
<1> QED
  BY <1>2, DivIs DEF Out

LEMMA CostIs ==
  ASSUME NEW p \in Markets, NEW tokens \in Nat, p.tok > tokens
  PROVE  Cost(p, tokens) \in Nat
<1> DEFINE net == (p.sol * tokens) \div (p.tok - tokens) + 1
<1>1. p.sol * tokens \in Nat /\ p.tok - tokens \in Nat /\ p.tok - tokens > 0
  BY MarketFacts, ProductIs
<1>2. net \in Nat
  BY <1>1, DivIs
<1>3. 100 + Fee \in Nat
  BY MarketFacts
<1> HIDE DEF net
<1>4. net * (100 + Fee) \in Nat
  BY <1>2, <1>3, ProductIs
<1>5. (net * (100 + Fee)) \div 100 \in Nat
  BY <1>4, DivIs
<1> QED
  BY <1>5 DEF Cost, net

\* --- Messages ---

\* A failure of Jupiter's is named for its cause or for Jupiter.
LEMMA CategoryIs ==
  /\ \A cause \in {"rpc_timeout", "route_unavailable"} : Category({cause, "jupiter_failure"}) \in Error
  /\ Category({"reverted"}) = "other"
<1> DEFINE found(message) == {i \in DOMAIN Looked : Looked[i] \in message}
<1>1. /\ DOMAIN Looked = 1 .. 13 /\ Looked[10] = "reverted"
      /\ Looked[6] = "route_unavailable" /\ Looked[12] = "rpc_timeout" /\ Looked[13] = "jupiter_failure"
      /\ \A i \in 1 .. 13 : i # 10 => Looked[i] # "reverted"
      /\ \A i \in 1 .. 13 : i # 6 => Looked[i] # "route_unavailable"
      /\ \A i \in 1 .. 13 : i # 12 => Looked[i] # "rpc_timeout"
      /\ \A i \in 1 .. 13 : i # 13 => Looked[i] # "jupiter_failure"
  BY DEF Looked
<1>2. ASSUME NEW S, NEW m \in Int, S = {m} PROVE Min(S) = m
  BY <1>2 DEF Min
<1>3. ASSUME NEW S, NEW m \in Int, NEW n \in Int, S = {m, n}, m < n PROVE Min(S) = m
  BY <1>3 DEF Min
<1>4. found({"rpc_timeout", "jupiter_failure"}) = {12, 13}
  BY <1>1
<1>5. found({"route_unavailable", "jupiter_failure"}) = {6, 13}
  BY <1>1
<1>6. found({"reverted"}) = {10}
  BY <1>1
<1>7. Category({"rpc_timeout", "jupiter_failure"}) = "rpc_timeout"
  <2>1. Min(found({"rpc_timeout", "jupiter_failure"})) = 12
    BY <1>3, <1>4
  <2> QED
    BY <1>1, <1>4, <2>1 DEF Category
<1>8. Category({"route_unavailable", "jupiter_failure"}) = "route_unavailable"
  <2>1. Min(found({"route_unavailable", "jupiter_failure"})) = 6
    BY <1>3, <1>5
  <2> QED
    BY <1>1, <1>5, <2>1 DEF Category
<1>9. Category({"reverted"}) = "other"
  <2>1. Min(found({"reverted"})) = 10
    BY <1>2, <1>6
  <2> QED
    BY <1>1, <1>6, <2>1 DEF Category
<1> QED
  BY <1>7, <1>8, <1>9 DEF Error

\* --- Transactions ---

\* A floor that is not refused is within the slippage share of the fair amount.
LEMMA FloorIsFair ==
  ASSUME NEW a \in Nat, NEW b \in Nat, NEW c \in Nat \ {0}, a # 0 \/ Floor(Quote(a, b, c)) # 0
  PROVE  100 * (Floor(Quote(a, b, c)) + 1) > ((b * c) \div (a + c)) * (100 - Slip)
<1> DEFINE fair == (b * c) \div (a + c)
           quote == Quote(a, b, c)
           share == fair * (100 - Slip)
<1>1. quote \in Nat /\ fair \in Nat
  BY QuoteIs
<1>2. 100 - Slip \in Nat
  BY MarketFacts
<1>3. Floor(quote) \in Nat /\ 100 * (Floor(quote) + 1) > quote * (100 - Slip)
  BY <1>1, FloorIs
<1>4. CASE quote = fair
  BY <1>3, <1>4
<1>5. CASE quote # fair
  <2>1. a = 0 \/ b = 0
    BY <1>5 DEF Quote
  <2>2. quote = 0
    BY <2>1 DEF Quote
  <2>3. Floor(quote) = 0
    <3>1. 0 * (100 - Slip) = 0
      BY <1>2
    <3> HIDE DEF quote
    <3> QED
      BY <3>1, <2>2 DEF Floor
  <2>4. a # 0 /\ b = 0
    BY <2>1, <2>3
  <2>5. fair = 0
    <3>1. b * c = 0 /\ a + c \in Nat /\ a + c > 0
      BY <2>4
    <3> QED
      BY <3>1
  <2>6. share = 0
    <3> HIDE DEF fair
    <3> QED
      BY <1>2, <2>5
  <2> HIDE DEF quote, share
  <2>7. 100 * (Floor(quote) + 1) > share
    BY <2>3, <2>6
  <2> QED
    BY <2>7 DEF quote, share
<1> QED
  BY <1>4, <1>5

LEMMA TxIs ==
  ASSUME CallIs, TxsAre, NEW venue \in {"JUPITER", "PUMPSWAP", "RAYDIUM"}, NEW side \in {"buy", "sell"},
         NEW in \in Nat \ {0}, NEW least \in Nat, NEW read \in Reserves
  PROVE  LET tx == Tx(venue, side, in, least, read) IN
         /\ tx \in SwapTx
         /\ tx.venue = venue /\ tx.side = side /\ tx.in = in /\ tx.least = least /\ tx.read = read
         /\ tx.torn = moved /\ tx.call = Len(result) + 1 /\ tx.status = "signed"
<1>1. Len(result) + 1 \in Nat
  BY LenProperties DEF TxsAre
<1>2. (IF venue = "PUMPSWAP" THEN Recipient ELSE "none") \in {"reserved", "normal", "none"}
  BY DEF Recipient
<1> QED
  BY <1>1, <1>2 DEF Tx, SwapTx, CallIs

\* Jupiter's transaction is computed from the pool as it is.
LEMMA JupiterTxIs ==
  ASSUME CallIs, TxsAre, NEW tx,
         tx = IF call.side = "buy"
              THEN Tx("JUPITER", "buy", BuySol, Floor(Out(pool.sol, pool.tok, BuySol)), pool)
              ELSE Tx("JUPITER", "sell", SellTok, Floor(Out(pool.tok, pool.sol, SellTok)), pool)
  PROVE  tx \in SwapTx /\ Lawful(tx) /\ tx.call = Len(result) + 1 /\ tx.status = "signed"
<1>1. pool \in Reserves /\ pool \in Markets /\ pool.tok \in Nat /\ pool.sol \in Nat
  BY MarketFacts, RoutingAssumption DEF CallIs, Reserves, RoutingAssumption
<1>2. BuySol \in Nat \ {0} /\ SellTok \in Nat \ {0}
  BY MarketFacts
<1>3. /\ Floor(Out(pool.sol, pool.tok, BuySol)) \in Nat
      /\ Floor(Out(pool.tok, pool.sol, SellTok)) \in Nat
  BY <1>1, <1>2, OutIs, FloorIs
<1>4. CASE call.side = "buy"
  <2>1. tx = Tx("JUPITER", "buy", BuySol, Floor(Out(pool.sol, pool.tok, BuySol)), pool)
    BY <1>4
  <2>2. /\ tx \in SwapTx /\ tx.venue = "JUPITER" /\ tx.side = "buy" /\ tx.in = BuySol /\ tx.read = pool
        /\ tx.call = Len(result) + 1 /\ tx.status = "signed"
    BY <1>1, <1>2, <1>3, <2>1, TxIs
  <2> QED
    BY <1>1, <2>2 DEF Lawful
<1>5. CASE call.side # "buy"
  <2>1. tx = Tx("JUPITER", "sell", SellTok, Floor(Out(pool.tok, pool.sol, SellTok)), pool)
    BY <1>5
  <2>2. /\ tx \in SwapTx /\ tx.venue = "JUPITER" /\ tx.side = "sell" /\ tx.in = SellTok /\ tx.read = pool
        /\ tx.call = Len(result) + 1 /\ tx.status = "signed"
    BY <1>1, <1>2, <1>3, <2>1, TxIs
  <2> QED
    BY <1>1, <2>2 DEF Lawful
<1> QED
  BY <1>4, <1>5

\* The reserves a native executor has read: the pool's, unless it moved.
LEMMA ReadIs ==
  ASSUME CallIs, call.at = "readQuote"
  PROVE  LET read == [call.read EXCEPT !.sol = pool.sol] IN
         /\ read \in Reserves /\ read.sol \in Nat /\ read.tok \in Nat \ {0}
         /\ moved \/ read \in Markets
<1>1. pool \in Markets /\ pool.sol \in Nat /\ pool = [tok |-> pool.tok, sol |-> pool.sol]
  BY MarketFacts DEF CallIs
<1>2. call.read \in [tok : Nat, sol : Nat] /\ call.read.tok # 0 /\ (~moved => call.read.tok = pool.tok)
  BY DEF CallIs
<1>3. [call.read EXCEPT !.sol = pool.sol] = [tok |-> call.read.tok, sol |-> pool.sol]
  BY <1>2
<1> QED
  BY <1>1, <1>2, <1>3 DEF Reserves

LEMMA NativeTxIs ==
  ASSUME CallIs, TxsAre, call.at = "readQuote", NEW read, read = [call.read EXCEPT !.sol = pool.sol], NEW tx,
         tx = IF setup.dex = "PUMPSWAP" THEN PumpSwapTx(read) ELSE RaydiumTx(read),
         ~(tx.least = 0 /\ ~(setup.dex = "PUMPSWAP" /\ call.side = "sell"))
  PROVE  tx \in SwapTx /\ Lawful(tx) /\ tx.call = Len(result) + 1 /\ tx.status = "signed"
<1> DEFINE venue == IF setup.dex = "PUMPSWAP" THEN "PUMPSWAP" ELSE "RAYDIUM"
           amount == IF call.side = "buy" THEN BuySol ELSE SellTok
           a == IF call.side = "buy" THEN read.sol ELSE read.tok
           b == IF call.side = "buy" THEN read.tok ELSE read.sol
           least == Floor(Quote(a, b, amount))
<1>1. read \in Reserves /\ read.sol \in Nat /\ read.tok \in Nat \ {0} /\ (moved \/ read \in Markets)
  BY ReadIs
<1>2. call.side \in {"buy", "sell"}
  BY DEF CallIs
<1>3. BuySol \in Nat \ {0} /\ SellTok \in Nat \ {0} /\ amount \in Nat \ {0}
  BY MarketFacts
<1>4. a \in Nat /\ b \in Nat
  BY <1>1
<1>5. least \in Nat
  BY <1>3, <1>4, QuoteIs, FloorIs
<1>6. tx = Tx(venue, call.side, amount, least, read)
  BY <1>2 DEF PumpSwapTx, RaydiumTx
<1> HIDE DEF least
<1>7. /\ tx \in SwapTx
      /\ tx.venue = venue /\ tx.side = call.side /\ tx.in = amount /\ tx.least = least /\ tx.read = read
      /\ tx.torn = moved /\ tx.call = Len(result) + 1 /\ tx.status = "signed"
  <2>1. venue \in {"JUPITER", "PUMPSWAP", "RAYDIUM"}
    OBVIOUS
  <2> HIDE DEF venue, amount
  <2>2. LET x == Tx(venue, call.side, amount, least, read) IN
        /\ x \in SwapTx
        /\ x.venue = venue /\ x.side = call.side /\ x.in = amount /\ x.least = least /\ x.read = read
        /\ x.torn = moved /\ x.call = Len(result) + 1 /\ x.status = "signed"
    BY <1>1, <1>2, <1>3, <1>5, <2>1, TxIs
  <2> QED
    BY <1>6, <2>2
<1>8. a # 0 \/ least # 0
  BY <1>1, <1>2, <1>7
<1>9. 100 * (least + 1) > ((b * amount) \div (a + amount)) * (100 - Slip)
  <2> HIDE DEF a, b, amount
  <2> QED
    BY <1>3, <1>4, <1>8, FloorIsFair DEF least
<1>10. Fair(tx) = (b * amount) \div (a + amount)
  BY <1>2, <1>7 DEF Fair
<1> HIDE DEF a, b
<1> QED
  BY <1>1, <1>2, <1>7, <1>9, <1>10 DEF Lawful

\* What the chain makes of a transaction it takes: within its limits, and what
\* the wallet has.
LEMMA ExecutedIs ==
  ASSUME CallIs, NEW tx \in SwapTx, Lawful(tx), Fits(tx, pool), NEW e, e = Executed(tx)
  PROVE  /\ e.wallet \in [sol : Nat, wsol : Nat, tok : Nat]
         /\ e.paid \in Nat /\ e.got \in Nat /\ e.got >= tx.least
         /\ tx.side = "buy" => e.paid <= BuySol
<1>1. pool \in Markets /\ pool.tok \in Nat /\ pool.sol \in Nat
  BY MarketFacts DEF CallIs
<1>2. tx.in \in Nat \ {0} /\ tx.least \in Nat /\ tx.side \in {"buy", "sell"}
  BY DEF SwapTx
<1>3. wallet.sol \in Nat /\ wallet.wsol \in Nat /\ wallet.tok \in Nat
  BY DEF CallIs
<1>4. CASE tx.side = "buy"
  <2> DEFINE cost == IF tx.venue = "PUMPSWAP" THEN Cost(pool, tx.least) ELSE tx.in
             got == IF tx.venue = "PUMPSWAP" THEN tx.least ELSE Out(pool.sol, pool.tok, tx.in)
             left == wallet.sol - tx.in + (IF tx.venue = "JUPITER" THEN wallet.wsol ELSE 0)
             wrapped == IF tx.venue = "JUPITER" THEN 0 ELSE wallet.wsol + tx.in - cost
             held == wallet.tok + got
  <2>1. /\ e.paid = cost /\ e.got = got
        /\ e.wallet = [sol |-> left, wsol |-> wrapped, tok |-> held]
    BY <1>4 DEF Executed
  <2>2. /\ wallet.sol >= tx.in
        /\ IF tx.venue = "PUMPSWAP" THEN pool.tok > tx.least /\ Cost(pool, tx.least) <= tx.in
           ELSE Out(pool.sol, pool.tok, tx.in) >= tx.least
    BY <1>4 DEF Fits
  <2>3. cost \in Nat /\ cost <= tx.in
    BY <1>1, <1>2, <2>2, CostIs
  <2>4. got \in Nat /\ got >= tx.least
    <3>1. Out(pool.sol, pool.tok, tx.in) \in Nat
      BY <1>1, <1>2, OutIs
    <3> QED
      BY <1>2, <2>2, <3>1
  <2> HIDE DEF cost, got
  <2>5. left \in Nat /\ wrapped \in Nat /\ held \in Nat
    BY <1>2, <1>3, <2>2, <2>3, <2>4
  <2>6. tx.in = BuySol
    BY <1>4 DEF Lawful
  <2> HIDE DEF left, wrapped, held
  <2> QED
    BY <2>1, <2>3, <2>4, <2>5, <2>6
<1>5. CASE tx.side # "buy"
  <2> DEFINE out == Out(pool.tok, pool.sol, tx.in)
  <2>1. /\ e.paid = tx.in /\ e.got = out
        /\ e.wallet = [sol |-> wallet.sol + wallet.wsol + out, wsol |-> 0, tok |-> wallet.tok - tx.in]
    BY <1>5 DEF Executed
  <2>2. wallet.tok >= tx.in /\ out >= tx.least
    BY <1>5 DEF Fits
  <2>3. out \in Nat
    BY <1>1, <1>2, OutIs
  <2> HIDE DEF out
  <2> QED
    BY <1>2, <1>3, <1>5, <2>1, <2>2, <2>3
<1> QED
  BY <1>4, <1>5

\* --- What a step does to the transactions ---

\* The same transactions of the same calls, further on their way.
Kept ==
    /\ swapTxs' \in Seq(SwapTx) /\ Len(swapTxs') = Len(swapTxs)
    /\ \A i \in DOMAIN swapTxs' : Lawful(swapTxs'[i])
    /\ \A i \in DOMAIN swapTxs : /\ swapTxs'[i].call = swapTxs[i].call
                                 /\ swapTxs[i].status = "done" => swapTxs'[i].status = "done"

LEMMA KeptIfSame ==
  ASSUME TxsAre, swapTxs' = swapTxs
  PROVE  Kept
BY DEF TxsAre, Kept

LEMMA KeptIfStatus ==
  ASSUME TxsAre, NEW i \in DOMAIN swapTxs, swapTxs[i].status # "done",
         NEW status \in {"signed", "pending", "lost", "reverted", "dead"},
         swapTxs' = [swapTxs EXCEPT ![i].status = status]
  PROVE  Kept
<1>1. swapTxs \in Seq(SwapTx) /\ (\A j \in DOMAIN swapTxs : Lawful(swapTxs[j]))
  BY DEF TxsAre
<1>2. swapTxs[i] \in SwapTx
  BY <1>1, ElementOfSeq, LenProperties
<1> DEFINE t == [swapTxs[i] EXCEPT !.status = status]
<1>3. swapTxs' = [swapTxs EXCEPT ![i] = t]
  BY <1>1
<1>4. /\ t \in SwapTx /\ t.call = swapTxs[i].call /\ t.status = status /\ t.torn = swapTxs[i].torn
      /\ t.read = swapTxs[i].read /\ t.in = swapTxs[i].in /\ t.side = swapTxs[i].side
      /\ t.venue = swapTxs[i].venue /\ t.least = swapTxs[i].least
  BY <1>2 DEF SwapTx
<1> HIDE DEF t
<1>5. Lawful(t)
  BY <1>1, <1>4 DEF Lawful, Fair
<1>6. swapTxs' \in Seq(SwapTx) /\ Len(swapTxs') = Len(swapTxs) /\ DOMAIN swapTxs' = DOMAIN swapTxs
      /\ \A j \in DOMAIN swapTxs : swapTxs'[j] = IF j = i THEN t ELSE swapTxs[j]
  BY <1>1, <1>3, <1>4, ExceptSeq, LenProperties
<1> QED
  BY <1>1, <1>4, <1>5, <1>6 DEF Kept

LEMMA KeptIfDone ==
  ASSUME CallIs, TxsAre, NEW i \in DOMAIN swapTxs, swapTxs[i].status = "pending", Fits(swapTxs[i], pool),
         NEW e, e = Executed(swapTxs[i]),
         swapTxs' = [swapTxs EXCEPT ![i] = [@ EXCEPT !.status = "done", !.paid = e.paid, !.got = e.got]]
  PROVE  Kept /\ e.wallet \in [sol : Nat, wsol : Nat, tok : Nat]
<1>1. swapTxs \in Seq(SwapTx) /\ (\A j \in DOMAIN swapTxs : Lawful(swapTxs[j]))
  BY DEF TxsAre
<1>2. swapTxs[i] \in SwapTx /\ Lawful(swapTxs[i])
  BY <1>1, ElementOfSeq, LenProperties
<1>3. /\ e.wallet \in [sol : Nat, wsol : Nat, tok : Nat]
      /\ e.paid \in Nat /\ e.got \in Nat /\ e.got >= swapTxs[i].least
      /\ swapTxs[i].side = "buy" => e.paid <= BuySol
  BY <1>2, ExecutedIs
<1> DEFINE t == [swapTxs[i] EXCEPT !.status = "done", !.paid = e.paid, !.got = e.got]
<1>4. swapTxs' = [swapTxs EXCEPT ![i] = t]
  BY <1>1
<1>5. /\ t \in SwapTx /\ t.call = swapTxs[i].call /\ t.status = "done" /\ t.torn = swapTxs[i].torn
      /\ t.read = swapTxs[i].read /\ t.in = swapTxs[i].in /\ t.side = swapTxs[i].side
      /\ t.venue = swapTxs[i].venue /\ t.least = swapTxs[i].least /\ t.paid = e.paid /\ t.got = e.got
  BY <1>2, <1>3 DEF SwapTx
<1> HIDE DEF t
<1>6. Lawful(t)
  BY <1>2, <1>3, <1>5 DEF Lawful, Fair
<1>7. swapTxs' \in Seq(SwapTx) /\ Len(swapTxs') = Len(swapTxs) /\ DOMAIN swapTxs' = DOMAIN swapTxs
      /\ \A j \in DOMAIN swapTxs : swapTxs'[j] = IF j = i THEN t ELSE swapTxs[j]
  BY <1>1, <1>4, <1>5, ExceptSeq, LenProperties
<1> QED
  BY <1>1, <1>3, <1>5, <1>6, <1>7 DEF Kept

LEMMA CallsStay ==
  ASSUME TxsAre, CallsAre, Kept, result' = result, call'.at \in Carrying <=> call.at \in Carrying
  PROVE  TxsAre' /\ CallsAre'
<1>1. swapTxs \in Seq(SwapTx) /\ result \in Seq(Error \cup {"landed"})
  BY DEF TxsAre
<1>2. DOMAIN swapTxs' = DOMAIN swapTxs /\ Last' = Last /\ DOMAIN swapTxs = 1 .. Last /\ Last \in Nat
  BY <1>1, LenProperties DEF Kept, Last
<1>3. TxsAre'
  BY <1>1 DEF TxsAre, Kept
<1>4. SuccessIsReal'
  BY <1>2 DEF CallsAre, SuccessIsReal, Done, Kept
<1>5. \A i \in DOMAIN swapTxs : swapTxs'[i].call = swapTxs[i].call
  BY DEF Kept
<1>6. CallsAre'
  BY <1>2, <1>4, <1>5 DEF CallsAre
<1> QED
  BY <1>3, <1>6

\* A call that ends leaves its transaction to the chain, and says "landed" of an
\* executed one only.
LEMMA CallsEnd ==
  ASSUME TxsAre, CallsAre, Kept, NEW outcome \in Error \cup {"landed"}, result' = Append(result, outcome),
         call'.at = "idle",
         outcome = "landed" => call.at \in Carrying /\ swapTxs[Last].status = "done"
  PROVE  TxsAre' /\ CallsAre'
<1>1. swapTxs \in Seq(SwapTx) /\ result \in Seq(Error \cup {"landed"})
  BY DEF TxsAre
<1>2. DOMAIN swapTxs' = DOMAIN swapTxs /\ Last' = Last /\ DOMAIN swapTxs = 1 .. Last /\ Last \in Nat
  BY <1>1, LenProperties DEF Kept, Last
<1>3. /\ result' \in Seq(Error \cup {"landed"}) /\ Len(result') = Len(result) + 1 /\ Len(result) \in Nat
      /\ DOMAIN result' = 1 .. Len(result) + 1 /\ DOMAIN result = 1 .. Len(result)
      /\ \A c \in 1 .. Len(result) : result'[c] = result[c]
      /\ result'[Len(result) + 1] = outcome
  BY <1>1, AppendProperties, LenProperties
<1>4. TxsAre'
  BY <1>1, <1>3 DEF TxsAre, Kept
<1>5. \A i \in DOMAIN swapTxs : /\ swapTxs'[i].call = swapTxs[i].call
                                /\ swapTxs[i].status = "done" => swapTxs'[i].status = "done"
  BY DEF Kept
<1>6. \A i \in DOMAIN swapTxs : swapTxs[i].call <= Len(result) + 1 /\ swapTxs[i].call \in Nat
  <2>1. \A i \in DOMAIN swapTxs : swapTxs[i] \in SwapTx
    BY <1>1, ElementOfSeq, LenProperties
  <2> QED
    BY <2>1 DEF CallsAre, SwapTx
<1>7. SuccessIsReal'
  <2> SUFFICES ASSUME NEW c \in DOMAIN result', result'[c] = "landed"
               PROVE  \E i \in Done' : swapTxs'[i].call = c
    BY DEF SuccessIsReal
  <2>1. CASE c \in 1 .. Len(result)
    <3>1. result[c] = "landed" /\ c \in DOMAIN result
      BY <1>3, <2>1
    <3>2. PICK i \in Done : swapTxs[i].call = c
      BY <3>1 DEF CallsAre, SuccessIsReal
    <3> QED
      BY <1>2, <1>5, <3>2 DEF Done
  <2>2. CASE c = Len(result) + 1
    <3>1. call.at \in Carrying /\ swapTxs[Last].status = "done"
      BY <1>3, <2>2
    <3>2. Last \in DOMAIN swapTxs /\ swapTxs[Last].call = c
      BY <1>2, <2>2, <3>1 DEF CallsAre
    <3> QED
      BY <1>2, <1>5, <3>1, <3>2 DEF Done
  <2> QED
    BY <1>3, <2>1, <2>2
<1>8. CallsAre'
  <2>1. \A i, j \in DOMAIN swapTxs' : i # j => swapTxs'[i].call # swapTxs'[j].call
    BY <1>2, <1>5 DEF CallsAre
  <2>2. \A i \in DOMAIN swapTxs' : swapTxs'[i].call <= Len(result) + 1
    BY <1>2, <1>5, <1>6
  <2>3. \A i \in DOMAIN swapTxs' : swapTxs'[i].call \in Nat
    BY <1>2, <1>5, <1>6
  <2>4. call'.at \notin Carrying
    BY DEF Carrying
  <2>5. \A i \in DOMAIN swapTxs' : swapTxs'[i].call <= Len(result') + 1 /\ swapTxs'[i].call # Len(result') + 1
    BY <1>3, <2>2, <2>3
  <2> QED
    BY <1>7, <2>1, <2>4, <2>5 DEF CallsAre
<1> QED
  BY <1>4, <1>8

\* The transaction a call builds is its first.
LEMMA CallsGrow ==
  ASSUME TxsAre, CallsAre, NEW tx \in SwapTx, Lawful(tx), tx.call = Len(result) + 1, tx.status = "signed",
         swapTxs' = Append(swapTxs, tx), result' = result, call.at \notin Carrying, call'.at \in Carrying
  PROVE  TxsAre' /\ CallsAre'
<1>1. swapTxs \in Seq(SwapTx) /\ result \in Seq(Error \cup {"landed"})
  BY DEF TxsAre
<1>2. /\ swapTxs' \in Seq(SwapTx) /\ Last' = Last + 1 /\ Last \in Nat
      /\ DOMAIN swapTxs = 1 .. Last /\ DOMAIN swapTxs' = 1 .. Last + 1
      /\ \A i \in 1 .. Last : swapTxs'[i] = swapTxs[i]
      /\ swapTxs'[Last + 1] = tx
  BY <1>1, AppendProperties, LenProperties DEF Last
<1>3. TxsAre'
  BY <1>1, <1>2 DEF TxsAre
<1>4. SuccessIsReal'
  BY <1>2 DEF CallsAre, SuccessIsReal, Done
<1>5. \A i \in 1 .. Last : swapTxs[i].call <= Len(result) + 1 /\ swapTxs[i].call # Len(result) + 1
  BY <1>2 DEF CallsAre
<1>6. \A i, j \in 1 .. Last : i # j => swapTxs[i].call # swapTxs[j].call
  BY <1>2 DEF CallsAre
<1>7. \A i, j \in 1 .. Last + 1 : i # j => swapTxs'[i].call # swapTxs'[j].call
  BY <1>2, <1>5, <1>6
<1>8. Len(result) \in Nat
  BY <1>1, LenProperties
<1>9. CallsAre'
  BY <1>2, <1>4, <1>5, <1>7, <1>8 DEF CallsAre
<1> QED
  BY <1>3, <1>9

\* One that fails its simulation is never sent; the call ends, or tries again.
LEMMA CallsDrop ==
  ASSUME TxsAre, CallsAre, call.at \in Carrying, call'.at \notin Carrying,
         swapTxs' = SubSeq(swapTxs, 1, Last - 1),
         result' = result \/ result' = Append(result, "simulation_failed")
  PROVE  TxsAre' /\ CallsAre'
<1>1. swapTxs \in Seq(SwapTx) /\ result \in Seq(Error \cup {"landed"})
  BY DEF TxsAre
<1>2. /\ DOMAIN swapTxs = 1 .. Last /\ Last \in Nat /\ Last > 0
  BY <1>1, LenProperties DEF CallsAre, Last
<1>3. /\ swapTxs' \in Seq(SwapTx) /\ DOMAIN swapTxs' = 1 .. Last - 1
      /\ \A i \in 1 .. Last - 1 : swapTxs'[i] = swapTxs[i]
  <2>1. Last = Len(swapTxs) /\ 1 \in 1 .. Len(swapTxs) + 1 /\ Last - 1 \in 1 - 1 .. Len(swapTxs)
    BY <1>2 DEF Last
  <2>2. /\ SubSeq(swapTxs, 1, Last - 1) \in Seq(SwapTx)
        /\ Len(SubSeq(swapTxs, 1, Last - 1)) = Last - 1 - 1 + 1
        /\ \A i \in 1 .. Last - 1 - 1 + 1 : SubSeq(swapTxs, 1, Last - 1)[i] = swapTxs[1 + i - 1]
    BY <1>1, <2>1, SubSeqProperties
  <2>3. Last - 1 - 1 + 1 = Last - 1 /\ Last - 1 \in Nat
    BY <1>2
  <2>4. \A i \in 1 .. Last - 1 : 1 + i - 1 = i
    OBVIOUS
  <2> HIDE DEF Last
  <2> QED
    BY <2>2, <2>3, <2>4, LenProperties
<1>4. /\ result' \in Seq(Error \cup {"landed"}) /\ Len(result) \in Nat /\ Len(result') \in Nat
      /\ Len(result') >= Len(result)
      /\ DOMAIN result = 1 .. Len(result)
      /\ \A c \in DOMAIN result' : result'[c] = "landed" => c \in DOMAIN result /\ result[c] = "landed"
  <2>1. CASE result' = result
    BY <1>1, <2>1, LenProperties
  <2>2. CASE result' = Append(result, "simulation_failed")
    <3>1. "simulation_failed" \in Error \cup {"landed"}
      BY DEF Error
    <3> QED
      BY <1>1, <2>2, <3>1, AppendProperties, LenProperties
  <2> QED
    BY <2>1, <2>2
<1>5. TxsAre'
  BY <1>2, <1>3, <1>4 DEF TxsAre
<1>6. \A i \in 1 .. Last - 1 : swapTxs[i].call <= Len(result) + 1 /\ swapTxs[i].call # Len(result) + 1
  BY <1>2 DEF CallsAre
<1>7. swapTxs[Last].call = Len(result) + 1
  BY DEF CallsAre
<1>8. SuccessIsReal'
  <2> SUFFICES ASSUME NEW c \in DOMAIN result', result'[c] = "landed"
               PROVE  \E i \in Done' : swapTxs'[i].call = c
    BY DEF SuccessIsReal
  <2>1. c \in 1 .. Len(result) /\ result[c] = "landed"
    BY <1>4
  <2>2. PICK i \in Done : swapTxs[i].call = c
    BY <1>4, <2>1 DEF CallsAre, SuccessIsReal
  <2>3. i \in 1 .. Last /\ swapTxs[i].status = "done" /\ i # Last
    BY <1>2, <1>4, <1>7, <2>1, <2>2 DEF Done
  <2>4. i \in 1 .. Last - 1
    BY <1>2, <2>3
  <2> QED
    BY <1>3, <2>2, <2>3, <2>4 DEF Done
<1>9. \A i \in 1 .. Last - 1 : swapTxs[i].call \in Nat
  <2>1. \A i \in 1 .. Last - 1 : swapTxs[i] \in SwapTx
    BY <1>1, <1>2, ElementOfSeq
  <2> QED
    BY <2>1 DEF SwapTx
<1>10. \A i, j \in 1 .. Last - 1 : i # j => swapTxs'[i].call # swapTxs'[j].call
  BY <1>2, <1>3 DEF CallsAre
<1>11. \A i \in 1 .. Last - 1 : swapTxs'[i].call <= Len(result') + 1 /\ swapTxs'[i].call # Len(result') + 1
  <2> TAKE i \in 1 .. Last - 1
  <2>1. swapTxs'[i].call = swapTxs[i].call
    BY <1>3
  <2> DEFINE c == swapTxs[i].call
             n == Len(result)
             m == Len(result')
  <2>2. c \in Nat /\ c <= n + 1 /\ c # n + 1
    BY <1>6, <1>9
  <2>3. n \in Nat /\ m \in Nat /\ m >= n
    BY <1>4
  <2>4. swapTxs'[i].call = c
    BY <2>1
  <2> HIDE DEF c, n, m
  <2>5. c <= m + 1 /\ c # m + 1
    BY <2>2, <2>3
  <2> QED
    BY <2>4, <2>5 DEF m
<1>12. CallsAre'
  BY <1>3, <1>8, <1>10, <1>11 DEF CallsAre
<1> QED
  BY <1>5, <1>12

\* --- What a step does to the call ---

LEMMA SpendIs ==
  ASSUME CallIs, NEW what \in {"calls", "moves", "faults"}, Spend(what)
  PROVE  /\ setup' \in Scenario
         /\ what = "faults" => setup'.faults < setup.faults
<1>1. setup \in Scenario
  BY DEF CallIs
<1>2. setup[what] \in Nat /\ setup[what] > 0
  BY <1>1 DEF Spend, Scenario
<1>3. setup' = [setup EXCEPT ![what] = setup[what] - 1] /\ setup[what] - 1 \in Nat
  BY <1>2 DEF Spend
<1> QED
  BY <1>1, <1>2, <1>3 DEF Scenario

\* It goes on.
LEMMA CallGoes ==
  ASSUME CallIs, call.at # "idle", NEW at \in {"ask", "readBase"} \cup Carrying, CallAt(at),
         setup' \in Scenario, moved' \in BOOLEAN, UNCHANGED Chain
  PROVE  CallIs' /\ call'.at = at
<1>1. /\ call' = [call EXCEPT !.at = at] /\ pool' = pool /\ wallet' = wallet
  BY DEF CallAt, Chain
<1>2. call \in [at : {"idle", "ask", "fallback", "readBase", "readQuote"} \cup Carrying,
                 side : {"none", "buy", "sell"}, attempt : 0 .. 3,
                 jupiter : Error \cup {"none"}, read : [tok : Nat, sol : Nat]]
  BY DEF CallIs
<1>3. /\ call' \in [at : {"idle", "ask", "fallback", "readBase", "readQuote"} \cup Carrying,
                    side : {"none", "buy", "sell"}, attempt : 0 .. 3,
                    jupiter : Error \cup {"none"}, read : [tok : Nat, sol : Nat]]
      /\ call'.at = at /\ call'.side = call.side /\ call'.attempt = call.attempt
  BY <1>1, <1>2
<1>4. at # "fallback" /\ at # "readQuote"
  BY DEF Carrying
<1> QED
  BY <1>1, <1>3, <1>4 DEF CallIs

\* It ends.
LEMMA CallStops ==
  ASSUME CallIs, call' = NoCall, setup' \in Scenario, moved' \in BOOLEAN, UNCHANGED Chain
  PROVE  CallIs' /\ call'.at = "idle"
<1>1. /\ call' = [at |-> "idle", side |-> "none", attempt |-> 0, jupiter |-> "none",
                  read |-> [tok |-> 0, sol |-> 0]]
      /\ pool' = pool /\ wallet' = wallet
  BY DEF NoCall, NoReserves, Chain
<1> QED
  BY <1>1 DEF CallIs

\* It waits, whatever the chain does.
LEMMA CallWaits ==
  ASSUME CallIs, call' = call, setup' \in Scenario, moved' = moved, pool' = pool,
         wallet' \in [sol : Nat, wsol : Nat, tok : Nat]
  PROVE  CallIs' /\ (call'.at \in Carrying <=> call.at \in Carrying)
BY DEF CallIs

\* Jupiter fails it: again, or to the fallback with Jupiter's error.
LEMMA CallThrows ==
  ASSUME CallIs, call.at \in {"ask", "checkJupiter"}, NEW error \in Error, JupiterThrows(error),
         setup' \in Scenario, moved' \in BOOLEAN, UNCHANGED Chain
  PROVE  CallIs' /\ call'.at \in {"ask", "fallback"}
<1>1. pool' = pool /\ wallet' = wallet
  BY DEF Chain
<1>2. call \in [at : {"idle", "ask", "fallback", "readBase", "readQuote"} \cup Carrying,
                 side : {"none", "buy", "sell"}, attempt : 0 .. 3,
                 jupiter : Error \cup {"none"}, read : [tok : Nat, sol : Nat]]
      /\ call.side # "none"
  BY DEF CallIs
<1>3. CASE Retryable(error) /\ call.attempt < MaxAttempts
  <2>1. call' = [call EXCEPT !.at = "ask", !.attempt = call.attempt + 1]
    BY <1>2, <1>3 DEF JupiterThrows
  <2>2. call.attempt + 1 \in 0 .. 3 /\ (call.side = "sell" => call.attempt + 1 <= 2)
    BY <1>2, <1>3 DEF MaxAttempts
  <2>3. /\ call' \in [at : {"idle", "ask", "fallback", "readBase", "readQuote"} \cup Carrying,
                      side : {"none", "buy", "sell"}, attempt : 0 .. 3,
                      jupiter : Error \cup {"none"}, read : [tok : Nat, sol : Nat]]
        /\ call'.at = "ask" /\ call'.side = call.side /\ call'.attempt = call.attempt + 1
    BY <1>2, <2>1, <2>2
  <2> QED
    BY <1>1, <1>2, <2>2, <2>3 DEF CallIs
<1>4. CASE ~(Retryable(error) /\ call.attempt < MaxAttempts)
  <2>1. call' = [call EXCEPT !.at = "fallback", !.jupiter = error]
    BY <1>4 DEF JupiterThrows
  <2>2. /\ call' \in [at : {"idle", "ask", "fallback", "readBase", "readQuote"} \cup Carrying,
                      side : {"none", "buy", "sell"}, attempt : 0 .. 3,
                      jupiter : Error \cup {"none"}, read : [tok : Nat, sol : Nat]]
        /\ call'.at = "fallback" /\ call'.side = call.side /\ call'.attempt = call.attempt
        /\ call'.jupiter = error
    BY <1>2, <2>1
  <2> QED
    BY <1>1, <1>2, <2>2 DEF CallIs
<1> QED
  BY <1>3, <1>4

\* --- The steps ---

LEMMA PendKeeps ==
  ASSUME TxsAre, CallsAre, call.at \in Carrying, Pend
  PROVE  Kept
<1>1. Last \in DOMAIN swapTxs /\ swapTxs \in Seq(SwapTx)
  BY LenProperties DEF TxsAre, CallsAre, Last
<1>2. swapTxs[Last] \in SwapTx
  BY <1>1, ElementOfSeq, LenProperties
<1>3. CASE swapTxs[Last].status = "signed"
  <2>1. swapTxs' = [swapTxs EXCEPT ![Last].status = "pending"]
    BY <1>1, <1>3 DEF Pend
  <2> QED
    BY <1>1, <1>3, <2>1, KeptIfStatus
<1>4. CASE swapTxs[Last].status # "signed"
  <2>1. swapTxs' = [swapTxs EXCEPT ![Last] = [swapTxs[Last] EXCEPT !.status = swapTxs[Last].status]]
    BY <1>1, <1>4 DEF Pend
  <2>2. [swapTxs[Last] EXCEPT !.status = swapTxs[Last].status] = swapTxs[Last]
    BY <1>2 DEF SwapTx
  <2>3. swapTxs' = swapTxs
    BY <1>1, <2>1, <2>2
  <2> QED
    BY <2>3, KeptIfSame
<1> QED
  BY <1>3, <1>4

LEMMA RoutingStarts ==
  RoutingInit => RoutingInv
<1> SUFFICES ASSUME RoutingInit PROVE RoutingInv
  OBVIOUS
<1>1. setup \in Scenario /\ pool \in Markets
  BY MarketFacts, RoutingAssumption DEF RoutingInit, RoutingAssumption, Scenario
<1>2. wallet \in [sol : Nat, wsol : Nat, tok : Nat]
  BY MarketFacts DEF RoutingInit
<1>3. call = [at |-> "idle", side |-> "none", attempt |-> 0, jupiter |-> "none", read |-> [tok |-> 0, sol |-> 0]]
  BY DEF RoutingInit, NoCall, NoReserves
<1>4. CallIs
  <2>1. call \in [at : {"idle", "ask", "fallback", "readBase", "readQuote"} \cup Carrying,
                  side : {"none", "buy", "sell"}, attempt : 0 .. 3,
                  jupiter : Error \cup {"none"}, read : [tok : Nat, sol : Nat]]
    BY <1>3
  <2>2. call.at = "idle" /\ call.side = "none"
    BY <1>3
  <2>3. moved \in BOOLEAN
    BY DEF RoutingInit
  <2> QED
    BY <1>1, <1>2, <2>1, <2>2, <2>3 DEF CallIs
<1>5. swapTxs = << >> /\ result = << >> /\ DOMAIN swapTxs = {} /\ DOMAIN result = {}
  BY EmptySeq, LenProperties DEF RoutingInit
<1>6. TxsAre
  BY <1>5, EmptySeq DEF TxsAre
<1>7. call.at \notin Carrying
  BY <1>3 DEF Carrying
<1>8. CallsAre
  BY <1>5, <1>7 DEF CallsAre, SuccessIsReal
<1> QED
  BY <1>4, <1>6, <1>8 DEF RoutingInv

LEMMA RequestKeeps ==
  ASSUME RoutingInv, NEW side \in {"buy", "sell"}, Request(side)
  PROVE  RoutingInv'
<1>1. CallIs /\ TxsAre /\ CallsAre
  BY DEF RoutingInv
<1>2. setup' \in Scenario
  BY <1>1, SpendIs DEF Request
<1>3. call' = [at |-> "ask", side |-> side, attempt |-> 1, jupiter |-> "none", read |-> [tok |-> 0, sol |-> 0]]
  BY DEF Request, NoCall, NoReserves
<1>4. CallIs'
  BY <1>1, <1>2, <1>3 DEF CallIs, Request, Chain
<1>5. call.at \notin Carrying /\ call'.at \notin Carrying
  BY <1>3 DEF Request, Carrying
<1>6. TxsAre' /\ CallsAre'
  BY <1>1, <1>5, KeptIfSame, CallsStay DEF Request
<1> QED
  BY <1>4, <1>6 DEF RoutingInv

LEMMA JupiterBuildsKeeps ==
  ASSUME RoutingInv, JupiterBuilds
  PROVE  RoutingInv'
<1>1. CallIs /\ TxsAre /\ CallsAre
  BY DEF RoutingInv
<1> DEFINE tx == IF call.side = "buy"
                 THEN Tx("JUPITER", "buy", BuySol, Floor(Out(pool.sol, pool.tok, BuySol)), pool)
                 ELSE Tx("JUPITER", "sell", SellTok, Floor(Out(pool.tok, pool.sol, SellTok)), pool)
<1>2. swapTxs' = Append(swapTxs, tx) /\ result' = result /\ call.at = "ask" /\ CallAt("checkJupiter")
      /\ setup' = setup /\ moved' = FALSE /\ UNCHANGED Chain
  BY DEF JupiterBuilds
<1>3. tx \in SwapTx /\ Lawful(tx) /\ tx.call = Len(result) + 1 /\ tx.status = "signed"
  BY <1>1, JupiterTxIs
<1> HIDE DEF tx
<1>4. "checkJupiter" \in Carrying /\ call.at \notin Carrying
  BY <1>2 DEF Carrying
<1>5. CallIs' /\ call'.at = "checkJupiter"
  <2>1. setup' \in Scenario /\ moved' \in BOOLEAN
    BY <1>1, <1>2 DEF CallIs
  <2> QED
    BY <1>1, <1>2, <1>4, <2>1, CallGoes
<1>6. TxsAre' /\ CallsAre'
  BY <1>1, <1>2, <1>3, <1>4, <1>5, CallsGrow
<1> QED
  BY <1>5, <1>6 DEF RoutingInv

LEMMA JupiterFailsKeeps ==
  ASSUME RoutingInv, JupiterFails
  PROVE  RoutingInv'
<1>1. CallIs /\ TxsAre /\ CallsAre
  BY DEF RoutingInv
<1>2. PICK cause \in {"rpc_timeout", "route_unavailable"} : JupiterThrows(Category({cause, "jupiter_failure"}))
  BY DEF JupiterFails
<1>3. Category({cause, "jupiter_failure"}) \in Error
  BY CategoryIs
<1>4. setup' \in Scenario /\ moved' \in BOOLEAN /\ UNCHANGED Chain
  BY <1>1, SpendIs DEF JupiterFails, CallIs
<1>5. CallIs' /\ call'.at \in {"ask", "fallback"}
  BY <1>1, <1>2, <1>3, <1>4, CallThrows DEF JupiterFails
<1>6. call.at \notin Carrying /\ call'.at \notin Carrying
  BY <1>5 DEF JupiterFails, Carrying
<1>7. TxsAre' /\ CallsAre'
  BY <1>1, <1>6, KeptIfSame, CallsStay DEF JupiterFails
<1> QED
  BY <1>5, <1>7 DEF RoutingInv

LEMMA JupiterSimulatedKeeps ==
  ASSUME RoutingInv, JupiterSimulated
  PROVE  RoutingInv'
<1>1. CallIs /\ TxsAre /\ CallsAre
  BY DEF RoutingInv
<1>2. /\ call.at = "checkJupiter" /\ result' = result /\ setup' \in Scenario /\ moved' \in BOOLEAN
      /\ UNCHANGED Chain
  BY <1>1 DEF JupiterSimulated, CallIs
<1>3. call.at \in Carrying
  BY <1>2 DEF Carrying
<1>4. CASE CallAt("send") /\ swapTxs' = swapTxs
  <2>1. "send" \in Carrying
    BY DEF Carrying
  <2>2. CallIs' /\ call'.at = "send"
    BY <1>1, <1>2, <1>4, <2>1, CallGoes
  <2> QED
    BY <1>1, <1>2, <1>3, <1>4, <2>1, <2>2, KeptIfSame, CallsStay DEF RoutingInv
<1>5. CASE JupiterThrows("simulation_failed") /\ swapTxs' = SubSeq(swapTxs, 1, Last - 1)
  <2>1. "simulation_failed" \in Error
    BY DEF Error
  <2>2. CallIs' /\ call'.at \in {"ask", "fallback"}
    BY <1>1, <1>2, <1>5, <2>1, CallThrows
  <2>3. call'.at \notin Carrying
    BY <2>2 DEF Carrying
  <2> QED
    BY <1>1, <1>2, <1>3, <1>5, <2>2, <2>3, CallsDrop DEF RoutingInv
<1> QED
  BY <1>4, <1>5 DEF JupiterSimulated

\* A step that ends the call, whatever it made of the transaction.
LEMMA EndKeeps ==
  ASSUME RoutingInv, Kept, NEW outcome \in Error \cup {"landed"}, CallEnds(outcome),
         setup' \in Scenario, moved' \in BOOLEAN, UNCHANGED Chain,
         outcome = "landed" => call.at \in Carrying /\ swapTxs[Last].status = "done"
  PROVE  RoutingInv'
<1>1. CallIs /\ TxsAre /\ CallsAre
  BY DEF RoutingInv
<1>2. call' = NoCall /\ result' = Append(result, outcome)
  BY DEF CallEnds
<1>3. CallIs' /\ call'.at = "idle"
  BY <1>1, <1>2, CallStops
<1>4. TxsAre' /\ CallsAre'
  BY <1>1, <1>2, <1>3, CallsEnd
<1> QED
  BY <1>3, <1>4 DEF RoutingInv

\* A step that takes the call on, with or without its transaction.
LEMMA GoKeeps ==
  ASSUME RoutingInv, Kept, result' = result, call.at # "idle", NEW at \in {"ask", "readBase"} \cup Carrying,
         CallAt(at), at \in Carrying <=> call.at \in Carrying,
         setup' \in Scenario, moved' \in BOOLEAN, UNCHANGED Chain
  PROVE  RoutingInv'
<1>1. CallIs /\ TxsAre /\ CallsAre
  BY DEF RoutingInv
<1>2. CallIs' /\ call'.at = at
  BY <1>1, CallGoes
<1>3. TxsAre' /\ CallsAre'
  BY <1>1, <1>2, CallsStay
<1> QED
  BY <1>2, <1>3 DEF RoutingInv

\* A step of the chain's or the market's.
LEMMA WaitKeeps ==
  ASSUME RoutingInv, Kept, result' = result, call' = call, setup' \in Scenario, moved' = moved, pool' = pool,
         wallet' \in [sol : Nat, wsol : Nat, tok : Nat]
  PROVE  RoutingInv'
<1>1. CallIs /\ TxsAre /\ CallsAre
  BY DEF RoutingInv
<1>2. CallIs' /\ (call'.at \in Carrying <=> call.at \in Carrying)
  BY <1>1, CallWaits
<1>3. TxsAre' /\ CallsAre'
  BY <1>1, <1>2, CallsStay
<1> QED
  BY <1>2, <1>3 DEF RoutingInv

LEMMA FallbackKeeps ==
  ASSUME RoutingInv, Fallback
  PROVE  RoutingInv'
<1>1. CallIs /\ TxsAre /\ CallsAre
  BY DEF RoutingInv
<1>2. call.at = "fallback" /\ UNCHANGED <<Chain, swapTxs, moved>>
  BY DEF Fallback
<1>3. UNCHANGED Chain /\ moved' \in BOOLEAN /\ setup \in Scenario /\ call.jupiter \in Error
  BY <1>1, <1>2 DEF CallIs
<1>4. Kept
  BY <1>1, <1>2, KeptIfSame
<1>5. CASE CallEnds(call.jupiter) /\ setup' = setup
  <2>1. call.jupiter # "landed"
    BY <1>3 DEF Error
  <2> QED
    BY <1>3, <1>4, <1>5, <2>1, EndKeeps
<1>6. CASE CallAt("readBase") /\ UNCHANGED result /\ setup' = setup
  <2>1. "readBase" \notin Carrying /\ call.at \notin Carrying
    BY <1>2 DEF Carrying
  <2> QED
    BY <1>2, <1>3, <1>4, <1>6, <2>1, GoKeeps
<1>7. CASE Spend("faults") /\ CallEnds("other")
  <2>1. setup' \in Scenario
    BY <1>1, <1>7, SpendIs
  <2>2. "other" \in Error
    BY DEF Error
  <2> QED
    BY <1>3, <1>4, <1>7, <2>1, <2>2, EndKeeps
<1> QED
  BY <1>5, <1>6, <1>7 DEF Fallback

LEMMA ReadBaseKeeps ==
  ASSUME RoutingInv, ReadBase
  PROVE  RoutingInv'
<1>1. CallIs /\ TxsAre /\ CallsAre
  BY DEF RoutingInv
<1>2. /\ call.at = "readBase" /\ moved' = FALSE /\ pool' = pool /\ wallet' = wallet /\ setup' = setup
      /\ call' = [call EXCEPT !.at = "readQuote", !.read = [tok |-> pool.tok, sol |-> 0]]
      /\ swapTxs' = swapTxs /\ result' = result
  BY DEF ReadBase, Chain
<1>3. pool.tok \in Nat \ {0}
  BY <1>1, MarketFacts DEF CallIs
<1>4. CallIs'
  <2>1. call \in [at : {"idle", "ask", "fallback", "readBase", "readQuote"} \cup Carrying,
                  side : {"none", "buy", "sell"}, attempt : 0 .. 3,
                  jupiter : Error \cup {"none"}, read : [tok : Nat, sol : Nat]]
    BY <1>1 DEF CallIs
  <2>2. /\ call' \in [at : {"idle", "ask", "fallback", "readBase", "readQuote"} \cup Carrying,
                      side : {"none", "buy", "sell"}, attempt : 0 .. 3,
                      jupiter : Error \cup {"none"}, read : [tok : Nat, sol : Nat]]
        /\ call'.at = "readQuote" /\ call'.side = call.side /\ call'.attempt = call.attempt
        /\ call'.read.tok = pool.tok
    BY <1>2, <1>3, <2>1
  <2> QED
    BY <1>1, <1>2, <1>3, <2>2 DEF CallIs
<1>5. call.at \notin Carrying /\ call'.at \notin Carrying
  <2>1. call'.at = "readQuote"
    BY <1>1, <1>2 DEF CallIs
  <2> QED
    BY <1>2, <2>1 DEF Carrying
<1>6. TxsAre' /\ CallsAre'
  BY <1>1, <1>2, <1>5, KeptIfSame, CallsStay
<1> QED
  BY <1>4, <1>6 DEF RoutingInv

LEMMA ReadFailsKeeps ==
  ASSUME RoutingInv, ReadFails
  PROVE  RoutingInv'
<1>1. CallIs /\ TxsAre /\ CallsAre
  BY DEF RoutingInv
<1>2. CallEnds("rpc_timeout") /\ UNCHANGED Chain /\ moved' \in BOOLEAN /\ swapTxs' = swapTxs
  BY <1>1 DEF ReadFails, CallIs
<1>3. setup' \in Scenario
  BY <1>1, SpendIs DEF ReadFails
<1>4. "rpc_timeout" \in Error
  BY DEF Error
<1> QED
  BY <1>1, <1>2, <1>3, <1>4, KeptIfSame, EndKeeps

LEMMA ReadQuoteKeeps ==
  ASSUME RoutingInv, ReadQuote
  PROVE  RoutingInv'
<1>1. CallIs /\ TxsAre /\ CallsAre
  BY DEF RoutingInv
<1> DEFINE read == [call.read EXCEPT !.sol = pool.sol]
           tx == IF setup.dex = "PUMPSWAP" THEN PumpSwapTx(read) ELSE RaydiumTx(read)
           refused == tx.least = 0 /\ ~(setup.dex = "PUMPSWAP" /\ call.side = "sell")
<1>2. call.at = "readQuote" /\ UNCHANGED Chain /\ setup' = setup /\ moved' = moved
  BY DEF ReadQuote
<1>3. setup' \in Scenario /\ moved' \in BOOLEAN
  BY <1>1, <1>2 DEF CallIs
<1>4. CASE refused
  <2>1. CallEnds("liquidity") /\ swapTxs' = swapTxs
    BY <1>4 DEF ReadQuote
  <2>2. "liquidity" \in Error
    BY DEF Error
  <2> QED
    BY <1>1, <1>2, <1>3, <2>1, <2>2, KeptIfSame, EndKeeps
<1>5. CASE ~refused
  <2>1. CallAt("check") /\ swapTxs' = Append(swapTxs, tx) /\ result' = result
    BY <1>5 DEF ReadQuote
  <2>2. tx \in SwapTx /\ Lawful(tx) /\ tx.call = Len(result) + 1 /\ tx.status = "signed"
    BY <1>1, <1>2, <1>5, NativeTxIs
  <2> HIDE DEF tx
  <2>3. "check" \in Carrying /\ call.at \notin Carrying
    BY <1>2 DEF Carrying
  <2>4. CallIs' /\ call'.at = "check"
    BY <1>1, <1>2, <1>3, <2>1, <2>3, CallGoes
  <2>5. TxsAre' /\ CallsAre'
    BY <1>1, <2>1, <2>2, <2>3, <2>4, CallsGrow
  <2> QED
    BY <2>4, <2>5 DEF RoutingInv
<1> QED
  BY <1>4, <1>5

LEMMA NativeSimulatedKeeps ==
  ASSUME RoutingInv, NativeSimulated
  PROVE  RoutingInv'
<1>1. CallIs /\ TxsAre /\ CallsAre
  BY DEF RoutingInv
<1>2. call.at = "check" /\ UNCHANGED Chain /\ setup' \in Scenario /\ moved' \in BOOLEAN
  BY <1>1 DEF NativeSimulated, CallIs
<1>3. call.at \in Carrying
  BY <1>2 DEF Carrying
<1>4. CASE CallAt("send") /\ UNCHANGED <<swapTxs, result>>
  <2>1. "send" \in Carrying
    BY DEF Carrying
  <2> QED
    BY <1>1, <1>2, <1>3, <1>4, <2>1, KeptIfSame, GoKeeps
<1>5. CASE CallEnds("simulation_failed") /\ swapTxs' = SubSeq(swapTxs, 1, Last - 1)
  <2>1. CallIs' /\ call'.at = "idle"
    BY <1>1, <1>2, <1>5, CallStops DEF CallEnds
  <2>2. call'.at \notin Carrying
    BY <2>1 DEF Carrying
  <2> QED
    BY <1>1, <1>3, <1>5, <2>1, <2>2, CallsDrop DEF RoutingInv, CallEnds
<1> QED
  BY <1>4, <1>5 DEF NativeSimulated

LEMMA SendBundleKeeps ==
  ASSUME RoutingInv, SendBundle
  PROVE  RoutingInv'
<1>1. CallIs /\ TxsAre /\ CallsAre
  BY DEF RoutingInv
<1>2. call.at = "send" /\ result' = result /\ moved' \in BOOLEAN /\ UNCHANGED Chain
  BY <1>1 DEF SendBundle, CallIs
<1>3. call.at \in Carrying /\ "confirmBundle" \in Carrying /\ "direct" \in Carrying
  BY <1>2 DEF Carrying
<1>4. CASE Pend /\ CallAt("confirmBundle") /\ UNCHANGED setup
  <2>1. setup' \in Scenario
    BY <1>1, <1>4 DEF CallIs
  <2> QED
    BY <1>1, <1>2, <1>3, <1>4, <2>1, PendKeeps, GoKeeps
<1>5. CASE Spend("faults") /\ CallAt("direct") /\ UNCHANGED swapTxs
  <2>1. setup' \in Scenario
    BY <1>1, <1>5, SpendIs
  <2> QED
    BY <1>1, <1>2, <1>3, <1>5, <2>1, KeptIfSame, GoKeeps
<1> QED
  BY <1>4, <1>5 DEF SendBundle

LEMMA BundleConfirmedKeeps ==
  ASSUME RoutingInv, BundleConfirmed
  PROVE  RoutingInv'
<1>1. CallIs /\ TxsAre /\ CallsAre
  BY DEF RoutingInv
<1>2. call.at = "confirmBundle" /\ swapTxs' = swapTxs /\ moved' \in BOOLEAN /\ UNCHANGED Chain
  BY <1>1 DEF BundleConfirmed, CallIs
<1>3. call.at \in Carrying /\ "direct" \in Carrying
  BY <1>2 DEF Carrying
<1>4. Kept
  BY <1>1, <1>2, KeptIfSame
<1>5. CASE swapTxs[Last].status = "done" /\ CallEnds("landed") /\ UNCHANGED setup
  <2>1. setup' \in Scenario
    BY <1>1, <1>5 DEF CallIs
  <2> QED
    BY <1>2, <1>3, <1>4, <1>5, <2>1, EndKeeps
<1>6. CASE CallAt("direct") /\ UNCHANGED <<setup, result>>
  <2>1. setup' \in Scenario
    BY <1>1, <1>6 DEF CallIs
  <2> QED
    BY <1>2, <1>3, <1>4, <1>6, <2>1, GoKeeps
<1>7. CASE Spend("faults") /\ CallAt("direct") /\ UNCHANGED result
  <2>1. setup' \in Scenario
    BY <1>1, <1>7, SpendIs
  <2> QED
    BY <1>2, <1>3, <1>4, <1>7, <2>1, GoKeeps
<1> QED
  BY <1>5, <1>6, <1>7 DEF BundleConfirmed

LEMMA SendDirectKeeps ==
  ASSUME RoutingInv, SendDirect
  PROVE  RoutingInv'
<1>1. CallIs /\ TxsAre /\ CallsAre
  BY DEF RoutingInv
<1>2. call.at \in {"direct", "send"} /\ moved' \in BOOLEAN /\ UNCHANGED Chain
  BY <1>1 DEF SendDirect, CallIs
<1>3. call.at \in Carrying /\ "confirm" \in Carrying
  BY <1>2 DEF Carrying
<1>4. CASE Pend /\ CallAt("confirm") /\ UNCHANGED <<setup, result>>
  <2>1. setup' \in Scenario
    BY <1>1, <1>4 DEF CallIs
  <2> QED
    BY <1>1, <1>2, <1>3, <1>4, <2>1, PendKeeps, GoKeeps
<1>5. CASE CallEnds("other") /\ UNCHANGED <<setup, swapTxs>>
  <2>1. setup' \in Scenario /\ "other" \in Error
    BY <1>1, <1>5 DEF CallIs, Error
  <2> QED
    BY <1>1, <1>2, <1>5, <2>1, KeptIfSame, EndKeeps
<1>6. CASE Spend("faults") /\ CallEnds("rpc_timeout") /\ UNCHANGED swapTxs
  <2>1. setup' \in Scenario /\ "rpc_timeout" \in Error
    BY <1>1, <1>6, SpendIs DEF Error
  <2> QED
    BY <1>1, <1>2, <1>6, <2>1, KeptIfSame, EndKeeps
<1> QED
  BY <1>4, <1>5, <1>6 DEF SendDirect

LEMMA SprayKeeps ==
  ASSUME RoutingInv, Spray
  PROVE  RoutingInv'
<1>1. CallIs /\ TxsAre /\ CallsAre
  BY DEF RoutingInv
<1>2. call.at = "send" /\ moved' \in BOOLEAN /\ UNCHANGED Chain
  BY <1>1 DEF Spray, CallIs
<1>3. call.at \in Carrying /\ "confirm" \in Carrying
  BY <1>2 DEF Carrying
<1>4. CASE Pend /\ CallAt("confirm") /\ UNCHANGED <<setup, result>>
  <2>1. setup' \in Scenario
    BY <1>1, <1>4 DEF CallIs
  <2> QED
    BY <1>1, <1>2, <1>3, <1>4, <2>1, PendKeeps, GoKeeps
<1>5. CASE Spend("faults") /\ CallEnds("rpc_timeout") /\ (Pend \/ UNCHANGED swapTxs)
  <2>1. setup' \in Scenario /\ "rpc_timeout" \in Error
    BY <1>1, <1>5, SpendIs DEF Error
  <2>2. Kept
    BY <1>1, <1>3, <1>5, PendKeeps, KeptIfSame
  <2> QED
    BY <1>2, <1>5, <2>1, <2>2, EndKeeps
<1> QED
  BY <1>4, <1>5 DEF Spray

LEMMA ConfirmKeeps ==
  ASSUME RoutingInv, Confirm
  PROVE  RoutingInv'
<1>1. CallIs /\ TxsAre /\ CallsAre
  BY DEF RoutingInv
<1>2. call.at = "confirm" /\ swapTxs' = swapTxs /\ moved' \in BOOLEAN /\ UNCHANGED Chain
  BY <1>1 DEF Confirm, CallIs
<1>3. call.at \in Carrying
  BY <1>2 DEF Carrying
<1>4. Kept
  BY <1>1, <1>2, KeptIfSame
<1>5. CASE swapTxs[Last].status = "done" /\ CallEnds("landed") /\ UNCHANGED setup
  <2>1. setup' \in Scenario
    BY <1>1, <1>5 DEF CallIs
  <2> QED
    BY <1>2, <1>3, <1>4, <1>5, <2>1, EndKeeps
<1>6. CASE CallEnds(Category({"reverted"})) /\ UNCHANGED setup
  <2>1. setup' \in Scenario /\ Category({"reverted"}) \in Error /\ Category({"reverted"}) # "landed"
    BY <1>1, <1>6, CategoryIs DEF CallIs, Error
  <2> QED
    BY <1>2, <1>4, <1>6, <2>1, EndKeeps
<1>7. CASE CallEnds(IF swapTxs[Last].venue = "JUPITER" THEN "blockhash_expired" ELSE "confirmation_timeout")
           /\ UNCHANGED setup
  <2> DEFINE outcome == IF swapTxs[Last].venue = "JUPITER" THEN "blockhash_expired" ELSE "confirmation_timeout"
  <2>1. setup' \in Scenario /\ outcome \in Error /\ outcome # "landed"
    BY <1>1, <1>7 DEF CallIs, Error
  <2>2. CallEnds(outcome)
    BY <1>7
  <2> HIDE DEF outcome
  <2> QED
    BY <1>2, <1>4, <2>1, <2>2, EndKeeps
<1>8. CASE Spend("faults") /\ CallEnds("confirmation_timeout")
  <2>1. setup' \in Scenario /\ "confirmation_timeout" \in Error
    BY <1>1, <1>8, SpendIs DEF Error
  <2> QED
    BY <1>2, <1>4, <1>8, <2>1, EndKeeps
<1> QED
  BY <1>5, <1>6, <1>7, <1>8 DEF Confirm

LEMMA RebroadcastKeeps ==
  ASSUME RoutingInv, Rebroadcast
  PROVE  RoutingInv'
<1>1. CallIs /\ TxsAre /\ CallsAre
  BY DEF RoutingInv
<1>2. call.at \in Carrying
  BY DEF Rebroadcast, Carrying
<1>3. Last \in DOMAIN swapTxs
  BY <1>1, <1>2, LenProperties DEF TxsAre, CallsAre, Last
<1>4. Kept
  BY <1>1, <1>3, KeptIfStatus DEF Rebroadcast
<1> QED
  BY <1>1, <1>4, WaitKeeps DEF Rebroadcast, CallIs, Chain

LEMMA MarketMovesKeeps ==
  ASSUME RoutingInv, MarketMoves
  PROVE  RoutingInv'
<1>1. CallIs /\ TxsAre /\ CallsAre
  BY DEF RoutingInv
<1>2. setup' \in Scenario /\ pool' \in Markets /\ moved' = TRUE /\ wallet' = wallet /\ call' = call
  BY <1>1, SpendIs DEF MarketMoves
<1>3. CallIs'
  BY <1>1, <1>2 DEF CallIs
<1>4. TxsAre' /\ CallsAre'
  BY <1>1, <1>2, KeptIfSame, CallsStay DEF MarketMoves
<1> QED
  BY <1>3, <1>4 DEF RoutingInv

LEMMA ChainKeeps ==
  ASSUME RoutingInv, NEW i \in DOMAIN swapTxs, Executes(i) \/ Loses(i) \/ Expires(i)
  PROVE  RoutingInv'
<1>1. CallIs /\ TxsAre /\ CallsAre
  BY DEF RoutingInv
<1>2. setup \in Scenario /\ wallet \in [sol : Nat, wsol : Nat, tok : Nat]
  BY <1>1 DEF CallIs
<1>3. CASE Executes(i)
  <2>1. /\ swapTxs[i].status = "pending" /\ setup' = setup /\ pool' = pool /\ call' = call
        /\ result' = result /\ moved' = moved
    BY <1>3 DEF Executes
  <2>2. CASE Fits(swapTxs[i], pool) /\ Accepted(swapTxs[i])
    <3> DEFINE e == Executed(swapTxs[i])
    <3>1. /\ wallet' = e.wallet
          /\ swapTxs' = [swapTxs EXCEPT ![i] = [@ EXCEPT !.status = "done", !.paid = e.paid, !.got = e.got]]
      BY <1>3, <2>2 DEF Executes
    <3> HIDE DEF e
    <3>2. Kept /\ e.wallet \in [sol : Nat, wsol : Nat, tok : Nat]
      BY <1>1, <2>1, <2>2, <3>1, KeptIfDone DEF e
    <3> QED
      BY <1>2, <2>1, <3>1, <3>2, WaitKeeps
  <2>3. CASE ~(Fits(swapTxs[i], pool) /\ Accepted(swapTxs[i]))
    <3>1. swapTxs' = [swapTxs EXCEPT ![i].status = "reverted"] /\ wallet' = wallet
      BY <1>3, <2>3 DEF Executes
    <3>2. Kept
      BY <1>1, <2>1, <3>1, KeptIfStatus
    <3> QED
      BY <1>2, <2>1, <3>1, <3>2, WaitKeeps
  <2> QED
    BY <2>2, <2>3
<1>4. CASE Loses(i)
  <2>1. /\ swapTxs[i].status = "pending" /\ Spend("faults") /\ swapTxs' = [swapTxs EXCEPT ![i].status = "lost"]
        /\ pool' = pool /\ wallet' = wallet /\ call' = call /\ result' = result /\ moved' = moved
    BY <1>4 DEF Loses, Chain
  <2>2. setup' \in Scenario /\ Kept
    BY <1>1, <2>1, SpendIs, KeptIfStatus
  <2> QED
    BY <1>2, <2>1, <2>2, WaitKeeps
<1>5. CASE Expires(i)
  <2>1. /\ swapTxs[i].status = "lost" /\ setup' = setup /\ swapTxs' = [swapTxs EXCEPT ![i].status = "dead"]
        /\ pool' = pool /\ wallet' = wallet /\ call' = call /\ result' = result /\ moved' = moved
    BY <1>5 DEF Expires, Chain
  <2>2. Kept
    BY <1>1, <2>1, KeptIfStatus
  <2> QED
    BY <1>2, <2>1, <2>2, WaitKeeps
<1> QED
  BY <1>3, <1>4, <1>5

LEMMA RoutingKept ==
  RoutingInv /\ [RoutingNext]_routingVars => RoutingInv'
<1> SUFFICES ASSUME RoutingInv, [RoutingNext]_routingVars PROVE RoutingInv'
  OBVIOUS
<1>1. ASSUME NEW side \in {"buy", "sell"}, Request(side) PROVE RoutingInv'
  BY <1>1, RequestKeeps
<1>2. CASE SendSwap
  BY <1>2, JupiterBuildsKeeps, JupiterFailsKeeps, JupiterSimulatedKeeps, FallbackKeeps, ReadBaseKeeps,
     ReadFailsKeeps, ReadQuoteKeeps, NativeSimulatedKeeps, SendBundleKeeps, BundleConfirmedKeeps,
     SendDirectKeeps, SprayKeeps, ConfirmKeeps DEF SendSwap
<1>3. CASE Rebroadcast
  BY <1>3, RebroadcastKeeps
<1>4. CASE MarketMoves
  BY <1>4, MarketMovesKeeps
<1>5. ASSUME NEW i \in DOMAIN swapTxs, Executes(i) \/ Loses(i) \/ Expires(i) PROVE RoutingInv'
  BY <1>5, ChainKeeps
<1>6. CASE UNCHANGED routingVars
  BY <1>6 DEF routingVars, RoutingInv, CallIs, TxsAre, CallsAre, SuccessIsReal, Done, Last
<1> QED
  BY <1>1, <1>2, <1>3, <1>4, <1>5, <1>6 DEF RoutingNext

\* --- What follows ---

LEMMA RoutingIs ==
  RoutingInv => RoutingTypes /\ OneSwapPerCall /\ SpendIsCapped /\ FloorHolds /\ SuccessIsReal
<1> SUFFICES ASSUME RoutingInv
             PROVE  RoutingTypes /\ OneSwapPerCall /\ SpendIsCapped /\ FloorHolds /\ SuccessIsReal
  OBVIOUS
<1>1. CallIs /\ TxsAre /\ CallsAre
  BY DEF RoutingInv
<1>2. \A i \in DOMAIN swapTxs : swapTxs[i] \in SwapTx /\ Lawful(swapTxs[i])
  BY <1>1, ElementOfSeq, LenProperties DEF TxsAre
<1>3. RoutingTypes
  <2>1. \A i \in DOMAIN swapTxs : swapTxs[i].status \in {"signed", "pending", "lost", "done", "reverted", "dead"}
    BY <1>2 DEF SwapTx
  <2>2. \A i \in DOMAIN result : result[i] \in Error \cup {"landed"}
    BY <1>1, ElementOfSeq, LenProperties DEF TxsAre
  <2>3. /\ call.at \in {"idle", "ask", "checkJupiter", "fallback", "readBase", "readQuote", "check",
                        "send", "direct", "confirmBundle", "confirm"}
        /\ call.side \in {"none", "buy", "sell"} /\ call.jupiter \in Error \cup {"none"}
        /\ call.attempt \in 0 .. IF call.side = "sell" THEN 2 ELSE 3
    BY <1>1 DEF CallIs, Carrying
  <2> QED
    BY <1>1, <2>1, <2>2, <2>3 DEF RoutingTypes, CallIs
<1>4. OneSwapPerCall
  BY <1>1 DEF CallsAre, OneSwapPerCall, Done
<1>5. SpendIsCapped
  BY <1>2 DEF SpendIsCapped, Done, Lawful
<1>6. FloorHolds
  <2> SUFFICES ASSUME NEW i \in Done
               PROVE  /\ swapTxs[i].torn \/ swapTxs[i].read \in Markets
                      /\ swapTxs[i].venue # "JUPITER" =>
                           100 * (swapTxs[i].got + 1) > Fair(swapTxs[i]) * (100 - Slip)
    BY DEF FloorHolds, Fair
  <2> DEFINE tx == swapTxs[i]
             fair == Fair(tx) * (100 - Slip)
  <2>1. tx \in SwapTx /\ Lawful(tx) /\ tx.status = "done"
    BY <1>2 DEF Done
  <2>2. tx.got \in Nat /\ tx.least \in Nat
    BY <2>1 DEF SwapTx
  <2>3. /\ tx.torn \/ tx.read \in Markets
        /\ tx.venue # "JUPITER" => 100 * (tx.least + 1) > fair
        /\ tx.got >= tx.least
    BY <2>1 DEF Lawful
  <2>4. fair \in Int
    <3>1. Fair(tx) \in Nat
      <4>1. tx.read.tok \in Nat \ {0} /\ tx.read.sol \in Nat
        BY <2>1 DEF SwapTx, Reserves
      <4>2. BuySol \in Nat \ {0} /\ SellTok \in Nat \ {0}
        BY MarketFacts
      <4>3. /\ (tx.read.tok * BuySol) \div (tx.read.sol + BuySol) \in Nat
            /\ (tx.read.sol * SellTok) \div (tx.read.tok + SellTok) \in Nat
        <5> HIDE DEF tx
        <5> QED
          BY <4>1, <4>2, QuoteIs
      <4> QED
        BY <4>3 DEF Fair
    <3>2. 100 - Slip \in Nat
      BY MarketFacts
    <3> HIDE DEF tx
    <3> QED
      BY <3>1, <3>2, ProductIs
  <2> HIDE DEF tx, fair
  <2>5. tx.venue # "JUPITER" => 100 * (tx.got + 1) > fair
    BY <2>2, <2>3, <2>4
  <2> QED
    BY <2>3, <2>5 DEF tx, fair
<1>7. SuccessIsReal
  BY <1>1 DEF CallsAre
<1> QED
  BY <1>3, <1>4, <1>5, <1>6, <1>7

\* Only the fallback itself leaves its place, and it keeps Jupiter's error or
\* pays a fault.
LEMMA ErrorIsKept ==
  ASSUME RoutingInv, [RoutingNext]_routingVars,
         call.at = "fallback", call.jupiter = "route_unavailable", call'.at = "idle"
  PROVE  result'[Len(result')] = "route_unavailable" \/ setup'.faults < setup.faults
<1>1. CallIs /\ TxsAre
  BY DEF RoutingInv
<1>2. Fallback
  <2>1. call' # call
    OBVIOUS
  <2>2. ~(\E side \in {"buy", "sell"} : Request(side))
    BY DEF Request
  <2>3. ~Rebroadcast /\ ~MarketMoves /\ (\A i \in DOMAIN swapTxs : ~Executes(i) /\ ~Loses(i) /\ ~Expires(i))
    BY <2>1 DEF Rebroadcast, MarketMoves, Executes, Loses, Expires
  <2>4. /\ ~JupiterBuilds /\ ~JupiterFails /\ ~JupiterSimulated /\ ~ReadBase /\ ~ReadFails /\ ~ReadQuote
        /\ ~NativeSimulated /\ ~SendBundle /\ ~BundleConfirmed /\ ~SendDirect /\ ~Spray /\ ~Confirm
    BY DEF JupiterBuilds, JupiterFails, JupiterSimulated, ReadBase, ReadFails, ReadQuote, NativeSimulated,
           SendBundle, BundleConfirmed, SendDirect, Spray, Confirm
  <2>5. ~(UNCHANGED routingVars)
    BY <2>1 DEF routingVars
  <2> QED
    BY <2>2, <2>3, <2>4, <2>5 DEF RoutingNext, SendSwap
<1>3. CASE Spend("faults")
  BY <1>1, <1>3, SpendIs
<1>4. CASE CallEnds(call.jupiter)
  <2>1. result' = Append(result, "route_unavailable") /\ result \in Seq(Error \cup {"landed"})
    BY <1>1, <1>4 DEF CallEnds, TxsAre
  <2>2. "route_unavailable" \in Error \cup {"landed"}
    BY DEF Error
  <2> QED
    BY <2>1, <2>2, AppendProperties
<1>5. CASE CallAt("readBase")
  <2>1. call'.at = "readBase"
    BY <1>1, <1>5 DEF CallAt, CallIs
  <2> QED
    BY <2>1
<1> QED
  BY <1>2, <1>3, <1>4, <1>5 DEF Fallback

\* positionManager.ts's sendSwap, for every set of pool states, every slippage and
\* fee, any number of calls, moves of the market and failures: a call executes one
\* swap at most, a buy costs no more than was asked for, a swap brings its share of
\* a quote from reserves the pool had, a call reports "landed" of an executed swap
\* only, and the fallback without a real executor keeps Jupiter's error.
THEOREM SwapsExecuteSoundly ==
  RoutingSpec => ExecutionIsSound
<1>1. RoutingInit => RoutingInv
  BY RoutingStarts
<1>2. RoutingInv /\ [RoutingNext]_routingVars => RoutingInv'
  BY RoutingKept
<1>3. RoutingInv => RoutingTypes /\ OneSwapPerCall /\ SpendIsCapped /\ FloorHolds /\ SuccessIsReal
  BY RoutingIs
<1>4. RoutingInv /\ [RoutingNext]_routingVars =>
        [call.at = "fallback" /\ call.jupiter = "route_unavailable" /\ call'.at = "idle" =>
           \/ result'[Len(result')] = "route_unavailable"
           \/ setup'.faults < setup.faults]_routingVars
  BY ErrorIsKept
<1> QED
  BY <1>1, <1>2, <1>3, <1>4, PTL DEF RoutingSpec, ExecutionIsSound, FirstErrorIsKept
=============================================================================
