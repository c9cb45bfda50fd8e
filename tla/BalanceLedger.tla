--------------------------- MODULE BalanceLedger ----------------------------
(***************************************************************************)
(* The wallets' SOL on chain and the transfers the API process signs and   *)
(* sends with solana/broadcast.ts: a signed transfer can land once, until  *)
(* its blockhash expires; whoever sent it hears of it through              *)
(* confirmTransaction, or hears an error that says nothing.  Beside them   *)
(* packages/shared/src/wallet/balanceLedger.ts and its callers: the        *)
(* DepositMonitor's poll, POST /wallets/:id/refresh-balance and the bot's  *)
(* button; and routes/wallets.ts's rows and recorded withdrawals.          *)
(***************************************************************************)
EXTENDS Integers, Sequences

CONSTANTS Wallet,
          TxFee,     \* the fee estimate the senders reserve and the chain charges
          Reserve    \* MIN_WALLET_RESERVE_SOL

ASSUME FeeAssumption == TxFee \in Nat /\ Reserve \in Nat

VARIABLES sol,     \* each wallet's balance
          txs      \* transfers signed: payer, amount, what each one is for

chainVars == <<sol, txs>>

TxRecord == [from : Wallet, amount : Nat, for : {"payout", "plan"} \X Nat,
             state : {"signed", "pending", "landed", "dead"}]

\* A transfer is built and signed: its signature is its number from here on.
Sign(w, n, why) ==
    txs' = Append(txs, [from |-> w, amount |-> n, for |-> why, state |-> "signed"])

\* sendTransaction, or the spray to every sender, hands it to the network.
Broadcast(i) == txs' = [txs EXCEPT ![i].state = "pending"]

\* It never gets that far: the bytes are gone with the call that held them.
Drop(i) == txs' = [txs EXCEPT ![i].state = "dead"]

For(why) == {i \in DOMAIN txs : txs[i].for = why}

\* What a sender's own balance check demands before it signs.
Affords(balance, n) == balance >= n + TxFee + Reserve

\* The chain executes a transfer the payer can fund.
Land(i) ==
    /\ txs[i].state = "pending" /\ sol[txs[i].from] >= txs[i].amount + TxFee
    /\ txs' = [txs EXCEPT ![i].state = "landed"]
    /\ sol' = [sol EXCEPT ![txs[i].from] = @ - txs[i].amount - TxFee]

\* It reverts, or its blockhash expires before any copy is included.
Die(i) ==
    /\ txs[i].state = "pending"
    /\ txs' = [txs EXCEPT ![i].state = "dead"]
    /\ UNCHANGED sol
-----------------------------------------------------------------------------
CONSTANTS Refresh,     \* refreshes asked for over the API or in the bot
          Null         \* no balance known yet

ASSUME NullAssumption == Null \notin Int /\ {"monitor", "admin"} \cap Refresh = {}

VARIABLES
    row,         \* each wallet's row: none, active, or soft-deleted
    known,       \* lastKnownBalanceLamports
    credited,    \* sum of its DEPOSIT ledger entries
    todo,        \* DepositMonitor: the wallets of this tick not yet refreshed
    fetched,     \* DepositMonitor: its batched balances
    bpc, bop,    \* each refresher's place and locals
    owed,        \* withdrawals made by hand, until the admin has recorded them
    inflow,      \* observer: what the chain really brought in
    aged,        \* observer: samples taken before known was last written
    stale        \* observer: wallets whose known was written from an older balance

monitorVars == <<todo, fetched>>
observers   == <<inflow, aged, stale>>
ledgerVars  == <<row, known, credited, monitorVars, bpc, bop, owed, observers>>

Refresher == Refresh \cup {"monitor"}

Balance == Int \cup {Null}
BopType == [wallet : Wallet \cup {"none"}, previous : Balance, lamports : Nat]
OutType == [wallet : Wallet, amount : Nat, known : Balance, read : BOOLEAN]
Holder  == (Refresher \cup {"admin"}) \X Wallet

NoRefresh == [wallet |-> "none", previous |-> Null, lamports |-> 0]

LedgerTypeOK ==
    /\ row \in [Wallet -> {"none", "active", "inactive"}]
    /\ known \in [Wallet -> Balance] /\ credited \in [Wallet -> Nat]
    /\ todo \in SUBSET Wallet /\ fetched \in [Wallet -> Nat]
    /\ bpc \in [Refresher -> {"idle", "rpc", "row", "next", "write", "done"}]
    /\ bop \in [Refresher -> BopType] /\ owed \subseteq OutType
    /\ inflow \in [Wallet -> Nat] /\ aged \subseteq Holder /\ stale \in SUBSET Wallet

LedgerInit ==
    /\ row \in [Wallet -> {"none", "active"}]
    /\ known = [w \in Wallet |-> Null] /\ credited = [w \in Wallet |-> 0]
    /\ todo = {} /\ fetched = [w \in Wallet |-> 0]
    /\ bpc = [r \in Refresher |-> "idle"] /\ bop = [r \in Refresher |-> NoRefresh]
    /\ owed = {}
    /\ inflow = [w \in Wallet |-> 0] /\ aged = {} /\ stale = {}

Move(r, from, to) == bpc[r] = from /\ bpc' = [bpc EXCEPT ![r] = to]

\* Where a refresher goes after a wallet: the tick goes on, a request is over.
Onward(r) == IF r = "monitor" THEN "next" ELSE "done"

Overwrite(w, n) ==
    /\ known' = [known EXCEPT ![w] = n]
    /\ aged' = aged \cup {<<g, w>> : g \in Refresher \cup {"admin"}}

\* known is written, from what holder h saw of the wallet.
SetKnown(h, w, n) ==
    /\ Overwrite(w, n)
    /\ stale' = IF <<h, w>> \in aged THEN stale \cup {w} ELSE stale
-----------------------------------------------------------------------------
\* routes/wallets.ts: a wallet is created or imported, soft-deleted, restored.
AddWallet(w) ==
    /\ row[w] = "none" /\ row' = [row EXCEPT ![w] = "active"]
    /\ UNCHANGED <<known, credited, monitorVars, bpc, bop, owed, observers, chainVars>>

DeleteWallet(w) ==
    /\ row[w] # "none" /\ row' = [row EXCEPT ![w] = "inactive"]
    /\ UNCHANGED <<known, credited, monitorVars, bpc, bop, owed, observers, chainVars>>

RestoreWallet(w) ==
    /\ row[w] = "inactive" /\ row' = [row EXCEPT ![w] = "active"]
    /\ UNCHANGED <<known, credited, monitorVars, bpc, bop, owed, observers, chainVars>>

\* DepositMonitor.tick behind its ticking guard: the active wallets.
Tick ==
    /\ Move("monitor", "idle", "rpc")
    /\ todo' = {w \in Wallet : row[w] = "active"}
    /\ UNCHANGED <<row, known, credited, fetched, bop, owed, observers, chainVars>>

\* getMultipleAccountsInfo: every balance of the batch, or of none.
Prefetch ==
    /\ Move("monitor", "rpc", "next")
    /\ fetched' = sol /\ aged' = aged \ ({"monitor"} \X Wallet)
    /\ UNCHANGED <<row, known, credited, todo, bop, owed, inflow, stale, chainVars>>

BatchFails ==
    /\ Move("monitor", "rpc", "next")
    /\ todo' = {}
    /\ UNCHANGED <<row, known, credited, fetched, bop, owed, observers, chainVars>>

\* refreshWalletBalance with the prefetched balance: the row is read after it.
MonitorRow(w) ==
    /\ w \in todo /\ todo' = todo \ {w}
    /\ IF row[w] = "active"
       THEN /\ Move("monitor", "next", "write")
            /\ bop' = [bop EXCEPT !["monitor"] =
                         [wallet |-> w, previous |-> known[w], lamports |-> fetched[w]]]
       ELSE Move("monitor", "next", "next") /\ UNCHANGED bop
    /\ UNCHANGED <<row, known, credited, fetched, owed, observers, chainVars>>

TickEnds ==
    /\ todo = {} /\ Move("monitor", "next", "idle")
    /\ UNCHANGED <<row, known, credited, monitorVars, bop, owed, observers, chainVars>>

\* On demand the row comes first, then getBalance.
RefreshRow(r, w) ==
    /\ IF row[w] = "active"
       THEN /\ Move(r, "idle", "row")
            /\ bop' = [bop EXCEPT ![r] = [NoRefresh EXCEPT !.wallet = w, !.previous = known[w]]]
       ELSE Move(r, "idle", "done") /\ UNCHANGED bop
    /\ UNCHANGED <<row, known, credited, monitorVars, owed, observers, chainVars>>

RefreshBalance(r) ==
    /\ Move(r, "row", "write")
    /\ bop' = [bop EXCEPT ![r].lamports = sol[bop[r].wallet]]
    /\ aged' = aged \ {<<r, bop[r].wallet>>}
    /\ UNCHANGED <<row, known, credited, monitorVars, owed, inflow, stale, chainVars>>

\* A balance above the one the row showed; the first one ever seen is no rise.
Rose(o) == o.previous # Null /\ o.lamports > o.previous

\* The first balance seen, and one that did not rise, are written whatever
\* known is by now.
WriteCache(r) ==
    LET o == bop[r]
    IN  /\ Move(r, "write", Onward(r))
        /\ ~ Rose(o)
        /\ SetKnown(r, o.wallet, o.lamports)
        /\ UNCHANGED <<row, credited, monitorVars, bop, owed, inflow, chainVars>>

\* Mutant of WriteDeposit: no check that known still is what was read.
WriteDepositBlind(r) ==
    LET o == bop[r]
    IN  /\ Move(r, "write", Onward(r))
        /\ Rose(o)
        /\ IF known[o.wallet] = o.previous THEN SetKnown(r, o.wallet, o.lamports)
                                          ELSE Overwrite(o.wallet, o.lamports) /\ UNCHANGED stale
        /\ credited' = [credited EXCEPT ![o.wallet] = @ + (o.lamports - o.previous)]
        /\ UNCHANGED <<row, monitorVars, bop, owed, inflow, chainVars>>

\* A rise is a deposit, if known still is what was read.
WriteDeposit(r) ==
    LET o == bop[r]
    IN  /\ Move(r, "write", Onward(r))
        /\ Rose(o)
        /\ IF known[o.wallet] = o.previous
           THEN /\ SetKnown(r, o.wallet, o.lamports)
                /\ credited' = [credited EXCEPT ![o.wallet] = @ + (o.lamports - o.previous)]
           ELSE UNCHANGED <<known, credited, aged, stale>>
        /\ UNCHANGED <<row, monitorVars, bop, owed, inflow, chainVars>>

\* A query or call rejects: this wallet is left for the next tick or request.
RefreshFails(r) ==
    /\ \E from \in {"row", "write"} : Move(r, from, Onward(r))
    /\ UNCHANGED <<row, known, credited, monitorVars, bop, owed, observers, chainVars>>

\* The admin moves SOL out by hand; POST /wallets/:id/withdrawals records it.  Of
\* withdrawals not yet recorded the first one's age counts.
MoveOut(w, n) ==
    /\ n <= sol[w] /\ sol' = [sol EXCEPT ![w] = @ - n]
    /\ owed' = owed \cup {[wallet |-> w, amount |-> n, known |-> Null, read |-> FALSE]}
    /\ aged' = IF \E x \in owed : x.wallet = w THEN aged ELSE aged \ {<<"admin", w>>}
    /\ UNCHANGED <<row, known, credited, monitorVars, bpc, bop, inflow, stale, txs>>

ReadWithdrawal(x) ==
    /\ x \in owed /\ ~ x.read
    /\ owed' = (owed \ {x}) \cup {[x EXCEPT !.known = known[x.wallet], !.read = TRUE]}
    /\ UNCHANGED <<row, known, credited, monitorVars, bpc, bop, observers, chainVars>>

\* The amount is taken off the balance read, unless none is known.
RecordWithdrawal(x) ==
    /\ x \in owed /\ x.read /\ owed' = owed \ {x}
    /\ IF x.known = Null THEN UNCHANGED <<known, aged, stale>>
                         ELSE SetKnown("admin", x.wallet, x.known - x.amount)
    /\ UNCHANGED <<row, credited, monitorVars, bpc, bop, inflow, chainVars>>

\* SOL arrives: a transfer from outside, or the proceeds of a sale.
Deposit(w, n) ==
    /\ sol' = [sol EXCEPT ![w] = @ + n] /\ inflow' = [inflow EXCEPT ![w] = @ + n]
    /\ UNCHANGED <<row, known, credited, monitorVars, bpc, bop, owed, aged, stale, txs>>

MonitorStep ==
    \/ Tick \/ Prefetch \/ TickEnds \/ WriteCache("monitor") \/ WriteDeposit("monitor")
    \/ \E w \in Wallet : MonitorRow(w)

RefreshStep(r) == RefreshBalance(r) \/ WriteCache(r) \/ WriteDeposit(r)
=============================================================================
