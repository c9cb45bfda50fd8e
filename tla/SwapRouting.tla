------------------------------ MODULE SwapRouting ------------------------------
(***************************************************************************)
(* How one swap is built, checked and sent: PositionManager.sendSwap, which *)
(* asks Jupiter and falls back to the token's own DEX, the native executors *)
(* (dex/pumpswapExecutor.ts, dex/raydiumExecutor.ts, dex/registry.ts), and  *)
(* the three ways of sending (plain, Jito bundle, fast spray).  Pool and    *)
(* wallet move in small units; other traders move the pool between reserves *)
(* read, simulated and executed, and read back a pool of Markets.           *)
(***************************************************************************)
EXTENDS Integers, Sequences, FiniteSetsExt

CONSTANTS Markets,    \* states of the pool: [tok, sol]
          BuySol, SellTok,    \* what a call asks for
          Slip, Fee,  \* per cent: slippageBps, the program's fee
          Scenarios   \* [dex, known, mayhem, way, calls, moves, faults]

RoutingAssumption ==
    /\ Markets \subseteq [tok : Nat \ {0}, sol : Nat] /\ Markets # {}
    /\ BuySol \in Nat \ {0} /\ SellTok \in Nat \ {0} /\ Slip \in 0 .. 99 /\ Fee \in 0 .. 99
    /\ Scenarios \subseteq [dex : {"PUMPSWAP", "RAYDIUM", "ORCA"}, known : BOOLEAN, mayhem : BOOLEAN,
                            way : {"plain", "jito", "fast"}, calls : Nat, moves : Nat, faults : Nat]

ASSUME RoutingAssumption

VARIABLES setup,    \* the scenario, with what is left of its budgets
          pool, wallet,
          call,     \* the running sendSwap
          swapTxs,  \* every signed transaction, the last one the call's own
          result,   \* of the calls so far
          moved     \* the pool moved since the call's first read of it

routingVars == <<setup, pool, wallet, call, swapTxs, result, moved>>

NoReserves == [tok |-> 0, sol |-> 0]
NoCall == [at |-> "idle", side |-> "none", attempt |-> 0, jupiter |-> "none", read |-> NoReserves]
Error == {"rpc_timeout", "jupiter_failure", "simulation_failed", "route_unavailable",
          "liquidity", "confirmation_timeout", "blockhash_expired", "other"}

\* Types of the wallet, the call and the transactions.
RoutingTypes ==
    /\ pool \in Markets /\ moved \in BOOLEAN
    /\ wallet \in [sol : Nat, wsol : Nat, tok : Nat]
    /\ call.at \in {"idle", "ask", "checkJupiter", "fallback", "readBase", "readQuote", "check",
                    "send", "direct", "confirmBundle", "confirm"}
    /\ call.attempt \in 0 .. IF call.side = "sell" THEN 2 ELSE 3
    /\ call.side \in {"none", "buy", "sell"} /\ call.jupiter \in Error \cup {"none"}
    /\ \A i \in DOMAIN swapTxs : swapTxs[i].status \in {"signed", "pending", "lost", "done", "reverted", "dead"}
    /\ \A i \in DOMAIN result : result[i] \in Error \cup {"landed"}

RoutingInit ==
    /\ setup \in Scenarios /\ pool = CHOOSE p \in Markets : TRUE
    /\ wallet = [sol |-> 5 * BuySol, wsol |-> 0, tok |-> SellTok]
    /\ call = NoCall /\ swapTxs = <<>> /\ result = <<>> /\ moved = FALSE

Spend(what) == setup[what] > 0 /\ setup' = [setup EXCEPT ![what] = @ - 1]
Chain == <<pool, wallet>>
Last == Len(swapTxs)

-----------------------------------------------------------------------------
(* Quotes: pumpswapExecutor.ts's two pure functions and the program's price. *)

\* quoteConstantProduct
Quote(reserveIn, reserveOut, amount) ==
    IF reserveIn = 0 \/ reserveOut = 0 THEN 0 ELSE (reserveOut * amount) \div (reserveIn + amount)

\* applySlippageFloor
Floor(amount) == (amount * (100 - Slip)) \div 100

\* What the program pays and takes for a trade, its fee included
Out(reserveIn, reserveOut, amount) ==
    (((reserveOut * amount) \div (reserveIn + amount)) * (100 - Fee)) \div 100
Cost(p, tokens) == LET net == (p.sol * tokens) \div (p.tok - tokens) + 1 IN (net * (100 + Fee)) \div 100

-----------------------------------------------------------------------------
(* Transactions on the chain. *)

\* decodePumpSwapPool: the pool's own is_mayhem_mode flag
Mayhem == setup.mayhem

\* The fee recipient PumpSwap's GlobalConfig prescribes for the pool's kind
Recipient == IF Mayhem THEN "reserved" ELSE "normal"

\* A transaction: its venue, what goes in, the least that must come out (for
\* a PumpSwap buy what must come out, and the most it may cost), the reserves
\* it was computed from.
Tx(venue, side, in, least, read) ==
    [venue |-> venue, side |-> side, in |-> in, least |-> least, read |-> read,
     recipient |-> IF venue = "PUMPSWAP" THEN Recipient ELSE "none",
     torn |-> moved, paid |-> 0, got |-> 0, call |-> Len(result) + 1, status |-> "signed"]

\* Whether it would execute against this pool and wallet
Fits(tx, p) ==
    IF tx.side = "buy"
    THEN /\ wallet.sol >= tx.in
         /\ IF tx.venue = "PUMPSWAP" THEN p.tok > tx.least /\ Cost(p, tx.least) <= tx.in
            ELSE Out(p.sol, p.tok, tx.in) >= tx.least
    ELSE wallet.tok >= tx.in /\ Out(p.tok, p.sol, tx.in) >= tx.least
Accepted(tx) == tx.venue # "PUMPSWAP" \/ tx.recipient = IF setup.mayhem THEN "reserved" ELSE "normal"

\* A buy wraps all of its amount first, and PumpSwap takes only what the
\* tokens cost: the rest stays wrapped.  A sale closes the wrapped account,
\* and so does every swap of Jupiter's.
Executed(tx) ==
    IF tx.side = "buy"
    THEN LET cost == IF tx.venue = "PUMPSWAP" THEN Cost(pool, tx.least) ELSE tx.in
             got == IF tx.venue = "PUMPSWAP" THEN tx.least ELSE Out(pool.sol, pool.tok, tx.in)
             closed == tx.venue = "JUPITER"
         IN  [paid |-> cost, got |-> got,
              wallet |-> [sol |-> wallet.sol - tx.in + (IF closed THEN wallet.wsol ELSE 0),
                          wsol |-> IF closed THEN 0 ELSE wallet.wsol + tx.in - cost,
                          tok |-> wallet.tok + got]]
    ELSE LET out == Out(pool.tok, pool.sol, tx.in) IN
         [paid |-> tx.in, got |-> out,
          wallet |-> [sol |-> wallet.sol + wallet.wsol + out, wsol |-> 0, tok |-> wallet.tok - tx.in]]

Executes(i) ==
    /\ swapTxs[i].status = "pending"
    /\ IF Fits(swapTxs[i], pool) /\ Accepted(swapTxs[i])
       THEN LET e == Executed(swapTxs[i]) IN
            /\ wallet' = e.wallet
            /\ swapTxs' = [swapTxs EXCEPT ![i] = [@ EXCEPT !.status = "done", !.paid = e.paid, !.got = e.got]]
       ELSE swapTxs' = [swapTxs EXCEPT ![i].status = "reverted"] /\ UNCHANGED wallet
    /\ UNCHANGED <<setup, pool, call, result, moved>>

\* A copy that was accepted is lost, or its blockhash expires.
Loses(i) ==
    /\ swapTxs[i].status = "pending" /\ Spend("faults") /\ swapTxs' = [swapTxs EXCEPT ![i].status = "lost"]
    /\ UNCHANGED <<Chain, call, result, moved>>
Expires(i) ==
    /\ swapTxs[i].status = "lost" /\ swapTxs' = [swapTxs EXCEPT ![i].status = "dead"]
    /\ UNCHANGED <<setup, Chain, call, result, moved>>

MarketMoves ==
    /\ Spend("moves") /\ pool' \in Markets \ {pool} /\ moved' = TRUE
    /\ UNCHANGED <<wallet, call, swapTxs, result>>

-----------------------------------------------------------------------------
(* sendSwap. *)

CallAt(at) == call' = [call EXCEPT !.at = at]
CallEnds(outcome) == result' = Append(result, outcome) /\ call' = NoCall

Request(side) ==
    /\ call.at = "idle" /\ Spend("calls")
    /\ side = "buy" => wallet.sol >= BuySol
    /\ side = "sell" => wallet.tok >= SellTok
    /\ call' = [NoCall EXCEPT !.at = "ask", !.side = side, !.attempt = 1]
    /\ UNCHANGED <<Chain, swapTxs, result, moved>>

\* BUY_SEND_SWAP_OPTIONS, SELL_SEND_SWAP_OPTIONS
MaxAttempts == IF call.side = "buy" THEN 3 ELSE 2

\* What classifySellFailure looks for in a message, in its order; a message may
\* mention several.
Looked == <<"position_lock", "token_account_issue", "ata_issue", "blockhash_expired", "slippage",
            "route_unavailable", "liquidity", "simulation_failed", "priority_fee_too_low", "reverted",
            "confirmation_timeout", "rpc_timeout", "jupiter_failure">>
Category(message) ==
    LET found == {i \in DOMAIN Looked : Looked[i] \in message}
    IN IF found = {} \/ Looked[Min(found)] = "reverted" THEN "other" ELSE Looked[Min(found)]

\* retryablePreBroadcast: certain never to have been broadcast.
BeforeBroadcast == {"blockhash_expired", "rpc_timeout", "jupiter_failure"}

Retryable(error) ==
    \/ error \in BeforeBroadcast
    \/ error = "simulation_failed" /\ call.side = "buy"

\* Jupiter's quote and transaction, signed
JupiterBuilds ==
    /\ call.at = "ask" /\ CallAt("checkJupiter")
    /\ LET tx == IF call.side = "buy"
                 THEN Tx("JUPITER", "buy", BuySol, Floor(Out(pool.sol, pool.tok, BuySol)), pool)
                 ELSE Tx("JUPITER", "sell", SellTok, Floor(Out(pool.tok, pool.sol, SellTok)), pool)
       IN  swapTxs' = Append(swapTxs, tx)
    /\ moved' = FALSE /\ UNCHANGED <<setup, Chain, result>>

\* prepareSwap throws: again, or to the token's own DEX
JupiterThrows(error) ==
    IF Retryable(error) /\ call.attempt < MaxAttempts
    THEN call' = [call EXCEPT !.at = "ask", !.attempt = @ + 1]
    ELSE call' = [call EXCEPT !.at = "fallback", !.jupiter = error]

JupiterFails ==
    /\ call.at = "ask" /\ Spend("faults")
    /\ \E cause \in {"rpc_timeout", "route_unavailable"} : JupiterThrows(Category({cause, "jupiter_failure"}))
    /\ UNCHANGED <<Chain, swapTxs, result, moved>>

\* prepareSwap's simulation, which SKIP_BUY_SIMULATION may leave out
JupiterSimulated ==
    /\ call.at = "checkJupiter"
    /\ \/ (Fits(swapTxs[Last], pool) \/ call.side = "buy") /\ CallAt("send") /\ UNCHANGED swapTxs
       \/ ~Fits(swapTxs[Last], pool) /\ JupiterThrows("simulation_failed") /\ swapTxs' = SubSeq(swapTxs, 1, Last - 1)
    /\ UNCHANGED <<setup, Chain, result, moved>>

\* getFallbackTarget and getExecutor: without a pool or a real executor,
\* Jupiter's error stands; a failed read of the token row throws as it is.
Fallback ==
    /\ call.at = "fallback"
    /\ \/ /\ IF ~setup.known \/ setup.dex = "ORCA" THEN CallEnds(call.jupiter)
             ELSE CallAt("readBase") /\ UNCHANGED result
          /\ UNCHANGED setup
       \/ Spend("faults") /\ CallEnds("other")
    /\ UNCHANGED <<Chain, swapTxs, moved>>

-----------------------------------------------------------------------------
(* buildSwap of the two executors: the two vaults are read by two requests. *)

ReadBase ==
    /\ call.at = "readBase" /\ moved' = FALSE
    /\ call' = [call EXCEPT !.at = "readQuote", !.read = [tok |-> pool.tok, sol |-> 0]]
    /\ UNCHANGED <<setup, Chain, swapTxs, result>>

ReadFails ==
    /\ call.at \in {"readBase", "readQuote"} /\ Spend("faults") /\ CallEnds("rpc_timeout")
    /\ UNCHANGED <<Chain, swapTxs, moved>>

\* The instruction's amounts: so many tokens for at most BuySol, or all of the
\* tokens for at least so much
PumpSwapTx(read) ==
    IF call.side = "buy" THEN Tx("PUMPSWAP", "buy", BuySol, Floor(Quote(read.sol, read.tok, BuySol)), read)
    ELSE Tx("PUMPSWAP", "sell", SellTok, Floor(Quote(read.tok, read.sol, SellTok)), read)

\* The input vault is the one of the mint that goes in.
RaydiumTx(read) ==
    LET amount == IF call.side = "buy" THEN BuySol ELSE SellTok
        out == IF call.side = "buy" THEN Quote(read.sol, read.tok, amount) ELSE Quote(read.tok, read.sol, amount)
    IN  Tx("RAYDIUM", call.side, amount, Floor(out), read)

\* An empty quote is refused, but for a sale on PumpSwap.
ReadQuote ==
    /\ call.at = "readQuote"
    /\ LET read == [call.read EXCEPT !.sol = pool.sol]
           tx == IF setup.dex = "PUMPSWAP" THEN PumpSwapTx(read) ELSE RaydiumTx(read) IN
       IF tx.least = 0 /\ ~(setup.dex = "PUMPSWAP" /\ call.side = "sell")
       THEN CallEnds("liquidity") /\ UNCHANGED swapTxs
       ELSE CallAt("check") /\ swapTxs' = Append(swapTxs, tx) /\ UNCHANGED result
    /\ UNCHANGED <<setup, Chain, moved>>

NativeSimulated ==
    /\ call.at = "check"
    /\ IF Fits(swapTxs[Last], pool) /\ Accepted(swapTxs[Last]) THEN CallAt("send") /\ UNCHANGED <<swapTxs, result>>
       ELSE CallEnds("simulation_failed") /\ swapTxs' = SubSeq(swapTxs, 1, Last - 1)
    /\ UNCHANGED <<setup, Chain, moved>>

-----------------------------------------------------------------------------
(* broadcastTransaction. *)

Pend == swapTxs' = [swapTxs EXCEPT ![Last].status = IF @ = "signed" THEN "pending" ELSE @]

\* The bundle is accepted, or refused and the direct way taken
SendBundle ==
    /\ call.at = "send" /\ setup.way = "jito"
    /\ \/ Pend /\ CallAt("confirmBundle") /\ UNCHANGED setup
       \/ Spend("faults") /\ CallAt("direct") /\ UNCHANGED swapTxs
    /\ UNCHANGED <<Chain, result, moved>>

\* A bundle that reverted, or whose confirmation failed, is sent directly: the
\* same bytes, which execute once at most.
BundleConfirmed ==
    /\ call.at = "confirmBundle"
    /\ \/ swapTxs[Last].status = "done" /\ CallEnds("landed") /\ UNCHANGED setup
       \/ swapTxs[Last].status \in {"reverted", "dead"} /\ CallAt("direct") /\ UNCHANGED <<setup, result>>
       \/ Spend("faults") /\ CallAt("direct") /\ UNCHANGED result
    /\ UNCHANGED <<Chain, swapTxs, moved>>

\* One endpoint, with preflight, which refuses bytes the chain has seen and
\* what would not execute
SendDirect ==
    /\ call.at = "direct" \/ (call.at = "send" /\ setup.way = "plain")
    /\ \/ swapTxs[Last].status \in {"signed", "pending", "lost"} /\ Pend /\ CallAt("confirm") /\ UNCHANGED <<setup, result>>
       \/ /\ swapTxs[Last].status \in {"done", "reverted", "dead"} \/ ~Fits(swapTxs[Last], pool)
          /\ CallEnds("other") /\ UNCHANGED <<setup, swapTxs>>
       \/ Spend("faults") /\ CallEnds("rpc_timeout") /\ UNCHANGED swapTxs
    /\ UNCHANGED <<Chain, moved>>

\* sprayTransaction: some endpoint answers; or all refuse; or none answers in
\* time, whatever it does with the bytes.
Spray ==
    /\ call.at = "send" /\ setup.way = "fast"
    /\ \/ Pend /\ CallAt("confirm") /\ UNCHANGED <<setup, result>>
       \/ Spend("faults") /\ CallEnds("rpc_timeout") /\ (Pend \/ UNCHANGED swapTxs)
    /\ UNCHANGED <<Chain, moved>>

\* startRebroadcast, until the confirmation
Rebroadcast ==
    /\ call.at = "confirm" /\ setup.way = "fast" /\ swapTxs[Last].status = "lost"
    /\ swapTxs' = [swapTxs EXCEPT ![Last].status = "pending"]
    /\ UNCHANGED <<setup, Chain, call, result, moved>>

\* Mutant of Confirm: an unknown outcome builds the swap again.
ConfirmAgain ==
    /\ call.at = "confirm"
    /\ \/ swapTxs[Last].status = "done" /\ CallEnds("landed") /\ UNCHANGED setup
       \/ swapTxs[Last].status = "reverted" /\ CallEnds(Category({"reverted"})) /\ UNCHANGED setup
       \/ Spend("faults") /\ CallAt("ask") /\ UNCHANGED result
    /\ UNCHANGED <<Chain, swapTxs, moved>>

\* Jupiter's transactions carry a block height; a native one is only waited
\* for.  The confirmation itself may fail at any time.
Confirm ==
    /\ call.at = "confirm"
    /\ \/ swapTxs[Last].status = "done" /\ CallEnds("landed") /\ UNCHANGED setup
       \/ swapTxs[Last].status = "reverted" /\ CallEnds(Category({"reverted"})) /\ UNCHANGED setup
       \/ /\ swapTxs[Last].status = "dead" /\ UNCHANGED setup
          /\ CallEnds(IF swapTxs[Last].venue = "JUPITER" THEN "blockhash_expired" ELSE "confirmation_timeout")
       \/ Spend("faults") /\ CallEnds("confirmation_timeout")
    /\ UNCHANGED <<Chain, swapTxs, moved>>

-----------------------------------------------------------------------------
SendSwap ==
    \/ JupiterBuilds \/ JupiterFails \/ JupiterSimulated \/ Fallback
    \/ ReadBase \/ ReadFails \/ ReadQuote \/ NativeSimulated
    \/ SendBundle \/ BundleConfirmed \/ SendDirect \/ Spray \/ Confirm

RoutingNext ==
    \/ \E side \in {"buy", "sell"} : Request(side)
    \/ SendSwap \/ Rebroadcast \/ MarketMoves
    \/ \E i \in DOMAIN swapTxs : Executes(i) \/ Loses(i) \/ Expires(i)

RoutingSpec == RoutingInit /\ [][RoutingNext]_routingVars

\* Requests are answered or time out; a transaction executes, or expires.
RoutingFairness ==
    /\ WF_routingVars(SendSwap) /\ WF_routingVars(Rebroadcast)
    /\ WF_routingVars(\E i \in DOMAIN swapTxs : Executes(i)) /\ WF_routingVars(\E i \in DOMAIN swapTxs : Expires(i))

-----------------------------------------------------------------------------
(* Properties. *)

Done == {i \in DOMAIN swapTxs : swapTxs[i].status = "done"}

\* positionManager.ts:720-741: whatever is retried, sprayed or sent again, one
\* call of sendSwap executes one swap at most.
OneSwapPerCall == \A i, j \in Done : i # j => swapTxs[i].call # swapTxs[j].call

\* pumpswapExecutor.ts's "hard SOL spend cap": a buy costs at most what was
\* asked for, whatever is left wrapped in the wallet and however the market
\* moves.
SpendIsCapped == \A i \in Done : swapTxs[i].side = "buy" => swapTxs[i].paid <= BuySol

\* What executes brings at least the slippage share of a quote from the
\* reserves it was computed from, and these were the pool's own unless the
\* market moved between the two reads.
FloorHolds ==
    \A i \in Done :
        /\ swapTxs[i].torn \/ swapTxs[i].read \in Markets
        /\ swapTxs[i].venue # "JUPITER" =>
               LET r == swapTxs[i].read
                   fair == IF swapTxs[i].side = "buy" THEN (r.tok * BuySol) \div (r.sol + BuySol)
                           ELSE (r.sol * SellTok) \div (r.tok + SellTok)
               IN  100 * (swapTxs[i].got + 1) > fair * (100 - Slip)

\* What stays wrapped is what PumpSwap buys left over: a sale, whatever came
\* before it, strands nothing of its own.
NothingStranded ==
    LET buys == {i \in Done : swapTxs[i].side = "buy" /\ swapTxs[i].venue = "PUMPSWAP"} IN
    wallet.wsol <= MapThenSumSet(LAMBDA i : swapTxs[i].in - swapTxs[i].paid, buys)

\* The fallback's 2026-07-26 fix: without a real executor the caller sees
\* Jupiter's own category, so a missing route is never taken for a passing
\* failure.
FirstErrorIsKept ==
    [][call.at = "fallback" /\ call.jupiter = "route_unavailable" /\ call'.at = "idle" =>
           \/ result'[Len(result')] = "route_unavailable"
           \/ setup'.faults < setup.faults]_routingVars

\* A native swap fails its simulation only because the market moved, or the
\* wallet lacks the funds: the accounts it names are right for every pool.
RefusedForCause ==
    [][call.at = "check" /\ call'.at = "idle" =>
           moved \/ (call.side = "buy" /\ wallet.sol < BuySol) \/ wallet.tok < SellTok]_routingVars

\* A call that reports a landed swap has executed one.
SuccessIsReal == \A c \in DOMAIN result : result[c] = "landed" => \E i \in Done : swapTxs[i].call = c

Returned == call.at = "idle"

\* What holds of every call, whatever its venue and way of sending: one executed
\* swap at most, the spend cap, the slippage floor, an honest answer and an honest
\* error.
ExecutionIsSound ==
    /\ [](RoutingTypes /\ OneSwapPerCall /\ SpendIsCapped /\ FloorHolds /\ SuccessIsReal)
    /\ FirstErrorIsKept

\* And nothing is stranded, nor a swap refused that would have executed.
RoutingIsSound == ExecutionIsSound /\ []NothingStranded /\ RefusedForCause

=============================================================================
