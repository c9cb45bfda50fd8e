---------------------------- MODULE PlanPurchase ----------------------------
(***************************************************************************)
(* business/planPurchase.ts: one user buys packages, each request paying   *)
(* the price from a bot wallet on chain and then recording a subscription  *)
(* and moving the user onto the plan; packages/shared/src/plans.ts says    *)
(* which plan is in force and when a bought one ends.  Days are numbers.   *)
(***************************************************************************)
EXTENDS BalanceLedger, FiniteSets

CONSTANTS Request,     \* POST /plans/purchase
          Plan,        \* paid plans
          Price, Days, \* of every plan
          LastDay      \* bound on the calendar

ASSUME PlanAssumption == "free" \notin Plan /\ Price \in Nat \ {0} /\ Days \in Nat \ {0}
ASSUME CalendarAssumption == LastDay \in Nat

VARIABLES
    user,        \* the User row: planKey, planExpiresAt
    subs,        \* Subscription rows
    inFlight,    \* the module's Set has the user
    ppc, pop,    \* each request's place and locals
    today

planVars == <<user, subs, inFlight, ppc, pop, today>>

UserType == [plan : Plan \cup {"free"}, expires : Nat]
SubType  == [tx : Nat \ {0}, plan : Plan, starts : Nat, expires : Nat]
PopType  == [plan : Plan \cup {"none"}, wallet : Wallet \cup {"none"}, user : UserType, tx : Nat]

NoRequest == [plan |-> "none", wallet |-> "none", user |-> [plan |-> "free", expires |-> 0],
              tx |-> 0]

PlanTypeOK ==
    /\ user \in UserType /\ subs \subseteq SubType /\ inFlight \in BOOLEAN /\ today \in Nat
    /\ ppc \in [Request -> {"idle", "read", "balance", "blockhash", "send", "confirm",
                            "record", "ended"}]
    /\ pop \in [Request -> PopType]

PlanInit ==
    /\ user = [plan |-> "free", expires |-> 0] /\ subs = {} /\ inFlight = FALSE
    /\ ppc = [q \in Request |-> "idle"] /\ pop = [q \in Request |-> NoRequest]
    /\ today = 0

\* Renewing the same plan while it runs extends it, anything else starts now.
StartsAt(u, plan, now) == IF u.plan = plan /\ u.expires > now THEN u.expires ELSE now

Stage(q, from, to) == ppc[q] = from /\ ppc' = [ppc EXCEPT ![q] = to]

\* purchasePlan's finally: whatever ended the request, the user is free again.
EndRequest(q, from) == Stage(q, from, "ended") /\ inFlight' = FALSE
-----------------------------------------------------------------------------
RequestPlan(q, plan, w) ==
    /\ IF inFlight THEN Stage(q, "idle", "ended") /\ UNCHANGED <<inFlight, pop>>
                   ELSE /\ Stage(q, "idle", "read") /\ inFlight' = TRUE
                        /\ pop' = [pop EXCEPT ![q].plan = plan, ![q].wallet = w]
    /\ UNCHANGED <<user, subs, today, chainVars>>

\* No such plan for sale, no wallet, no treasury: nothing to pay.
RefusePlan(q) ==
    /\ EndRequest(q, "read")
    /\ UNCHANGED <<user, subs, pop, today, chainVars>>

\* The plan, user, wallet and settings rows.
ReadUser(q) ==
    /\ Stage(q, "read", "balance")
    /\ pop' = [pop EXCEPT ![q].user = user]
    /\ UNCHANGED <<user, subs, inFlight, today, chainVars>>

CheckBalance(q) ==
    /\ \/ /\ Stage(q, "balance", "blockhash") /\ Affords(sol[pop[q].wallet], Price)
          /\ UNCHANGED inFlight
       \/ EndRequest(q, "balance") /\ ~ Affords(sol[pop[q].wallet], Price)
    /\ UNCHANGED <<user, subs, pop, today, chainVars>>

\* Signed, the signature logged; the log is not a table anything reads.
SignPayment(q) ==
    /\ Stage(q, "blockhash", "send")
    /\ Sign(pop[q].wallet, Price, <<"plan", 0>>)
    /\ pop' = [pop EXCEPT ![q].tx = Len(txs) + 1]
    /\ UNCHANGED <<user, subs, inFlight, today, sol>>

SendPayment(q) ==
    /\ Stage(q, "send", "confirm")
    /\ Broadcast(pop[q].tx)
    /\ UNCHANGED <<user, subs, inFlight, pop, today, sol>>

PaymentOutcome(q) ==
    /\ \/ /\ Stage(q, "confirm", "record") /\ txs[pop[q].tx].state = "landed"
          /\ UNCHANGED inFlight
       \/ EndRequest(q, "confirm") /\ txs[pop[q].tx].state = "dead"
    /\ UNCHANGED <<user, subs, pop, today, chainVars>>

\* The subscription row and the user's plan, in one transaction, from the
\* user row read before the payment.
RecordPlan(q) ==
    LET starts == StartsAt(pop[q].user, pop[q].plan, today)
    IN  /\ EndRequest(q, "record")
        /\ subs' = subs \cup {[tx |-> pop[q].tx, plan |-> pop[q].plan, starts |-> starts,
                               expires |-> starts + Days]}
        /\ user' = [plan |-> pop[q].plan, expires |-> starts + Days]
        /\ UNCHANGED <<pop, today, chainVars>>

\* A query fails, or the payment's confirmation does though it may yet land:
\* the request ends with an error.
RequestFails(q) ==
    /\ \/ /\ \E from \in {"read", "balance", "blockhash", "confirm", "record"} : EndRequest(q, from)
          /\ UNCHANGED txs
       \/ EndRequest(q, "send") /\ (Drop(pop[q].tx) \/ Broadcast(pop[q].tx))
    /\ UNCHANGED <<user, subs, pop, today, sol>>

Day == today < LastDay /\ today' = today + 1
       /\ UNCHANGED <<user, subs, inFlight, ppc, pop, chainVars>>

RequestStep(q) ==
    \/ RefusePlan(q) \/ ReadUser(q) \/ CheckBalance(q) \/ SignPayment(q) \/ SendPayment(q) \/ PaymentOutcome(q)
    \/ RecordPlan(q)

PlanNext ==
    \/ \E q \in Request : \/ \E plan \in Plan, w \in Wallet : RequestPlan(q, plan, w)
                          \/ RequestStep(q)
    \/ Day
=============================================================================
