-------------------------- MODULE PositionCloseLock --------------------------
(***************************************************************************)
(* apps/api/src/trading/positionCloseLock.ts: mutual exclusion for every   *)
(* sell of one position.  Each process has a Set checked and filled with   *)
(* no await in between, and behind it all processes share one              *)
(* PositionCloseClaim row whose primary key is the positionId.             *)
(*                                                                         *)
(* Rows and Set entries of different positions never meet, so the module   *)
(* follows one positionId.  A worker is one call of acquire/release at a   *)
(* time; every step between two awaits is one action.  Age is kept as the  *)
(* set of tokens that have passed STALE_LOCK_TTL_MS, the only thing the    *)
(* code asks of claimedAt.                                                 *)
(***************************************************************************)
EXTENDS Naturals

CONSTANTS Process,    \* running instances of the API
          Worker,     \* callers of acquire
          Home,       \* Home[w]: the process worker w runs in
          Token,      \* random UUIDs
          NoClaim,    \* no row / no token
          MaxFaults   \* bound on crashes and database errors

ASSUME HomeAssumption == Home \in [Worker -> Process]
ASSUME NoClaimAssumption == NoClaim \notin Token
ASSUME MaxFaultsAssumption == MaxFaults \in Nat

VARIABLES inProcess,  \* inProcess[p]: positionId is in p's Set
          claim,      \* the row's token, or NoClaim
          expired,    \* tokens whose row has reached STALE_LOCK_TTL_MS
          pc,         \* where each worker is
          token,      \* the token of its attempt
          seen,       \* existing.token as read by findUnique
          faults      \* crashes and database errors so far

vars == <<inProcess, claim, expired, pc, token, seen, faults>>

\* Places between two awaits inside acquire, where the Set entry is held.
Acquiring == {"create", "find", "reclaim", "recreate"}
Holding   == Acquiring \cup {"held"}
PC        == Holding \cup {"idle", "releasing"}

\* A worker has a token exactly while its call runs.
TokenWhileBusy ==
    \A w \in Worker : pc[w] = "idle" <=> token[w] = NoClaim

TypeOK ==
    /\ inProcess \in [Process -> BOOLEAN]
    /\ claim \in Token \cup {NoClaim}
    /\ expired \in SUBSET Token
    /\ pc \in [Worker -> PC]
    /\ token \in [Worker -> Token \cup {NoClaim}]
    /\ seen \in [Worker -> Token \cup {NoClaim}]
    /\ faults \in 0..MaxFaults
    /\ TokenWhileBusy

Init ==
    /\ inProcess = [p \in Process |-> FALSE]
    /\ claim = NoClaim
    /\ expired = {}
    /\ pc = [w \in Worker |-> "idle"]
    /\ token = [w \in Worker |-> NoClaim]
    /\ seen = [w \in Worker |-> NoClaim]
    /\ faults = 0
-----------------------------------------------------------------------------
\* A UUID nobody has drawn: not the row's and in no worker's memory.
Fresh(t) ==
    /\ t # claim
    /\ \A w \in Worker : t # token[w] /\ t # seen[w]

Goto(w, place) == pc' = [pc EXCEPT ![w] = place]

\* The call of w is over: its locals are gone.
Forget(w) ==
    /\ pc' = [pc EXCEPT ![w] = "idle"]
    /\ token' = [token EXCEPT ![w] = NoClaim]
    /\ seen' = [seen EXCEPT ![w] = NoClaim]

\* acquire returns undefined, or throws: the Set entry is taken out again.
GiveUp(w) ==
    /\ Forget(w)
    /\ inProcess' = [inProcess EXCEPT ![Home[w]] = FALSE]

\* acquire up to its first await.  When the Set already has the position the
\* call returns undefined and changes nothing.
Enter(w) ==
    /\ pc[w] = "idle"
    /\ ~inProcess[Home[w]]
    /\ inProcess' = [inProcess EXCEPT ![Home[w]] = TRUE]
    /\ \E t \in Token :
         /\ Fresh(t)
         /\ token' = [token EXCEPT ![w] = t]
         /\ expired' = expired \ {t}
    /\ Goto(w, "create")
    /\ UNCHANGED <<claim, seen, faults>>

\* The INSERT: the primary key admits one row.
Create(w) ==
    /\ pc[w] = "create"
    /\ IF claim = NoClaim
         THEN claim' = token[w] /\ Goto(w, "held")
         ELSE claim' = claim /\ Goto(w, "find")
    /\ UNCHANGED <<inProcess, expired, token, seen, faults>>

\* findUnique after a unique-constraint error.
FindGone(w) ==
    /\ pc[w] = "find"
    /\ claim = NoClaim
    /\ Goto(w, "create")
    /\ UNCHANGED <<inProcess, claim, expired, token, seen, faults>>

FindYoung(w) ==
    /\ pc[w] = "find"
    /\ claim # NoClaim
    /\ claim \notin expired
    /\ GiveUp(w)
    /\ UNCHANGED <<claim, expired, faults>>

\* Mutated form: an abandoned claim is refused like any other.
FindStaleRefused(w) ==
    /\ pc[w] = "find"
    /\ claim \in expired
    /\ GiveUp(w)
    /\ UNCHANGED <<claim, expired, faults>>

\* Mutated form: the age of the row is not looked at.
FindAnyAge(w) ==
    /\ pc[w] = "find"
    /\ claim # NoClaim
    /\ seen' = [seen EXCEPT ![w] = claim]
    /\ Goto(w, "reclaim")
    /\ UNCHANGED <<inProcess, claim, expired, token, faults>>

FindStale(w) ==
    /\ pc[w] = "find"
    /\ claim \in expired
    /\ seen' = [seen EXCEPT ![w] = claim]
    /\ Goto(w, "reclaim")
    /\ UNCHANGED <<inProcess, claim, expired, token, faults>>

\* Mutated form: deleteMany by positionId alone.
ReclaimAnyToken(w) ==
    /\ pc[w] = "reclaim"
    /\ IF claim # NoClaim
         THEN /\ claim' = NoClaim
              /\ Goto(w, "recreate")
              /\ UNCHANGED <<inProcess, token, seen>>
         ELSE GiveUp(w) /\ UNCHANGED claim
    /\ UNCHANGED <<expired, faults>>

\* deleteMany where token = existing.token; nothing deleted means another
\* attempt was faster.
Reclaim(w) ==
    /\ pc[w] = "reclaim"
    /\ IF claim = seen[w]
         THEN /\ claim' = NoClaim
              /\ Goto(w, "recreate")
              /\ UNCHANGED <<inProcess, token, seen>>
         ELSE GiveUp(w) /\ UNCHANGED claim
    /\ UNCHANGED <<expired, faults>>

\* The second INSERT; a unique-constraint error gives up.
Recreate(w) ==
    /\ pc[w] = "recreate"
    /\ IF claim = NoClaim
         THEN /\ claim' = token[w]
              /\ Goto(w, "held")
              /\ UNCHANGED <<inProcess, token, seen>>
         ELSE GiveUp(w) /\ UNCHANGED claim
    /\ UNCHANGED <<expired, faults>>

\* release up to its await: the Set entry goes first, the row later.
Release(w) ==
    /\ pc[w] = "held"
    /\ inProcess' = [inProcess EXCEPT ![Home[w]] = FALSE]
    /\ Goto(w, "releasing")
    /\ UNCHANGED <<claim, expired, token, seen, faults>>

\* deleteMany where positionId and token: only the row this handle owns.
DeleteOwn(w) ==
    /\ pc[w] = "releasing"
    /\ claim' = IF claim = token[w] THEN NoClaim ELSE claim
    /\ Forget(w)
    /\ UNCHANGED <<inProcess, expired, faults>>
-----------------------------------------------------------------------------
\* A statement inside acquire fails with another error and acquire rethrows.
\* An INSERT may have been committed with only its answer lost.
AcquireError(w) ==
    /\ pc[w] \in Acquiring
    /\ faults < MaxFaults
    /\ faults' = faults + 1
    /\ \/ claim' = claim
       \/ /\ pc[w] \in {"create", "recreate"}
          /\ claim = NoClaim
          /\ claim' = token[w]
       \/ /\ pc[w] = "reclaim"
          /\ claim = seen[w]
          /\ claim' = NoClaim
    /\ GiveUp(w)
    /\ UNCHANGED expired

\* The release's deleteMany fails; the error is logged and swallowed.
ReleaseError(w) ==
    /\ pc[w] = "releasing"
    /\ faults < MaxFaults
    /\ faults' = faults + 1
    /\ Forget(w)
    /\ UNCHANGED <<inProcess, claim, expired>>

\* A process dies and comes back: the Set and its workers are gone, the row
\* stays.
Crash(p) ==
    /\ faults < MaxFaults
    /\ faults' = faults + 1
    /\ inProcess' = [inProcess EXCEPT ![p] = FALSE]
    /\ pc' = [w \in Worker |-> IF Home[w] = p THEN "idle" ELSE pc[w]]
    /\ token' = [w \in Worker |-> IF Home[w] = p THEN NoClaim ELSE token[w]]
    /\ seen' = [w \in Worker |-> IF Home[w] = p THEN NoClaim ELSE seen[w]]
    /\ UNCHANGED <<claim, expired>>

\* STALE_LOCK_TTL_MS passes for the row that is there.
Expire ==
    /\ claim # NoClaim
    /\ claim \notin expired
    /\ expired' = expired \cup {claim}
    /\ UNCHANGED <<inProcess, claim, pc, token, seen, faults>>

Step(w) ==
    \/ Create(w) \/ FindGone(w) \/ FindYoung(w) \/ FindStale(w)
    \/ Reclaim(w) \/ Recreate(w) \/ Release(w) \/ DeleteOwn(w)

Next ==
    \/ \E w \in Worker : Enter(w) \/ Step(w) \/ AcquireError(w) \/ ReleaseError(w)
    \/ \E p \in Process : Crash(p)
    \/ Expire

Spec == Init /\ [][Next]_vars

\* A call that has begun runs on, monitors keep trying, and time passes.
Fairness ==
    /\ \A w \in Worker : WF_vars(Step(w)) /\ WF_vars(Enter(w))
    /\ WF_vars(Expire)

FairSpec == Spec /\ Fairness
-----------------------------------------------------------------------------
\* Inside one process at most one call is between taking and giving back the
\* Set entry, however old its claim has grown: a slow sell (acquire's
\* inProcess check) is never overtaken by another timer of the same process.
OnePerProcess ==
    \A v, w \in Worker :
        v # w /\ pc[v] \in Holding /\ pc[w] \in Holding => Home[v] # Home[w]

\* A holder whose claim is younger than the TTL still owns the row: neither a
\* late release of an earlier holder nor a third attempt's stale reclaim
\* (deleteMany conditional on token) has deleted it.
YoungHolderOwnsRow ==
    \A w \in Worker : pc[w] = "held" /\ token[w] \notin expired => claim = token[w]

\* Two holders, in whatever processes, are never both younger than the TTL:
\* the cross-process guarantee of the primary key.
MutualExclusion ==
    \A v, w \in Worker :
        v # w /\ pc[v] = "held" /\ pc[w] = "held"
            => token[v] \in expired \/ token[w] \in expired

\* A row that is not overdue is taken off only by the caller that put it
\* there, in its own release.
YoungClaimEndsByOwner ==
    [][claim # NoClaim /\ claim \notin expired /\ claim' # claim
         => \E w \in Worker : pc[w] = "releasing" /\ token[w] = claim]_vars

\* A row nobody alive owns (its process crashed, its release failed, its
\* INSERT was answered with an error) does not block the position for good.
Orphaned == claim # NoClaim /\ \A w \in Worker : token[w] # claim
OrphanRecovered == Orphaned ~> ~Orphaned

\* Tokens of the handles that acquire has returned and release has not ended.
Owners == {token[w] : w \in {v \in Worker : pc[v] \in {"held", "releasing"}}}

Lease == INSTANCE ClaimLease WITH lease <- claim, overdue <- expired, owners <- Owners

\* PositionCloseLock implements the lease: whatever the interleaving of its
\* statements, crashes and errors, a claim is granted, returned and taken away
\* only as ClaimLease allows.
ImplementsLease == Lease!LeaseSpec
=============================================================================
