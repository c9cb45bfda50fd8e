---------------------- MODULE PositionCloseLock_proofs ----------------------
(***************************************************************************)
(* What PositionCloseLock guarantees for any number of processes, callers  *)
(* and tokens, and any bound on faults.                                    *)
(***************************************************************************)
EXTENDS PositionCloseLock, TLAPS

\* No UUID is drawn twice while it is in use.
TokensDistinct ==
    \A v, w \in Worker : v # w /\ token[v] # NoClaim => token[v] # token[w]

\* A call on its way through acquire has filled the Set entry.
EntryHeld ==
    \A w \in Worker : pc[w] \in Holding => inProcess[Home[w]]

\* The token of a call that has not inserted it yet is on no row and too
\* young to have expired.
NotYetInserted ==
    \A w \in Worker : pc[w] \in Acquiring => token[w] # claim /\ token[w] \notin expired

\* What a reclaim is about to delete was overdue when it was read.
SeenWasStale ==
    \A w \in Worker : pc[w] = "reclaim" => seen[w] \in expired

\* The inductive invariant.
IInv ==
    /\ TypeOK
    /\ TokensDistinct
    /\ EntryHeld
    /\ OnePerProcess
    /\ NotYetInserted
    /\ SeenWasStale
    /\ YoungHolderOwnsRow

USE DEF PC, Holding, Acquiring

\* The initial state satisfies the inductive invariant.
LEMMA InitIInv == Init => IInv
<1> SUFFICES ASSUME Init PROVE IInv
  OBVIOUS
<1>1. TypeOK
  BY MaxFaultsAssumption DEF Init, TypeOK, TokenWhileBusy
<1>2. TokensDistinct /\ EntryHeld /\ OnePerProcess
  BY DEF Init, TokensDistinct, EntryHeld, OnePerProcess
<1>3. NotYetInserted /\ SeenWasStale /\ YoungHolderOwnsRow
  BY DEF Init, NotYetInserted, SeenWasStale, YoungHolderOwnsRow
<1> QED
  BY <1>1, <1>2, <1>3 DEF IInv

\* An attempt that gives up without touching the row keeps it.
LEMMA GiveUpIInv ==
    ASSUME IInv, NEW w \in Worker, pc[w] \in Acquiring,
           GiveUp(w), UNCHANGED <<claim, expired, faults>>
    PROVE  IInv'
<1>1. TypeOK'
  BY HomeAssumption, NoClaimAssumption DEF IInv, TypeOK, TokenWhileBusy, Forget, GiveUp
<1>2. TokensDistinct'
  BY NoClaimAssumption DEF IInv, TypeOK, TokenWhileBusy, TokensDistinct, Forget, GiveUp
<1>3. EntryHeld'
  <2> SUFFICES ASSUME NEW v \in Worker, pc'[v] \in Holding PROVE inProcess'[Home[v]]
    BY DEF EntryHeld
  <2>1. v # w /\ pc[v] \in Holding
    BY DEF IInv, TypeOK, Forget, GiveUp
  <2>2. Home[v] # Home[w] /\ inProcess[Home[v]]
    BY <2>1 DEF IInv, OnePerProcess, EntryHeld
  <2> QED
    BY <2>2, HomeAssumption DEF IInv, TypeOK, GiveUp
<1>4. OnePerProcess'
  BY DEF IInv, TypeOK, OnePerProcess, Forget, GiveUp
<1>5. NotYetInserted' /\ SeenWasStale' /\ YoungHolderOwnsRow'
  BY DEF IInv, TypeOK, NotYetInserted, SeenWasStale, YoungHolderOwnsRow, Forget, GiveUp
<1> QED
  BY <1>1, <1>2, <1>3, <1>4, <1>5 DEF IInv

\* Every step of the lock keeps the inductive invariant.
LEMMA NextIInv == IInv /\ [Next]_vars => IInv'
<1> SUFFICES ASSUME IInv, [Next]_vars PROVE IInv'
  OBVIOUS
<1> USE HomeAssumption, NoClaimAssumption, MaxFaultsAssumption
        DEF IInv, TypeOK, TokenWhileBusy, TokensDistinct, EntryHeld, OnePerProcess,
            NotYetInserted, SeenWasStale, YoungHolderOwnsRow, Goto, Forget
<1>1. ASSUME NEW w \in Worker, Enter(w) PROVE IInv'
  BY <1>1 DEF Enter, Fresh
<1>2. ASSUME NEW w \in Worker, Create(w) PROVE IInv'
  BY <1>2 DEF Create
<1>3. ASSUME NEW w \in Worker, FindGone(w) PROVE IInv'
  BY <1>3 DEF FindGone
<1>4. ASSUME NEW w \in Worker, FindYoung(w) PROVE IInv'
  BY <1>4, GiveUpIInv DEF FindYoung
<1>5. ASSUME NEW w \in Worker, FindStale(w) PROVE IInv'
  BY <1>5 DEF FindStale
<1>6. ASSUME NEW w \in Worker, Reclaim(w) PROVE IInv'
  <2>1. CASE claim = seen[w]
    BY <1>6, <2>1 DEF Reclaim
  <2>2. CASE claim # seen[w]
    <3> GiveUp(w) /\ UNCHANGED <<claim, expired, faults>>
      BY <1>6, <2>2 DEF Reclaim
    <3> QED
      BY <1>6, GiveUpIInv DEF Reclaim
  <2> QED
    BY <2>1, <2>2
<1>7. ASSUME NEW w \in Worker, Recreate(w) PROVE IInv'
  <2>1. CASE claim = NoClaim
    BY <1>7, <2>1 DEF Recreate
  <2>2. CASE claim # NoClaim
    <3> GiveUp(w) /\ UNCHANGED <<claim, expired, faults>>
      BY <1>7, <2>2 DEF Recreate
    <3> QED
      BY <1>7, GiveUpIInv DEF Recreate
  <2> QED
    BY <2>1, <2>2
<1>8. ASSUME NEW w \in Worker, Release(w) PROVE IInv'
  BY <1>8 DEF Release
<1>9. ASSUME NEW w \in Worker, DeleteOwn(w) PROVE IInv'
  BY <1>9 DEF DeleteOwn
<1>10. ASSUME NEW w \in Worker, AcquireError(w) PROVE IInv'
  BY <1>10 DEF AcquireError, GiveUp
<1>11. ASSUME NEW w \in Worker, ReleaseError(w) PROVE IInv'
  BY <1>11 DEF ReleaseError
<1>12. ASSUME NEW p \in Process, Crash(p) PROVE IInv'
  BY <1>12 DEF Crash
<1>13. CASE Expire
  BY <1>13 DEF Expire
<1>14. CASE UNCHANGED vars
  BY <1>14 DEF vars
<1> QED
  BY <1>1, <1>2, <1>3, <1>4, <1>5, <1>6, <1>7, <1>8, <1>9, <1>10, <1>11, <1>12,
     <1>13, <1>14 DEF Next, Step

\* PositionCloseLock keeps its inductive invariant.
THEOREM Invariance == Spec => []IInv
BY InitIInv, NextIInv, PTL DEF Spec

\* Every reachable state is well typed.
THEOREM TypeCorrect == Spec => []TypeOK
<1> IInv => TypeOK
  BY DEF IInv
<1> QED
  BY Invariance, PTL

\* One call at a time inside a process, whatever the age of its claim: the
\* inProcess Set never lets a second timer of the process past a slow sell.
THEOREM ProcessExclusion == Spec => []OnePerProcess
<1> IInv => OnePerProcess
  BY DEF IInv
<1> QED
  BY Invariance, PTL

\* A holder younger than the time to live owns the row, however many
\* processes, restarts, late releases and reclaims there are.
THEOREM YoungHolder == Spec => []YoungHolderOwnsRow
<1> IInv => YoungHolderOwnsRow
  BY DEF IInv
<1> QED
  BY Invariance, PTL

\* Two holders are never both younger than the time to live.
THEOREM Exclusion == Spec => []MutualExclusion
<1>1. IInv => MutualExclusion
  <2> SUFFICES ASSUME IInv, NEW v \in Worker, NEW w \in Worker, v # w,
                      pc[v] = "held", pc[w] = "held",
                      token[v] \notin expired, token[w] \notin expired
               PROVE  FALSE
    BY DEF MutualExclusion
  <2>1. claim = token[v] /\ claim = token[w]
    BY DEF IInv, YoungHolderOwnsRow
  <2>2. token[v] # NoClaim
    BY DEF IInv, TypeOK, TokenWhileBusy
  <2> QED
    BY <2>1, <2>2 DEF IInv, TokensDistinct
<1> QED
  BY <1>1, Invariance, PTL

\* A step that takes a row off the table is the release of the row's owner or
\* finds the row overdue.
LEMMA ClaimEnds ==
    ASSUME IInv, [Next]_vars, claim # NoClaim, claim \notin expired, claim' # claim
    PROVE  \E w \in Worker : pc[w] = "releasing" /\ token[w] = claim
<1>1. ASSUME NEW w \in Worker, Reclaim(w) PROVE FALSE
  BY <1>1 DEF Reclaim, IInv, SeenWasStale, GiveUp
<1>2. ASSUME NEW w \in Worker, AcquireError(w) PROVE FALSE
  BY <1>2 DEF AcquireError, IInv, SeenWasStale
<1>3. ASSUME NEW w \in Worker, Create(w) \/ Recreate(w) PROVE FALSE
  BY <1>3 DEF Create, Recreate
<1>4. ASSUME NEW w \in Worker, DeleteOwn(w)
      PROVE  \E u \in Worker : pc[u] = "releasing" /\ token[u] = claim
  BY <1>4 DEF DeleteOwn
<1>5. ASSUME NEW w \in Worker,
             Enter(w) \/ FindGone(w) \/ FindYoung(w) \/ FindStale(w) \/ Release(w)
                 \/ ReleaseError(w)
      PROVE  FALSE
  BY <1>5 DEF Enter, FindGone, FindYoung, FindStale, Release, ReleaseError
<1>6. ASSUME NEW p \in Process, Crash(p) PROVE FALSE
  BY <1>6 DEF Crash
<1>7. ~Expire /\ ~UNCHANGED vars
  BY DEF Expire, vars
<1> QED
  BY <1>1, <1>2, <1>3, <1>4, <1>5, <1>6, <1>7 DEF Next, Step

\* A claim younger than the time to live ends only in its owner's release.
THEOREM ClaimEndsByOwner == Spec => YoungClaimEndsByOwner
<1>1. IInv /\ [Next]_vars =>
        [claim # NoClaim /\ claim \notin expired /\ claim' # claim
           => \E w \in Worker : pc[w] = "releasing" /\ token[w] = claim]_vars
  BY ClaimEnds
<1> QED
  BY <1>1, Invariance, PTL DEF Spec, YoungClaimEndsByOwner

\* A step of an attempt that has no handle and gets none changes no owner.
LEMMA SameOwners ==
    ASSUME IInv, NEW w \in Worker,
           pc[w] \in Acquiring \cup {"idle"},
           \A v \in Worker : v # w => pc'[v] = pc[v] /\ token'[v] = token[v],
           pc'[w] \notin {"held", "releasing"}
    PROVE  Owners' = Owners
BY DEF IInv, Owners

\* A step that ends the handle of w removes its token from the owners.
LEMMA OwnerLeaves ==
    ASSUME IInv, NEW w \in Worker, pc[w] = "releasing", Forget(w)
    PROVE  /\ token[w] \in Owners /\ token[w] \in Token
           /\ Owners' = Owners \ {token[w]}
<1>1. token[w] \in Owners /\ token[w] \in Token
  BY DEF IInv, TypeOK, Owners, TokenWhileBusy
<1>2. ASSUME NEW v \in Worker, v # w
      PROVE  token[v] # token[w] /\ pc'[v] = pc[v] /\ token'[v] = token[v]
  BY <1>2, NoClaimAssumption DEF IInv, TypeOK, Forget, TokensDistinct, TokenWhileBusy
<1>3. pc'[w] = "idle"
  BY DEF IInv, TypeOK, Forget
<1> QED
  BY <1>1, <1>2, <1>3 DEF Owners

\* A step that turns an attempt of w into a handle grants the lease to its token.
LEMMA OwnerJoins ==
    ASSUME IInv, NEW w \in Worker, pc[w] \in Acquiring, Goto(w, "held"),
           claim = NoClaim, claim' = token[w], UNCHANGED <<expired, token>>
    PROVE  \E t \in Token : Lease!Grant(t)
<1>1. token[w] \in Token /\ token[w] \notin expired
  BY DEF IInv, TypeOK, TokenWhileBusy, NotYetInserted
<1>2. token[w] \notin Owners
  BY DEF IInv, TypeOK, Owners, TokensDistinct, TokenWhileBusy
<1>3. Owners' = Owners \cup {token[w]}
  BY DEF IInv, TypeOK, Goto, Owners
<1>4. Lease!Grant(token[w])
  BY <1>1, <1>2, <1>3 DEF Lease!Grant
<1> QED
  BY <1>1, <1>4

\* Every step of the lock is a step of the lease or a stutter.
LEMMA LeaseStep == IInv /\ [Next]_vars => [Lease!LeaseNext]_(Lease!leaseVars)
<1> SUFFICES ASSUME IInv, [Next]_vars
             PROVE  Lease!LeaseNext \/ UNCHANGED Lease!leaseVars
  OBVIOUS
<1>1. ASSUME NEW w \in Worker, Enter(w) PROVE Lease!LeaseNext
  <2>1. PICK t \in Token : Fresh(t) /\ expired' = expired \ {t} /\ token' = [token EXCEPT ![w] = t]
    BY <1>1 DEF Enter
  <2>2. Owners' = Owners
    BY <1>1, <2>1, SameOwners DEF Enter, Goto, IInv, TypeOK
  <2>3. t # claim /\ t \notin Owners
    BY <2>1 DEF Fresh, Owners
  <2>4. Lease!Draw(t)
    BY <1>1, <2>1, <2>2, <2>3 DEF Enter, Lease!Draw
  <2> QED
    BY <2>4 DEF Lease!LeaseNext
<1>2. ASSUME NEW w \in Worker, FindGone(w) \/ FindYoung(w) \/ FindStale(w)
      PROVE  UNCHANGED Lease!leaseVars
  <2>1. Owners' = Owners
    BY <1>2, SameOwners DEF FindGone, FindYoung, FindStale, GiveUp, Forget, Goto, IInv, TypeOK
  <2> QED
    BY <1>2, <2>1 DEF FindGone, FindYoung, FindStale, Lease!leaseVars
<1>3. ASSUME NEW w \in Worker, Create(w) PROVE Lease!LeaseNext \/ UNCHANGED Lease!leaseVars
  <2>1. CASE claim = NoClaim
    BY <1>3, <2>1, OwnerJoins DEF Create, Lease!LeaseNext
  <2>2. CASE claim # NoClaim
    <3>1. Owners' = Owners
      BY <1>3, <2>2, SameOwners DEF Create, Goto, IInv, TypeOK
    <3> QED
      BY <1>3, <2>2, <3>1 DEF Create, Lease!leaseVars
  <2> QED
    BY <2>1, <2>2
<1>4. ASSUME NEW w \in Worker, Reclaim(w) PROVE Lease!LeaseNext \/ UNCHANGED Lease!leaseVars
  <2>1. Owners' = Owners
    BY <1>4, SameOwners DEF Reclaim, GiveUp, Forget, Goto, IInv, TypeOK
  <2>2. CASE claim = seen[w]
    BY <1>4, <2>1, <2>2 DEF Reclaim, IInv, SeenWasStale, Lease!Revoke, Lease!LeaseNext
  <2>3. CASE claim # seen[w]
    BY <1>4, <2>1, <2>3 DEF Reclaim, Lease!leaseVars
  <2> QED
    BY <2>2, <2>3
<1>5. ASSUME NEW w \in Worker, Recreate(w) PROVE Lease!LeaseNext \/ UNCHANGED Lease!leaseVars
  <2>1. CASE claim = NoClaim
    BY <1>5, <2>1, OwnerJoins DEF Recreate, Lease!LeaseNext
  <2>2. CASE claim # NoClaim
    <3>1. Owners' = Owners
      BY <1>5, <2>2, SameOwners DEF Recreate, GiveUp, Forget, IInv, TypeOK
    <3> QED
      BY <1>5, <2>2, <3>1 DEF Recreate, Lease!leaseVars
  <2> QED
    BY <2>1, <2>2
<1>6. ASSUME NEW w \in Worker, Release(w) PROVE UNCHANGED Lease!leaseVars
  <2>1. Owners' = Owners
    BY <1>6 DEF Release, Goto, Owners, IInv, TypeOK
  <2> QED
    BY <1>6, <2>1 DEF Release, Lease!leaseVars
<1>7. ASSUME NEW w \in Worker, DeleteOwn(w) \/ ReleaseError(w) PROVE Lease!LeaseNext
  <2>1. /\ token[w] \in Owners /\ token[w] \in Token
        /\ Owners' = Owners \ {token[w]}
    BY <1>7, OwnerLeaves DEF DeleteOwn, ReleaseError
  <2>2. Lease!Return(token[w])
    BY <1>7, <2>1 DEF DeleteOwn, ReleaseError, Lease!Return
  <2> QED
    BY <2>1, <2>2 DEF Lease!LeaseNext
<1>8. ASSUME NEW w \in Worker, AcquireError(w)
      PROVE  Lease!LeaseNext \/ UNCHANGED Lease!leaseVars
  <2>1. Owners' = Owners
    BY <1>8, SameOwners DEF AcquireError, GiveUp, Forget, IInv, TypeOK
  <2>2. CASE claim' = claim
    BY <1>8, <2>1, <2>2 DEF AcquireError, Lease!leaseVars
  <2>3. CASE claim = NoClaim /\ claim' = token[w]
    <3>1. token[w] \in Token /\ token[w] \notin expired /\ token[w] \notin Owners
      BY <1>8 DEF AcquireError, IInv, TypeOK, TokenWhileBusy, NotYetInserted, Owners,
                  TokensDistinct
    <3>2. Lease!Grant(token[w])
      BY <1>8, <2>1, <2>3, <3>1 DEF AcquireError, Lease!Grant
    <3> QED
      BY <3>1, <3>2 DEF Lease!LeaseNext
  <2>4. CASE pc[w] = "reclaim" /\ claim = seen[w] /\ claim' = NoClaim
    BY <1>8, <2>1, <2>4 DEF AcquireError, IInv, SeenWasStale, Lease!Revoke, Lease!LeaseNext
  <2> QED
    BY <1>8, <2>2, <2>3, <2>4 DEF AcquireError
<1>9. ASSUME NEW p \in Process, Crash(p) PROVE Lease!LeaseNext
  <2>1. Owners' \in SUBSET Owners
    BY <1>9 DEF Crash, Owners, IInv, TypeOK
  <2> QED
    BY <1>9, <2>1 DEF Crash, Lease!Die, Lease!LeaseNext
<1>10. CASE Expire
  <2>1. Owners' = Owners
    BY <1>10 DEF Expire, Owners
  <2> QED
    BY <1>10, <2>1 DEF Expire, Lease!Lapse, Lease!LeaseNext
<1>11. CASE UNCHANGED vars
  BY <1>11 DEF vars, Owners, Lease!leaseVars
<1> QED
  BY <1>1, <1>2, <1>3, <1>4, <1>5, <1>6, <1>7, <1>8, <1>9, <1>10, <1>11 DEF Next, Step

\* PositionCloseLock implements the lease.
THEOREM Implementation == Spec => ImplementsLease
<1>1. Init => Lease!LeaseInit
  BY DEF Init, Owners, Lease!LeaseInit
<1> QED
  BY <1>1, LeaseStep, Invariance, PTL DEF Spec, ImplementsLease, Lease!LeaseSpec
=============================================================================
