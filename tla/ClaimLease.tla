----------------------------- MODULE ClaimLease -----------------------------
(***************************************************************************)
(* What PositionCloseLock promises about one position, without the steps   *)
(* that get there.  At most one lease is on record.  A lease is granted    *)
(* only when none is on record, is given back only by the party it was     *)
(* granted to, and is taken away from a party only once it is overdue      *)
(* (older than STALE_LOCK_TTL_MS).                                         *)
(***************************************************************************)
CONSTANTS Token,     \* names of grants (randomUUID)
          NoClaim    \* no lease is on record

VARIABLES lease,     \* the grant on record, or NoClaim
          overdue,   \* grants that have outlived the time to live
          owners     \* grants whose holder is alive and has not returned them

leaseVars == <<lease, overdue, owners>>

LeaseInit == lease = NoClaim /\ overdue = {} /\ owners = {}

\* A grant is recorded; its holder may be told, or the answer may be lost.
Grant(t) ==
    /\ lease = NoClaim
    /\ t \notin owners
    /\ lease' = t
    /\ overdue' = overdue \ {t}
    /\ owners' \in {owners, owners \cup {t}}

\* A name not in use is drawn for a later grant.
Draw(t) ==
    /\ t # lease /\ t \notin owners
    /\ overdue' = overdue \ {t}
    /\ UNCHANGED <<lease, owners>>

\* The holder of t gives it up.  Its record, if t still is the record, goes
\* with it, or stays behind when the deletion fails.
Return(t) ==
    /\ t \in owners
    /\ owners' = owners \ {t}
    /\ \/ lease = t /\ lease' = NoClaim
       \/ lease' = lease
    /\ UNCHANGED overdue

\* Holders die; nothing on record changes.
Die ==
    /\ owners' \in SUBSET owners
    /\ UNCHANGED <<lease, overdue>>

\* The recorded lease outlives its time to live.
Lapse ==
    /\ lease # NoClaim
    /\ overdue' = overdue \cup {lease}
    /\ UNCHANGED <<lease, owners>>

\* Anyone may take an overdue lease off the record.
Revoke ==
    /\ lease \in overdue
    /\ lease' = NoClaim
    /\ UNCHANGED <<overdue, owners>>

LeaseNext ==
    \/ \E t \in Token : Grant(t) \/ Draw(t) \/ Return(t)
    \/ Die \/ Lapse \/ Revoke

LeaseSpec == LeaseInit /\ [][LeaseNext]_leaseVars
=============================================================================
