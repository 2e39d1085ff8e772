----------------------------- MODULE LeaseLock -----------------------------
(***************************************************************************)
(* What the row of aqueduct.locks promises to the runs of one project,     *)
(* apart from how the executor uses it: a lease.  At most one client owns  *)
(* the row.  The row changes hands only when it is free or its TTL has     *)
(* passed, and a client can go on believing in a lease it was evicted      *)
(* from, by another client after the TTL or by the operator.               *)
(***************************************************************************)
CONSTANTS Client,    \* the runs of `aqueduct apply`
          NoClient   \* no row in aqueduct.locks

VARIABLES owner,     \* holder of the row, or NoClient
          lapsed,    \* acquired_at + ttl < now()
          believers, \* clients that took the lease and have not given it up
          evicted    \* believers another client or the operator threw out

leaseVars == <<owner, lapsed, believers, evicted>>

TypeOK ==
  /\ owner \in Client \cup {NoClient}
  /\ lapsed \in BOOLEAN
  /\ believers \subseteq Client
  /\ evicted \subseteq Client

Init ==
  /\ owner = NoClient
  /\ lapsed = FALSE
  /\ believers = {}
  /\ evicted = {}

(* A client takes the row: it is free, or its owner let it lapse.          *)
Acquire(c) ==
  /\ owner = NoClient \/ lapsed
  /\ owner' = c
  /\ lapsed' = FALSE
  /\ believers' = believers \cup {c}
  /\ evicted' = (evicted \cup ({owner} \cap believers)) \ {c}

(* A heartbeat of the owner.                                               *)
Renew(c) ==
  /\ owner = c
  /\ lapsed' = FALSE
  /\ UNCHANGED <<owner, believers, evicted>>

(* A client gives the lease up.  It frees the row only when it owns it,    *)
(* and may fail to free it.                                                *)
GiveUp(c) ==
  /\ believers' = believers \ {c}
  /\ \/ owner = c /\ owner' = NoClient /\ lapsed' = FALSE
     \/ UNCHANGED <<owner, lapsed>>
  /\ UNCHANGED evicted

Lapse ==
  /\ owner # NoClient
  /\ lapsed' = TRUE
  /\ UNCHANGED <<owner, believers, evicted>>

(* `aqueduct unlock --force` deletes the row, whoever owns it.             *)
Revoke ==
  /\ owner # NoClient
  /\ owner' = NoClient
  /\ lapsed' = FALSE
  /\ evicted' = evicted \cup ({owner} \cap believers)
  /\ UNCHANGED believers

Next ==
  \/ \E c \in Client : Acquire(c) \/ Renew(c) \/ GiveUp(c)
  \/ Lapse
  \/ Revoke

Spec == Init /\ [][Next]_leaseVars

-----------------------------------------------------------------------------
(* A client that believes in its lease and was not evicted owns the row, so *)
(* of two believers at least one was evicted.                              *)
BelieverOwns == \A c \in believers \ evicted : owner = c

MutualExclusion ==
  \A c, d \in believers : c # d => {c, d} \cap evicted # {}

=============================================================================
