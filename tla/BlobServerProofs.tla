---------------------------- MODULE BlobServerProofs ----------------------------
(***************************************************************************)
(* The lease that the blob server of SQL Server backups gives out: one     *)
(* client holds it.                                                        *)
(***************************************************************************)
EXTENDS BlobServer, FiniteSetTheorems, TLAPS

\* Whoever was granted the lease and was not told of its end has the lease there is.
LeaseInv == \A c \in holders : lease.live /\ \E k \in {1, 2} : lease.id = <<c, k>>

LeaseType == lease \in [id : (Clients \X {1, 2}) \cup {<<"none", 0>>}, live : BOOLEAN]

LEMMA LeaseInvStep ==
    ASSUME ~May("infinite") PROVE LeaseType /\ LeaseInv /\ [Next]_blobVars => LeaseType' /\ LeaseInv'
<1> SUFFICES ASSUME LeaseType, LeaseInv, [Next]_blobVars PROVE LeaseType' /\ LeaseInv'
  OBVIOUS
<1>1. CASE UNCHANGED leases
  BY <1>1, Zenon DEF leases, LeaseType, LeaseInv
<1>2. ASSUME NEW c \in Clients, HandleAcquireLease(c) PROVE LeaseType' /\ LeaseInv'
  <2>1. /\ lease' = IF lease.live THEN lease ELSE [id |-> <<c, 1>>, live |-> TRUE]
        /\ lease'.id = <<c, 1>> /\ holders' = holders \cup {c}
    BY <1>2, Zenon DEF HandleAcquireLease
  <2> QED BY <2>1, Zenon DEF LeaseType, LeaseInv
<1>3. ASSUME NEW c \in Clients, HandleRenewLease(c) PROVE LeaseType' /\ LeaseInv'
  BY <1>3, Zenon DEF HandleRenewLease, LeaseIDs, LeaseType, LeaseInv
<1>4. ASSUME NEW c \in Clients, HandleChangeLease(c) PROVE LeaseType' /\ LeaseInv'
  BY <1>4 DEF HandleChangeLease, LeaseType, LeaseInv
<1>5. ASSUME NEW c \in Clients, HandleReleaseLease(c) PROVE LeaseType' /\ LeaseInv'
  BY <1>5 DEF HandleReleaseLease, LeaseIDs, NoLease, LeaseType, LeaseInv
<1>6. CASE LeaseEnds
  BY <1>6, Zenon DEF LeaseEnds, LeaseType, LeaseInv
<1>7. CASE Restart
  BY <1>7, Zenon DEF Restart, NoLease, LeaseType, LeaseInv
<1>8. ASSUME NEW c \in Clients, HandleBlock(c) \/ HandleBlockList(c) \/ HandleBlob(c) PROVE UNCHANGED leases
  BY <1>8, Zenon
     DEF HandleBlock, HandleBlockPut, HandleBlockList, HandleBlockListPut, HandleBlob, HandleBlobPut,
         HandleBlobDelete
<1>9. ASSUME NEW w \in Slots,
             \/ PutObject(w) \/ PutObjectFails(w) \/ PutData(w) \/ deleteGarbage(w)
             \/ Save(w) \/ SaveWrites(w) \/ SaveFails(w)
      PROVE  UNCHANGED leases
  BY <1>9, Zenon DEF PutObject, PutObjectFails, PutData, deleteGarbage, Save, SaveWrites, SaveFails
<1>10. ASSUME NEW i, saver(i) PROVE UNCHANGED leases
  BY <1>10, Zenon DEF saver
<1>11. CASE HandleBlobHead
  BY <1>1, <1>11, Zenon DEF HandleBlobHead
<1>12. CASE UNCHANGED blobVars
  BY <1>1, <1>12 DEF blobVars, leases
<1> QED BY <1>1, <1>2, <1>3, <1>4, <1>5, <1>6, <1>7, <1>8, <1>9, <1>10, <1>11, <1>12, ZenonT(30)
        DEF Next, Step, ServeHTTP, HandleLease, Slots

\* At most one of any number of clients holds the lease that checkLease enforces, across
\* renewals, changes, expiry and restarts, unless a lease is asked for with the duration
\* -1.
THEOREM OneClientHoldsTheLease == ASSUME ~May("infinite") PROVE Spec => []OneHolder
<1>1. Init => LeaseType /\ LeaseInv
  BY DEF Init, NoLease, LeaseType, LeaseInv
<1>2. LeaseInv => OneHolder
  <2> SUFFICES ASSUME LeaseInv PROVE Cardinality(holders) <= 1
    BY Zenon DEF OneHolder
  <2>1. CASE holders = {}
    BY <2>1, FS_EmptySet
  <2>2. ASSUME NEW c \in holders PROVE Cardinality(holders) <= 1
    <3>1. holders = {c}
      BY DEF LeaseInv
    <3>2. Cardinality({c}) = 1
      BY FS_Singleton, Zenon
    <3> QED BY <3>1, <3>2
  <2> QED BY <2>1, <2>2, Zenon
<1> QED BY <1>1, <1>2, LeaseInvStep, PTL DEF Spec

=============================================================================
