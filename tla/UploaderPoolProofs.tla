-------------------------- MODULE UploaderPoolProofs --------------------------
(* The invariants of UploaderPool for every set of identifiers and uploaders. *)
EXTENDS UploaderPool, TLAPS

\* What mainLoop offers or is about to drop is nobody's identifier.
LoopIdsAreFree ==
  /\ loop \in {"select", "remove"} => \A u \in Uploaders : HasId(u) => ident[u] # next
  /\ loop = "remove" => /\ leaving # next
                        /\ \A u \in Uploaders : HasId(u) => ident[u] # leaving

\* The invariants are inductive together: that a Put does not overwrite an
\* entry and a Remove drops no other rests on unique identifiers, and those on
\* the identifier pool holding every identifier in use.
PoolInv == PoolTypeOK /\ IdsAreUnique /\ GetFindsOwner /\ IdsInUse /\ LoopIdsAreFree

\* A new pool satisfies the invariant.
LEMMA PoolInvInit == PoolInit => PoolInv
BY NoUploaderAssumption
   DEF PoolInit, PoolInv, PoolTypeOK, IdsAreUnique, GetFindsOwner, IdsInUse, HeldByLoop,
          LoopIdsAreFree, HasId

\* Every step of a Put, a Remove or mainLoop keeps the invariant.
LEMMA PoolInvStep == PoolInv /\ [PoolNext]_poolVars => PoolInv'
<1> SUFFICES ASSUME PoolInv, [PoolNext]_poolVars
             PROVE  PoolInv'
    OBVIOUS
<1> USE DEF loopVars, PoolInv, PoolTypeOK, IdsAreUnique, GetFindsOwner, IdsInUse, HeldByLoop,
          LoopIdsAreFree, HasId, Get
<1>1. ASSUME NEW u \in Uploaders, NewId(u)
      PROVE  PoolInv'
      BY <1>1 DEF NewId, Fresh
<1>2. ASSUME NEW u \in Uploaders, ReceiveId(u)
      PROVE  PoolInv'
      BY <1>2 DEF ReceiveId
<1>3. ASSUME NEW u \in Uploaders, Enter(u)
      PROVE  PoolInv'
      BY <1>3 DEF Enter
<1>4. ASSUME NEW u \in Uploaders, DropEntry(u, "pooled", "removing")
      PROVE  PoolInv'
      BY <1>4 DEF DropEntry
<1>5. ASSUME NEW u \in Uploaders, FreeId(u, "removing", "gone")
      PROVE  PoolInv'
      BY <1>5 DEF FreeId
<1>6. CASE Draw
      BY <1>6 DEF Draw, Fresh
<1>7. CASE DropId
      BY <1>7 DEF DropId
<1>8. ASSUME NEW u \in Uploaders, Recycle(u)
      PROVE  PoolInv'
      BY <1>8 DEF Recycle
<1>9. CASE UNCHANGED poolVars
      BY <1>9 DEF poolVars
<1>10. QED
      BY <1>1, <1>2, <1>3, <1>4, <1>5, <1>6, <1>7, <1>8, <1>9 DEF PoolNext, Put, Remove

\* Whoever asks the pool for the identifier of a pooled upload gets that upload
\* (uploader_pool.go:54), whatever Puts and Removes are half way through.
THEOREM PoolGetFindsOwner == PoolSpec => []GetFindsOwner
<1>1. PoolInv => GetFindsOwner
      BY DEF PoolInv
<1>2. QED
      BY PoolInvInit, PoolInvStep, <1>1, PTL DEF PoolSpec

\* No two uploads share an identifier (locked_uuid_pool.go:42).
THEOREM PoolIdsAreUnique == PoolSpec => []IdsAreUnique
<1>1. PoolInv => IdsAreUnique
      BY DEF PoolInv
<1>2. QED
      BY PoolInvInit, PoolInvStep, <1>1, PTL DEF PoolSpec

\* The identifier pool holds what is in use and nothing else, also while mainLoop
\* has drawn one in advance or has another one still to drop
\* (channelled_uuid_pool.go:54).
THEOREM PoolIdsInUse == PoolSpec => []IdsInUse
<1>1. PoolInv => IdsInUse
      BY DEF PoolInv
<1>2. QED
      BY PoolInvInit, PoolInvStep, <1>1, PTL DEF PoolSpec

=============================================================================
