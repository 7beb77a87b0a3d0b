----------------------------- MODULE UploaderPool -----------------------------
(***************************************************************************)
(* The uploader pool (upload/uploader_pool.go) on top of the pool of       *)
(* identifiers it is built with: LockedUUIDPool, which NewUIDPool returns, *)
(* or ChannelledUUIDPool, which it names as the alternative.  The latter   *)
(* gives its identifiers to a goroutine, mainLoop, that draws one in       *)
(* advance and takes back others without the caller waiting for it.        *)
(*                                                                         *)
(* Put and Remove each take two locks one after the other, that of the     *)
(* identifier pool and that of the map, so each is two steps, and the      *)
(* steps of different uploaders interleave.  A slot u stands for the life  *)
(* of one uploader: NewUploadToLocalFile puts it once, CleanUp removes it  *)
(* once; a slot that is gone is used again for another uploader.  Size is  *)
(* only logged.                                                            *)
(***************************************************************************)
CONSTANTS
  Ids,          \* what uuid.New may return
  Uploaders,
  NoUploader    \* the map has no entry

ASSUME NoUploaderAssumption == NoUploader \notin Uploaders

VARIABLES
  uids,       \* the identifier pool
  loop,       \* "locked": there is no mainLoop; else what mainLoop does: "draw",
              \* "select" or "remove"
  next,       \* next_uuid, from "select" on
  leaving,    \* the identifier mainLoop removes, at "remove"
  uploaders,  \* the map, with NoUploader where it has no entry
  at,         \* "new", "put" (has an identifier), "pooled", "removing", "gone"
  ident       \* the identifier of an uploader, u.id; only meaningful from
              \* "put" to "removing"

loopVars == <<loop, next, leaving>>
poolVars == <<uids, loopVars, uploaders, at, ident>>

PoolInit == /\ uids = {}
            /\ loop \in {"locked", "draw"}
            /\ next \in Ids /\ leaving = next
            /\ uploaders = [id \in Ids |-> NoUploader]
            /\ at = [u \in Uploaders |-> "new"]
            /\ ident \in [Uploaders -> Ids]

AnyId(id) == TRUE
Fresh(id) == id \notin uids

\* LockedUUIDPool.New: draws until the identifier is not in use.
NewId(u) == /\ at[u] = "new" /\ loop = "locked"
            /\ \E id \in Ids :
                 /\ Fresh(id)
                 /\ uids' = uids \cup {id}
                 /\ ident' = [ident EXCEPT ![u] = id]
            /\ at' = [at EXCEPT ![u] = "put"]
            /\ UNCHANGED <<loopVars, uploaders>>

\* makeNewUUID, in mainLoop
Draw == /\ loop = "draw"
        /\ \E id \in Ids : Fresh(id) /\ uids' = uids \cup {id} /\ next' = id
        /\ loop' = "select"
        /\ UNCHANGED <<leaving, uploaders, at, ident>>

\* ChannelledUUIDPool.New receives what mainLoop offers.
ReceiveId(u) == /\ at[u] = "new" /\ loop = "select"
                /\ ident' = [ident EXCEPT ![u] = next]
                /\ loop' = "draw"
                /\ at' = [at EXCEPT ![u] = "put"]
                /\ UNCHANGED <<uids, next, leaving, uploaders>>

Enter(u) == /\ at[u] = "put"
            /\ uploaders' = [uploaders EXCEPT ![ident[u]] = u]
            /\ at' = [at EXCEPT ![u] = "pooled"]
            /\ UNCHANGED <<uids, loopVars, ident>>

Put(u) == NewId(u) \/ ReceiveId(u) \/ Enter(u)

Get(id) == uploaders[id]

DropEntry(u, from, to) ==
  /\ at[u] = from
  /\ uploaders' = [uploaders EXCEPT ![ident[u]] = NoUploader]
  /\ at' = [at EXCEPT ![u] = to]
  /\ UNCHANGED <<uids, loopVars, ident>>

\* LockedUUIDPool.Remove, or ChannelledUUIDPool.Remove, which leaves the rest to
\* mainLoop.
FreeId(u, from, to) ==
  /\ at[u] = from
  /\ IF loop = "locked"
     THEN uids' = uids \ {ident[u]} /\ UNCHANGED loopVars
     ELSE /\ loop = "select"
          /\ leaving' = ident[u] /\ loop' = "remove"
          /\ UNCHANGED <<uids, next>>
  /\ at' = [at EXCEPT ![u] = to]
  /\ UNCHANGED <<uploaders, ident>>

\* remove, in mainLoop
DropId == /\ loop = "remove"
          /\ uids' = uids \ {leaving}
          /\ loop' = "select"
          /\ UNCHANGED <<next, leaving, uploaders, at, ident>>

RemoveIdFirst(u) == \/ FreeId(u, "pooled", "removing")
                    \/ DropEntry(u, "removing", "gone")

Remove(u) == \/ DropEntry(u, "pooled", "removing")
             \/ FreeId(u, "removing", "gone")

\* The slot of a collected uploader stands for a new one.
Recycle(u) == /\ at[u] = "gone"
              /\ at' = [at EXCEPT ![u] = "new"]
              /\ UNCHANGED <<uids, loopVars, uploaders, ident>>

PoolNext == \/ \E u \in Uploaders : Put(u) \/ Remove(u) \/ Recycle(u)
            \/ Draw \/ DropId

PoolSpec == PoolInit /\ [][PoolNext]_poolVars

-----------------------------------------------------------------------------
PoolTypeOK ==
  /\ uids \subseteq Ids
  /\ loop \in {"locked", "draw", "select", "remove"}
  /\ next \in Ids /\ leaving \in Ids
  /\ uploaders \in [Ids -> Uploaders \cup {NoUploader}]
  /\ at \in [Uploaders -> {"new", "put", "pooled", "removing", "gone"}]
  /\ ident \in [Uploaders -> Ids]

HasId(u) == at[u] \in {"put", "pooled", "removing"}

\* Two uploads never have the same identifier, not even while one of them is
\* half way into the pool and the other half way out.
IdsAreUnique ==
  \A u, v \in Uploaders : HasId(u) /\ HasId(v) /\ ident[u] = ident[v] => u = v

\* Whoever asks for the identifier of a pooled upload gets that upload: no Put
\* overwrites it and no Remove of another upload drops it.
GetFindsOwner == \A u \in Uploaders : at[u] = "pooled" => Get(ident[u]) = u

\* The identifier pool holds the identifiers in use, the one that mainLoop offers
\* and the one it is about to drop, and no other: the map has no entry that New
\* might give away again, and no identifier leaks.
HeldByLoop == (IF loop \in {"select", "remove"} THEN {next} ELSE {})
              \cup (IF loop = "remove" THEN {leaving} ELSE {})

IdsInUse == uids = {ident[u] : u \in {v \in Uploaders : HasId(v)}} \cup HeldByLoop

=============================================================================
