---------------------------- MODULE ShmPoolsProofs ----------------------------
(***************************************************************************)
(* What ShmPools promises, for any number of pools, buffers and entries.   *)
(* CopiesOwnMemory is not inductive: an entry must not be given up while a *)
(* buffer refers to it, so its count must be right (RefsCounted); a buffer *)
(* must have one entry at most, or destroying it leaves another behind     *)
(* (BufsApart); and memory is taken up again only when no entry has it,    *)
(* which the pool or the buffers an entry is kept for show (PoolsKnown).   *)
(***************************************************************************)
EXTENDS ShmPools, FiniteSetTheorems, TLAPS

RefsTo(i) == {j \in BufSlots : ov_bufs[j].proxy # NoProxy /\ ov_bufs[j].pool = i}

RefsCounted == \A i \in PoolSlots : ov_pools[i].refs = Cardinality(RefsTo(i))

BufsKnown ==
    \A j \in BufSlots :
        ov_bufs[j].proxy # NoProxy =>
            /\ ov_bufs[j].pool \in PoolSlots
            /\ ov_pools[ov_bufs[j].pool].proxy # NoProxy
            /\ buffer[ov_bufs[j].proxy] = ov_pools[ov_bufs[j].pool].fd

BufsApart ==
    \A j, k \in BufSlots :
        ov_bufs[j].proxy # NoProxy /\ ov_bufs[j].proxy = ov_bufs[k].proxy => j = k

PoolsKnown ==
    \A i \in PoolSlots :
        ov_pools[i].proxy # NoProxy =>
            /\ ov_pools[i].fd \in Files
            /\ ov_pools[i].size <= length[ov_pools[i].fd]
            /\ \/ ov_pools[i].proxy = Itself /\ ov_pools[i].dead /\ ov_pools[i].refs > 0
               \/ /\ ov_pools[i].proxy \in Pools /\ ~ov_pools[i].dead
                  /\ pool[ov_pools[i].proxy] = ov_pools[i].fd

PoolsApart ==
    \A i, k \in PoolSlots :
        ov_pools[i].proxy \in Pools /\ ov_pools[i].proxy = ov_pools[k].proxy => i = k

IInv == TypeOK /\ RefsCounted /\ BufsKnown /\ BufsApart /\ PoolsKnown /\ PoolsApart

-----------------------------------------------------------------------------

\* The references to an entry are finitely many.
LEMMA RefsFinite ==
    ASSUME NEW i
    PROVE  /\ IsFiniteSet(RefsTo(i))
           /\ Cardinality(RefsTo(i)) \in Nat
           /\ Cardinality(RefsTo(i)) = 0 <=> RefsTo(i) = {}
<1>1. IsFiniteSet(BufSlots)
    BY ShmConstants, FS_Interval DEF BufSlots
<1>2. RefsTo(i) \in SUBSET BufSlots
    BY DEF RefsTo
<1>3. IsFiniteSet(RefsTo(i))
    BY <1>1, <1>2, FS_Subset
<1> QED
    BY <1>3, FS_EmptySet, FS_CardinalityType

\* Memory that is taken up anew is in no entry.
LEMMA FreshInNoEntry ==
    ASSUME IInv, NEW f \in Files, Fresh(f),
           NEW i \in PoolSlots, ov_pools[i].proxy # NoProxy
    PROVE  ov_pools[i].fd # f
<1>1. CASE ov_pools[i].proxy \in Pools
    BY <1>1, ShmConstants DEF IInv, PoolsKnown, Fresh, TypeOK
<1>2. CASE ov_pools[i].refs > 0
    <2>0. RefsTo(i) # {}
        BY <1>2, RefsFinite DEF IInv, RefsCounted
    <2>1. PICK j \in BufSlots : ov_bufs[j].proxy # NoProxy /\ ov_bufs[j].pool = i
        BY <2>0 DEF RefsTo
    <2>2. ov_bufs[j].proxy \in Buffers /\ buffer[ov_bufs[j].proxy] = ov_pools[i].fd
        BY <2>1 DEF IInv, BufsKnown, TypeOK
    <2> QED
        BY <2>2 DEF Fresh
<1> QED
    BY <1>1, <1>2 DEF IInv, PoolsKnown

\* A new pool's entry counts no buffers and has memory no other entry has.
LEMMA CreatePoolStep ==
    ASSUME IInv, NEW p \in Pools, NEW f \in Files, NEW n \in Sizes, CreatePool(p, f, n)
    PROVE  IInv'
<1>1. n \in Nat /\ pool[p] = NoFile
    BY ShmConstants DEF Sizes, CreatePool
<1>2. \A i \in PoolSlots : ov_pools[i].proxy # NoProxy =>
          ov_pools[i].fd # f /\ ov_pools[i].proxy # p
    BY <1>1, FreshInNoEntry, ShmConstants DEF CreatePool, IInv, PoolsKnown
<1>3. \A i : RefsTo(i)' = RefsTo(i)
    BY DEF CreatePool, RefsTo
<1>4. CASE UNCHANGED ov_pools
    <2>1. TypeOK'
        BY <1>1, <1>4 DEF IInv, TypeOK, CreatePool
    <2>2. RefsCounted' /\ BufsKnown' /\ BufsApart' /\ PoolsApart'
        BY <1>3, <1>4 DEF IInv, CreatePool, RefsCounted, BufsKnown, BufsApart, PoolsApart
    <2>3. PoolsKnown'
        BY <1>1, <1>2, <1>4 DEF IInv, TypeOK, PoolsKnown, CreatePool
    <2> QED
        BY <2>1, <2>2, <2>3 DEF IInv
<1>5. ASSUME NEW i \in PoolSlots, ov_pools[i].proxy = NoProxy,
             ov_pools' = [ov_pools EXCEPT ![i] =
                 [proxy |-> p, fd |-> f, size |-> n, refs |-> 0, dead |-> FALSE]]
      PROVE  IInv'
    <2>1. TypeOK'
        BY <1>1, <1>5 DEF IInv, TypeOK, CreatePool
    <2>2. RefsTo(i) = {}
        BY <1>5 DEF IInv, BufsKnown, RefsTo
    <2>3. RefsCounted'
        BY <1>3, <1>5, <2>2, FS_EmptySet DEF IInv, TypeOK, RefsCounted
    <2>4. BufsKnown' /\ BufsApart'
        BY <1>5 DEF IInv, TypeOK, BufsKnown, BufsApart, CreatePool
    <2>5. PoolsKnown'
        BY <1>1, <1>2, <1>5, ShmConstants DEF IInv, TypeOK, PoolsKnown, CreatePool
    <2>6. PoolsApart'
        BY <1>2, <1>5, ShmConstants DEF IInv, TypeOK, PoolsApart
    <2> QED
        BY <2>1, <2>3, <2>4, <2>5, <2>6 DEF IInv
<1> QED
    BY <1>4, <1>5 DEF CreatePool, First

\* An entry grows with its pool's file, which only grows.
LEMMA ResizeStep ==
    ASSUME IInv, NEW p \in Pools, NEW n \in Sizes, Resize(p, n)
    PROVE  IInv'
<1>1. n \in Nat /\ pool[p] \in Files /\ n >= length[pool[p]]
    BY ShmConstants DEF Sizes, Resize, IInv, TypeOK
<1>2. \A i : RefsTo(i)' = RefsTo(i)
    BY DEF Resize, RefsTo
<1>3. /\ length' \in [Files -> Nat]
      /\ \A f \in Files : length'[f] >= length[f]
      /\ length'[pool[p]] = n
    BY <1>1 DEF Resize, IInv, TypeOK
<1>4. CASE UNCHANGED ov_pools
    <2>1. TypeOK' /\ RefsCounted' /\ BufsKnown' /\ BufsApart' /\ PoolsApart'
        BY <1>2, <1>3, <1>4 DEF IInv, TypeOK, Resize, RefsCounted, BufsKnown, BufsApart, PoolsApart
    <2>2. PoolsKnown'
        BY <1>3, <1>4 DEF IInv, TypeOK, PoolsKnown, Resize
    <2> QED
        BY <2>1, <2>2 DEF IInv
<1>5. ASSUME NEW i \in PoolSlots, ov_pools[i].proxy = p,
             ov_pools' = [ov_pools EXCEPT ![i].size = n]
      PROVE  IInv'
    <2>1. TypeOK'
        BY <1>1, <1>3, <1>5 DEF IInv, TypeOK, Resize
    <2>2. \A k \in PoolSlots : /\ ov_pools'[k].proxy = ov_pools[k].proxy
                               /\ ov_pools'[k].fd = ov_pools[k].fd
                               /\ ov_pools'[k].refs = ov_pools[k].refs
                               /\ ov_pools'[k].dead = ov_pools[k].dead
                               /\ k # i => ov_pools'[k].size = ov_pools[k].size
        BY <1>5 DEF IInv, TypeOK
    <2>3. ov_pools'[i].size = n /\ ov_pools[i].fd = pool[p]
        BY <1>5, ShmConstants DEF IInv, TypeOK, PoolsKnown
    <2>4. RefsCounted' /\ BufsKnown' /\ BufsApart' /\ PoolsApart'
        BY <1>2, <2>2 DEF IInv, Resize, RefsCounted, BufsKnown, BufsApart, PoolsApart
    <2>5. PoolsKnown'
        BY <1>3, <2>2, <2>3 DEF IInv, TypeOK, PoolsKnown, Resize
    <2> QED
        BY <2>1, <2>4, <2>5 DEF IInv
<1> QED
    BY <1>4, <1>5 DEF Resize, First

\* An entry given up if its pool is destroyed and its count is 0.
LEMMA DestroyPoolStep ==
    ASSUME IInv, NEW p \in Pools, DestroyPool(p)
    PROVE  IInv'
<1>1. \A i : RefsTo(i)' = RefsTo(i)
    BY DEF DestroyPool, RefsTo
<1>2. pool[p] \in Files /\ pool' = [pool EXCEPT ![p] = NoFile]
    BY DEF DestroyPool, IInv, TypeOK
<1>3. CASE Missing(ov_pools, p) /\ UNCHANGED ov_pools
    <2>1. \A i \in PoolSlots : ov_pools[i].proxy # p
        BY <1>3 DEF Missing, IInv, TypeOK
    <2>2. TypeOK' /\ RefsCounted' /\ BufsKnown' /\ BufsApart' /\ PoolsApart'
        BY <1>1, <1>3 DEF IInv, TypeOK, DestroyPool, RefsCounted, BufsKnown, BufsApart, PoolsApart
    <2>3. PoolsKnown'
        BY <1>2, <1>3, <2>1 DEF IInv, TypeOK, PoolsKnown, DestroyPool
    <2> QED
        BY <2>2, <2>3 DEF IInv
<1>4. ASSUME NEW i \in PoolSlots, ov_pools[i].proxy = p,
             ov_pools' = [ov_pools EXCEPT ![i] = Dead(ov_pools[i])]
      PROVE  IInv'
    <2>1. \A k \in PoolSlots : ov_pools[k].proxy = p => k = i
        BY <1>4 DEF IInv, PoolsApart
    <2> DEFINE e == [ov_pools[i] EXCEPT !.dead = TRUE, !.proxy = Itself]
    <2>0. /\ e \in [proxy : Pools \cup {Itself, NoProxy}, fd : Files \cup {NoFile},
                   size : Nat, refs : Nat, dead : BOOLEAN]
          /\ e.dead /\ e.refs = ov_pools[i].refs /\ e.refs \in Nat
          /\ ov_pools' = [ov_pools EXCEPT ![i] = Released(e)]
        <3>1. ov_pools[i] \in [proxy : Pools \cup {Itself, NoProxy}, fd : Files \cup {NoFile},
                               size : Nat, refs : Nat, dead : BOOLEAN]
            BY DEF IInv, TypeOK
        <3> QED
            BY <1>4, <3>1 DEF Dead
    <2>2. CASE ov_pools[i].refs = 0
        <3>1. ov_pools' = [ov_pools EXCEPT ![i] = NoPool]
            <4> HIDE DEF e
            <4> QED
                BY <2>0, <2>2 DEF Released
        <3>2. RefsTo(i) = {}
            BY <2>2, RefsFinite DEF IInv, RefsCounted
        <3>3. TypeOK'
            BY <1>2, <3>1 DEF IInv, TypeOK, DestroyPool, NoPool
        <3>4. RefsCounted'
            BY <1>1, <3>1, <3>2, FS_EmptySet DEF IInv, TypeOK, RefsCounted, NoPool
        <3>5. \A j \in BufSlots : ov_bufs[j].proxy # NoProxy => ov_bufs[j].pool # i
            BY <3>2 DEF RefsTo
        <3>6. BufsKnown' /\ BufsApart'
            BY <3>1, <3>5 DEF IInv, TypeOK, BufsKnown, BufsApart, DestroyPool
        <3>7. PoolsKnown' /\ PoolsApart'
            BY <1>2, <2>1, <3>1, ShmConstants
            DEF IInv, TypeOK, PoolsKnown, PoolsApart, DestroyPool, NoPool
        <3> QED
            BY <3>3, <3>4, <3>6, <3>7 DEF IInv
    <2>3. CASE ov_pools[i].refs > 0
        <3>1. ov_pools' = [ov_pools EXCEPT ![i] = e]
            <4> HIDE DEF e
            <4>1. Released(e) = e
                BY <2>0, <2>3 DEF Released
            <4> QED
                BY <2>0, <4>1
        <3>2. \A k \in PoolSlots :
                 /\ ov_pools'[k].fd = ov_pools[k].fd /\ ov_pools'[k].refs = ov_pools[k].refs
                 /\ ov_pools'[k].size = ov_pools[k].size
                 /\ k # i => ov_pools'[k] = ov_pools[k]
            BY <3>1 DEF IInv, TypeOK
        <3>3. ov_pools'[i].proxy = Itself /\ ov_pools'[i].dead
            BY <3>1 DEF IInv, TypeOK
        <3>4. TypeOK'
            BY <1>2, <2>0, <3>1 DEF IInv, TypeOK, DestroyPool
        <3>5. RefsCounted'
            BY <1>1, <3>2 DEF IInv, RefsCounted
        <3>6. BufsKnown' /\ BufsApart'
            BY <3>2, <3>3, ShmConstants DEF IInv, BufsKnown, BufsApart, DestroyPool
        <3>7. PoolsKnown' /\ PoolsApart'
            BY <1>2, <1>4, <2>1, <2>3, <3>2, <3>3, ShmConstants
            DEF IInv, TypeOK, PoolsKnown, PoolsApart, DestroyPool
        <3> QED
            BY <3>4, <3>5, <3>6, <3>7 DEF IInv
    <2> QED
        BY <2>2, <2>3 DEF IInv, TypeOK
<1> QED
    BY <1>3, <1>4 DEF DestroyPool, First

\* A new buffer refers to its pool's entry, which counts it.
LEMMA CreateBufferStep ==
    ASSUME IInv, NEW p \in Pools, NEW b \in Buffers, CreateBuffer(p, b)
    PROVE  IInv'
<1>1. pool[p] \in Files /\ buffer[b] = NoFile /\ buffer' = [buffer EXCEPT ![b] = pool[p]]
    BY DEF CreateBuffer, IInv, TypeOK
<1>2. \A j \in BufSlots : ov_bufs[j].proxy # b
    BY <1>1, ShmConstants DEF IInv, TypeOK, BufsKnown, PoolsKnown
<1>3. CASE UNCHANGED <<ov_pools, ov_bufs>>
    <2>1. \A i : RefsTo(i)' = RefsTo(i)
        BY <1>3 DEF RefsTo
    <2>2. TypeOK' /\ RefsCounted' /\ BufsApart' /\ PoolsApart'
        BY <1>1, <1>3, <2>1 DEF IInv, TypeOK, CreateBuffer, RefsCounted, BufsApart, PoolsApart
    <2>3. BufsKnown' /\ PoolsKnown'
        BY <1>1, <1>2, <1>3 DEF IInv, TypeOK, CreateBuffer, BufsKnown, PoolsKnown
    <2> QED
        BY <2>2, <2>3 DEF IInv
<1>4. ASSUME NEW i \in PoolSlots, ov_pools[i].proxy = p,
             NEW j \in BufSlots, ov_bufs[j].proxy = NoProxy,
             ov_bufs' = [ov_bufs EXCEPT ![j] = [proxy |-> b, pool |-> i]],
             ov_pools' = [ov_pools EXCEPT ![i].refs = @ + 1]
      PROVE  IInv'
    <2>1. RefsTo(i)' = RefsTo(i) \cup {j} /\ j \notin RefsTo(i)
        BY <1>4, ShmConstants DEF IInv, TypeOK, RefsTo
    <2>2. \A k \in PoolSlots : k # i => RefsTo(k)' = RefsTo(k)
        BY <1>4, ShmConstants DEF IInv, TypeOK, RefsTo
    <2>3. Cardinality(RefsTo(i)') = Cardinality(RefsTo(i)) + 1
        BY <2>1, RefsFinite, FS_AddElement
    <2>4. \A k \in PoolSlots :
             /\ ov_pools'[k].proxy = ov_pools[k].proxy /\ ov_pools'[k].fd = ov_pools[k].fd
             /\ ov_pools'[k].size = ov_pools[k].size /\ ov_pools'[k].dead = ov_pools[k].dead
             /\ ov_pools'[k].refs = IF k = i THEN ov_pools[k].refs + 1 ELSE ov_pools[k].refs
        BY <1>4 DEF IInv, TypeOK
    <2>5. TypeOK'
        <3>1. ov_pools' \in [PoolSlots -> [proxy : Pools \cup {Itself, NoProxy},
                  fd : Files \cup {NoFile}, size : Nat, refs : Nat, dead : BOOLEAN]]
            BY <1>4 DEF IInv, TypeOK
        <3>2. ov_bufs' \in [BufSlots -> [proxy : Buffers \cup {NoProxy}, pool : 0..OV_POOLS]]
            BY <1>4, ShmConstants DEF IInv, TypeOK, PoolSlots
        <3> QED
            BY <1>1, <3>1, <3>2 DEF IInv, TypeOK, CreateBuffer
    <2>6. RefsCounted'
        <3> SUFFICES ASSUME NEW k \in PoolSlots
                     PROVE  ov_pools'[k].refs = Cardinality(RefsTo(k)')
            BY DEF RefsCounted
        <3>1. CASE k = i
            BY <2>3, <2>4, <3>1 DEF IInv, RefsCounted
        <3>2. CASE k # i
            <4>1. RefsTo(k)' = RefsTo(k)
                BY <2>2, <3>2
            <4> QED
                BY <2>4, <3>2, <4>1 DEF IInv, RefsCounted
        <3> QED
            BY <3>1, <3>2
    <2>7. BufsKnown'
        <3>1. ov_pools[i].proxy # NoProxy /\ ov_pools[i].fd = pool[p]
            BY <1>4, ShmConstants DEF IInv, PoolsKnown
        <3> QED
            BY <1>1, <1>2, <1>4, <2>4, <3>1 DEF IInv, TypeOK, BufsKnown
    <2>8. BufsApart'
        BY <1>2, <1>4 DEF IInv, TypeOK, BufsApart
    <2>9. PoolsKnown' /\ PoolsApart'
        BY <2>4 DEF IInv, TypeOK, PoolsKnown, PoolsApart, CreateBuffer
    <2> QED
        BY <2>5, <2>6, <2>7, <2>8, <2>9 DEF IInv
<1> QED
    BY <1>3, <1>4 DEF CreateBuffer, First

\* An entry loses a reference, and goes with the last one if its pool is destroyed.
LEMMA DestroyBufferStep ==
    ASSUME IInv, NEW b \in Buffers, DestroyBuffer(b)
    PROVE  IInv'
<1>1. buffer' = [buffer EXCEPT ![b] = NoFile] /\ buffer[b] \in Files
    BY DEF DestroyBuffer, IInv, TypeOK
<1>2. CASE Missing(ov_bufs, b) /\ UNCHANGED <<ov_pools, ov_bufs>>
    <2>1. \A j \in BufSlots : ov_bufs[j].proxy # b
        BY <1>2 DEF Missing, IInv, TypeOK
    <2>2. \A i : RefsTo(i)' = RefsTo(i)
        BY <1>2 DEF RefsTo
    <2>3. TypeOK' /\ RefsCounted' /\ BufsApart' /\ PoolsApart'
        BY <1>1, <1>2, <2>2 DEF IInv, TypeOK, DestroyBuffer, RefsCounted, BufsApart, PoolsApart
    <2>4. BufsKnown' /\ PoolsKnown'
        BY <1>1, <1>2, <2>1 DEF IInv, TypeOK, DestroyBuffer, BufsKnown, PoolsKnown
    <2> QED
        BY <2>3, <2>4 DEF IInv
<1>3. ASSUME NEW j \in BufSlots, ov_bufs[j].proxy = b, NEW i, i = ov_bufs[j].pool,
             ov_pools' = [ov_pools EXCEPT ![i] = Unreferenced(ov_pools[i])],
             ov_bufs' = [ov_bufs EXCEPT ![j] = NoBuf]
      PROVE  IInv'
    <2> DEFINE Entries == [proxy : Pools \cup {Itself, NoProxy}, fd : Files \cup {NoFile},
                           size : Nat, refs : Nat, dead : BOOLEAN]
    <2> DEFINE e == [ov_pools[i] EXCEPT !.refs = @ - 1]
    <2>1. b # NoProxy /\ i \in PoolSlots /\ ov_pools[i] \in Entries /\ j \in RefsTo(i)
        BY <1>3, ShmConstants DEF IInv, TypeOK, BufsKnown, RefsTo
    <2>2. RefsTo(i)' = RefsTo(i) \ {j}
        BY <1>3, <2>1, ShmConstants DEF IInv, TypeOK, RefsTo, NoBuf
    <2>3. \A k \in PoolSlots : k # i => RefsTo(k)' = RefsTo(k)
        BY <1>3, <2>1, ShmConstants DEF IInv, TypeOK, RefsTo, NoBuf
    <2>4. Cardinality(RefsTo(i)') = ov_pools[i].refs - 1 /\ ov_pools[i].refs > 0
        <3>1. Cardinality(RefsTo(i)) # 0
            BY <2>1, RefsFinite
        <3>2. Cardinality(RefsTo(i) \ {j}) = Cardinality(RefsTo(i)) - 1
            BY <2>1, RefsFinite, FS_RemoveElement
        <3>3. ov_pools[i].refs = Cardinality(RefsTo(i))
            BY <2>1 DEF IInv, RefsCounted
        <3> QED
            BY <2>2, <3>1, <3>2, <3>3, RefsFinite
    <2>5. /\ e \in Entries
          /\ e.refs = ov_pools[i].refs - 1 /\ e.proxy = ov_pools[i].proxy
          /\ e.fd = ov_pools[i].fd /\ e.size = ov_pools[i].size /\ e.dead = ov_pools[i].dead
        BY <2>1, <2>4
    <2>6. BufsApart' /\ \A k \in BufSlots : k # j => ov_bufs'[k] = ov_bufs[k] /\ ov_bufs[k].proxy # b
        BY <1>3, <2>1 DEF IInv, TypeOK, BufsApart, NoBuf
    <2>7. ov_bufs'[j] = NoBuf
        BY <1>3 DEF IInv, TypeOK
    <2>8. /\ ov_bufs' \in [BufSlots -> [proxy : Buffers \cup {NoProxy}, pool : 0..OV_POOLS]]
          /\ UNCHANGED <<pool, length>>
        BY <1>3, ShmConstants DEF IInv, TypeOK, NoBuf, DestroyBuffer
    <2>9. CASE e.dead /\ e.refs <= 0
        <3>1. ov_pools' = [ov_pools EXCEPT ![i] = NoPool]
            <4>1. Released(e) = NoPool
                BY <2>9 DEF Released
            <4>2. ov_pools' = [ov_pools EXCEPT ![i] = Released(e)]
                BY <1>3 DEF Unreferenced
            <4> HIDE DEF e
            <4> QED
                BY <4>1, <4>2
        <3>2. RefsTo(i)' = {} /\ Cardinality(RefsTo(i)') = 0
            <4>1. IsFiniteSet(RefsTo(i)')
                BY <2>2, RefsFinite, FS_RemoveElement
            <4>2. Cardinality(RefsTo(i)') = 0
                BY <2>1, <2>4, <2>5, <2>9
            <4> QED
                BY <4>1, <4>2, FS_EmptySet
        <3>3. TypeOK'
            BY <1>1, <2>8, <3>1 DEF IInv, TypeOK, NoPool
        <3>4. RefsCounted'
            BY <2>3, <3>1, <3>2 DEF IInv, TypeOK, RefsCounted, NoPool
        <3>5. \A k \in BufSlots : ov_bufs'[k].proxy # NoProxy => ov_bufs'[k].pool # i
            BY <3>2 DEF RefsTo
        <3>6. BufsKnown'
            BY <1>1, <2>6, <2>7, <3>1, <3>5 DEF IInv, TypeOK, BufsKnown, NoBuf
        <3>7. PoolsKnown' /\ PoolsApart'
            BY <2>8, <3>1, ShmConstants DEF IInv, TypeOK, PoolsKnown, PoolsApart, NoPool
        <3> QED
            BY <2>6, <3>3, <3>4, <3>6, <3>7 DEF IInv
    <2>10. CASE ~(e.dead /\ e.refs <= 0)
        <3>1. ov_pools' = [ov_pools EXCEPT ![i] = e]
            <4>1. Released(e) = e
                BY <2>10 DEF Released
            <4>2. ov_pools' = [ov_pools EXCEPT ![i] = Released(e)]
                BY <1>3 DEF Unreferenced
            <4> HIDE DEF e
            <4> QED
                BY <4>1, <4>2
        <3>2. \A k \in PoolSlots :
                 /\ ov_pools'[k].proxy = ov_pools[k].proxy /\ ov_pools'[k].fd = ov_pools[k].fd
                 /\ ov_pools'[k].size = ov_pools[k].size /\ ov_pools'[k].dead = ov_pools[k].dead
                 /\ k # i => ov_pools'[k].refs = ov_pools[k].refs
            BY <2>1, <2>5, <3>1 DEF IInv, TypeOK
        <3>3. ov_pools'[i].refs = ov_pools[i].refs - 1
            BY <2>1, <2>5, <3>1 DEF IInv, TypeOK
        <3>4. TypeOK'
            BY <1>1, <2>5, <2>8, <3>1 DEF IInv, TypeOK
        <3>5. RefsCounted'
            <4> SUFFICES ASSUME NEW k \in PoolSlots
                         PROVE  ov_pools'[k].refs = Cardinality(RefsTo(k)')
                BY DEF RefsCounted
            <4>1. CASE k = i
                BY <2>4, <3>3, <4>1
            <4>2. CASE k # i
                <5>1. RefsTo(k)' = RefsTo(k)
                    BY <2>3, <4>2
                <5> QED
                    BY <3>2, <4>2, <5>1 DEF IInv, RefsCounted
            <4> QED
                BY <4>1, <4>2
        <3>6. BufsKnown'
            BY <1>1, <2>6, <2>7, <3>2 DEF IInv, TypeOK, BufsKnown, NoBuf
        <3>7. ov_pools[i].dead => ov_pools'[i].refs > 0
            BY <2>1, <2>4, <2>5, <2>10, <3>3
        <3>8. PoolsKnown' /\ PoolsApart'
            BY <2>8, <3>2, <3>7 DEF IInv, PoolsKnown, PoolsApart
        <3> QED
            BY <2>6, <3>4, <3>5, <3>6, <3>8 DEF IInv
    <2> QED
        BY <2>9, <2>10
<1> QED
    BY <1>2, <1>3 DEF DestroyBuffer, First

\* The invariant holds throughout.
LEMMA InvariantHolds == Spec => []IInv
<1>1. Init => IInv
    <2> SUFFICES ASSUME Init PROVE IInv
        OBVIOUS
    <2>1. TypeOK /\ BufsKnown /\ BufsApart /\ PoolsKnown /\ PoolsApart
        BY ShmConstants
        DEF Init, TypeOK, BufsKnown, BufsApart, PoolsKnown, PoolsApart, NoPool, NoBuf
    <2>2. \A i : RefsTo(i) = {}
        BY DEF Init, RefsTo, NoBuf
    <2>3. RefsCounted
        BY <2>2, FS_EmptySet DEF Init, RefsCounted, NoPool
    <2> QED
        BY <2>1, <2>3 DEF IInv
<1>2. IInv /\ [Next]_vars => IInv'
    <2> SUFFICES ASSUME IInv, [Next]_vars PROVE IInv'
        OBVIOUS
    <2>1. CASE UNCHANGED vars
        BY <2>1 DEF vars, IInv, TypeOK, RefsCounted, RefsTo, BufsKnown, BufsApart, PoolsKnown,
                    PoolsApart
    <2>2. CASE Next
        BY <2>2, CreatePoolStep, ResizeStep, DestroyPoolStep, CreateBufferStep, DestroyBufferStep
        DEF Next
    <2> QED
        BY <2>1, <2>2
<1> QED
    BY <1>1, <1>2, PTL DEF Spec

-----------------------------------------------------------------------------
(* The results. *)

\* The tables and the client's memory keep their types.
THEOREM TypeCorrect == Spec => []TypeOK
<1>1. IInv => TypeOK
    BY DEF IInv
<1> QED
    BY <1>1, InvariantHolds, PTL

\* A picture is copied from the memory its buffer was made of, which is mapped as
\* far as it is copied, for any number of pools, buffers and entries.
THEOREM OwnMemoryCopied == Spec => []CopiesOwnMemory
<1>1. IInv => CopiesOwnMemory
    <2> SUFFICES ASSUME IInv, NEW j \in BufSlots, ov_bufs[j].proxy # NoProxy
                 PROVE  /\ ov_bufs[j].pool \in PoolSlots
                        /\ ov_pools[ov_bufs[j].pool].fd # NoFile
                        /\ buffer[ov_bufs[j].proxy] = ov_pools[ov_bufs[j].pool].fd
                        /\ ov_pools[ov_bufs[j].pool].size <= length[ov_pools[ov_bufs[j].pool].fd]
        BY DEF CopiesOwnMemory
    <2> QED
        BY ShmConstants DEF IInv, BufsKnown, PoolsKnown
<1> QED
    BY <1>1, InvariantHolds, PTL

\* Every mapping and descriptor the adapter keeps is some live pool's or buffer's.
THEOREM NothingIsLeaked == Spec => []NothingLeaks
<1>1. IInv => NothingLeaks
    <2> SUFFICES ASSUME IInv, NEW i \in PoolSlots, ov_pools[i].proxy # NoProxy,
                        ~(ov_pools[i].proxy \in Pools /\ pool[ov_pools[i].proxy] = ov_pools[i].fd)
                 PROVE  \E j \in BufSlots : ov_bufs[j].proxy # NoProxy /\ ov_bufs[j].pool = i
        BY DEF NothingLeaks
    <2>1. ov_pools[i].refs > 0 /\ ov_pools[i].refs = Cardinality(RefsTo(i))
        BY DEF IInv, PoolsKnown, RefsCounted
    <2>2. RefsTo(i) # {}
        BY <2>1, RefsFinite
    <2> QED
        BY <2>2 DEF RefsTo
<1> QED
    BY <1>1, InvariantHolds, PTL

=============================================================================
