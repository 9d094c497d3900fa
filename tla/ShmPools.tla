------------------------------- MODULE ShmPools -------------------------------
(***************************************************************************)
(* The client's shared memory as the adapter keeps it mapped, to copy the  *)
(* pictures from (src/src/webos-xdg.c, "ov_pool_find" to                   *)
(* "ov_buf_destroyed").  A client destroys a pool as soon as it has made   *)
(* its buffers, and those show its memory until they are destroyed too, so *)
(* an entry of the pool table outlives its wl_shm_pool: it counts the      *)
(* buffers that refer to it.  Pools and buffers are found by the address   *)
(* of their proxies, which libwayland gives to new ones when they are      *)
(* gone.  Every handler holds ov_mu throughout.                            *)
(***************************************************************************)
EXTENDS Integers, FiniteSets

CONSTANTS
    Pools,          \* addresses of wl_shm_pool proxies
    Buffers,        \* addresses of wl_buffer proxies
    Files,          \* the client's memory, each with a descriptor
    NoProxy,
    NoFile,
    Itself,         \* the entry's own address, in place of a destroyed pool's
    OV_POOLS,
    OV_BUFS,
    MaxSize         \* bound: how far the client lets a pool grow

ASSUME ShmConstants ==
    /\ NoProxy \notin Pools \cup Buffers
    /\ Itself \notin Pools \cup {NoProxy}
    /\ NoFile \notin Files
    /\ OV_POOLS \in Nat /\ OV_BUFS \in Nat
    /\ MaxSize \in Nat

VARIABLES
    ov_pools,
    ov_bufs,
    pool,           \* the memory of each wl_shm_pool, or NoFile
    buffer,         \* the memory of each wl_buffer, or NoFile
    length          \* the length of each file

vars == <<ov_pools, ov_bufs, pool, buffer, length>>

PoolSlots == 1..OV_POOLS
BufSlots == 1..OV_BUFS
Sizes == 1..MaxSize

\* Entries after memset.
NoPool == [proxy |-> NoProxy, fd |-> NoFile, size |-> 0, refs |-> 0, dead |-> FALSE]
NoBuf == [proxy |-> NoProxy, pool |-> 0]

Init ==
    /\ ov_pools = [i \in PoolSlots |-> NoPool]
    /\ ov_bufs = [j \in BufSlots |-> NoBuf]
    /\ pool = [p \in Pools |-> NoFile]
    /\ buffer = [b \in Buffers |-> NoFile]
    /\ length = [f \in Files |-> 0]

-----------------------------------------------------------------------------
(* The tables. *)

\* i is the first entry of the table with the address.
First(table, i, proxy) ==
    /\ table[i].proxy = proxy
    /\ \A k \in DOMAIN table : k < i => table[k].proxy # proxy

Missing(table, proxy) == \A i \in DOMAIN table : table[i].proxy # proxy

\* Mutant: one reference more is waited for.
ReleasedLate(e) == IF e.dead /\ e.refs < 0 THEN NoPool ELSE e

\* ov_pool_release: the entry of a destroyed pool without buffers is unmapped.
Released(e) == IF e.dead /\ e.refs <= 0 THEN NoPool ELSE e

-----------------------------------------------------------------------------
(* The client's requests. *)

\* Memory that neither a pool nor a buffer shows.
Fresh(f) == (\A p \in Pools : pool[p] # f) /\ (\A b \in Buffers : buffer[b] # f)

\* wl_shm.create_pool and ov_pool_add: the memory is mapped, if an entry is free and
\* dup and mmap do not fail.
CreatePool(p, f, n) ==
    /\ pool[p] = NoFile /\ Fresh(f)
    /\ pool' = [pool EXCEPT ![p] = f]
    /\ length' = [length EXCEPT ![f] = n]
    /\ \/ \E i \in PoolSlots :
            /\ First(ov_pools, i, NoProxy)
            /\ ov_pools' = [ov_pools EXCEPT ![i] =
                    [proxy |-> p, fd |-> f, size |-> n, refs |-> 0, dead |-> FALSE]]
       \/ UNCHANGED ov_pools
    /\ UNCHANGED <<ov_bufs, buffer>>

\* wl_shm_pool.resize and ov_pool_resize: mapped anew, or as before if mmap fails.
Resize(p, n) ==
    /\ pool[p] # NoFile
    /\ n >= length[pool[p]]
    /\ length' = [length EXCEPT ![pool[p]] = n]
    /\ \/ \E i \in PoolSlots :
            /\ First(ov_pools, i, p) /\ n > ov_pools[i].size
            /\ ov_pools' = [ov_pools EXCEPT ![i].size = n]
       \/ UNCHANGED ov_pools
    /\ UNCHANGED <<ov_bufs, pool, buffer>>

\* Mutant: the dead entry keeps the address.
DeadByName(e) == Released([e EXCEPT !.dead = TRUE])

\* The entry of a pool that is destroyed.
Dead(e) == Released([e EXCEPT !.dead = TRUE, !.proxy = Itself])

\* wl_shm_pool.destroy and ov_pool_destroyed.
DestroyPool(p) ==
    /\ pool[p] # NoFile
    /\ pool' = [pool EXCEPT ![p] = NoFile]
    /\ \/ \E i \in PoolSlots :
            /\ First(ov_pools, i, p)
            /\ ov_pools' = [ov_pools EXCEPT ![i] = Dead(@)]
       \/ Missing(ov_pools, p) /\ UNCHANGED ov_pools
    /\ UNCHANGED <<ov_bufs, buffer, length>>

\* wl_shm_pool.create_buffer and ov_buf_add: noted, if its pool is and there is a
\* free entry.
CreateBuffer(p, b) ==
    /\ pool[p] # NoFile /\ buffer[b] = NoFile
    /\ buffer' = [buffer EXCEPT ![b] = pool[p]]
    /\ \/ \E i \in PoolSlots, j \in BufSlots :
            /\ First(ov_pools, i, p) /\ First(ov_bufs, j, NoProxy)
            /\ ov_bufs' = [ov_bufs EXCEPT ![j] = [proxy |-> b, pool |-> i]]
            /\ ov_pools' = [ov_pools EXCEPT ![i].refs = @ + 1]
       \/ /\ Missing(ov_pools, p) \/ Missing(ov_bufs, NoProxy)
          /\ UNCHANGED <<ov_pools, ov_bufs>>
    /\ UNCHANGED <<pool, length>>

\* The entry when a buffer fewer refers to it.
Unreferenced(e) == Released([e EXCEPT !.refs = @ - 1])

\* wl_buffer.destroy and ov_buf_destroyed.
DestroyBuffer(b) ==
    /\ buffer[b] # NoFile
    /\ buffer' = [buffer EXCEPT ![b] = NoFile]
    /\ \/ \E j \in BufSlots :
            /\ First(ov_bufs, j, b)
            /\ ov_pools' = [ov_pools EXCEPT ![ov_bufs[j].pool] = Unreferenced(@)]
            /\ ov_bufs' = [ov_bufs EXCEPT ![j] = NoBuf]
       \/ Missing(ov_bufs, b) /\ UNCHANGED <<ov_pools, ov_bufs>>
    /\ UNCHANGED <<pool, length>>

Next ==
    \/ \E p \in Pools :
         \/ \E n \in Sizes : Resize(p, n) \/ \E f \in Files : CreatePool(p, f, n)
         \/ DestroyPool(p)
         \/ \E b \in Buffers : CreateBuffer(p, b)
    \/ \E b \in Buffers : DestroyBuffer(b)

Spec == Init /\ [][Next]_vars

-----------------------------------------------------------------------------
(* Properties. *)

\* The values the variables take.
TypeOK ==
    /\ ov_pools \in [PoolSlots -> [proxy : Pools \cup {Itself, NoProxy}, fd : Files \cup {NoFile},
                                   size : Nat, refs : Nat, dead : BOOLEAN]]
    /\ ov_bufs \in [BufSlots -> [proxy : Buffers \cup {NoProxy}, pool : 0..OV_POOLS]]
    /\ pool \in [Pools -> Files \cup {NoFile}]
    /\ buffer \in [Buffers -> Files \cup {NoFile}]
    /\ length \in [Files -> Nat]

\* What ov_commit copies a buffer's picture from is mapped, is the memory the client
\* made that buffer of, and ends where the client's file ends or before: whatever was
\* destroyed meanwhile, and whoever had these addresses earlier.
CopiesOwnMemory ==
    \A j \in BufSlots :
        ov_bufs[j].proxy # NoProxy =>
            LET e == ov_pools[ov_bufs[j].pool]
            IN  /\ ov_bufs[j].pool \in PoolSlots
                /\ e.fd # NoFile
                /\ buffer[ov_bufs[j].proxy] = e.fd
                /\ e.size <= length[e.fd]

\* A mapping and its descriptor are kept only for a pool or a buffer that lives.
NothingLeaks ==
    \A i \in PoolSlots :
        ov_pools[i].proxy # NoProxy =>
            \/ ov_pools[i].proxy \in Pools /\ pool[ov_pools[i].proxy] = ov_pools[i].fd
            \/ \E j \in BufSlots : ov_bufs[j].proxy # NoProxy /\ ov_bufs[j].pool = i

=============================================================================
