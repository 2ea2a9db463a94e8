----------------------------- MODULE PoolManager -----------------------------
(* Buffers allocated ahead for code that runs in vmx-root and cannot         *)
(* allocate (PoolManager.c).  A buffer is taken and given back under         *)
(* LockForReadingPool on any core; a request for a new one goes into a slot  *)
(* of g_RequestNewAllocation.  Every IOCTL first runs                        *)
(* PoolManagerCheckAndPerformAllocationAndDeallocation at PASSIVE_LEVEL,     *)
(* which serves the slots and releases what was given back; the threads of   *)
(* the user-mode application do so concurrently.                             *)
EXTENDS Integers, Sequences

CONSTANTS
    IntentionList,   \* POOL_ALLOCATION_INTENTION, in PoolManagerInitialize's order
    Preallocated,    \* buffers of each intention made by PoolManagerInitialize
    QueueDepth,      \* MaximumRequestsQueueDepth
    Threads,         \* threads that send IOCTLs
    Overtaking       \* a thread may insert or release while another inserts

None == "none"
Intentions == {IntentionList[n] : n \in DOMAIN IntentionList}

ASSUME PoolAssumption ==
    /\ Preallocated \in Nat \ {0} /\ QueueDepth \in Nat
    /\ None \notin Intentions /\ Len(IntentionList) \in Nat
    /\ Overtaking \in BOOLEAN

VARIABLES
    pools,       \* g_ListOfAllocatedPoolsHead: the table entries, by address
    lastPool,    \* addresses up to this one have been used
    slots,       \* g_RequestNewAllocation
    newAlloc,    \* g_IsNewRequestForAllocationReceived
    newFree,     \* g_IsNewRequestForDeAllocation
    pass         \* per thread: where it is in the allocation pass

poolVars == <<pools, lastPool, slots, newAlloc, newFree, pass>>

Entry == [Intention : Intentions, IsBusy : BOOLEAN, ShouldBeFreed : BOOLEAN]
Slots == 1 .. QueueDepth
Fresh(i) == [Intention |-> i, IsBusy |-> FALSE, ShouldBeFreed |-> FALSE]

\* Between the two halves of InsertHeadList: what the new buffer is for and the
\* entry that was first in the list.
NotLinking == [for |-> None, first |-> 0]
Linking == [for : Intentions, first : Nat]

PassStates ==
    [at : {"idle", "serve", "link", "clear", "free", "flags"}, slot : 1 .. QueueDepth + 1,
     link : Linking \cup {NotLinking}]
Idle == [at |-> "idle", slot |-> 1, link |-> NotLinking]

PoolTypeOK ==
    /\ lastPool \in Nat
    /\ DOMAIN pools \subseteq 1 .. lastPool
    /\ \A b \in DOMAIN pools : pools[b] \in Entry
    /\ slots \in [Slots -> Intentions \cup {None}]
    /\ newAlloc \in BOOLEAN /\ newFree \in BOOLEAN
    /\ pass \in [Threads -> PassStates]

\* PoolManagerInitialize, its first pass included.
PoolManagerInitialize ==
    /\ lastPool = Preallocated * Len(IntentionList)
    /\ pools = [b \in 1 .. lastPool |-> Fresh(IntentionList[1 + (b - 1) \div Preallocated])]
    /\ slots = [s \in Slots |-> None]
    /\ newAlloc = FALSE /\ newFree = FALSE
    /\ pass = [t \in Threads |-> Idle]
-----------------------------------------------------------------------------
(* On any core                                                               *)

NoPool == 0

Max0(S) == IF S = {} THEN NoPool ELSE CHOOSE b \in S : \A d \in S : d <= b

\* The buffer PoolManagerRequestPool finds: the newest is at the list's head.
Available(i) == Max0({b \in DOMAIN pools : pools[b].Intention = i /\ ~pools[b].IsBusy})

Taken(b) == IF b = NoPool THEN pools ELSE [pools EXCEPT ![b].IsBusy = TRUE]

EmptySlots == {s \in Slots : slots[s] = None}

\* PoolManagerRequestAllocation: the first empty slot, if there is one.
PoolManagerRequestAllocation(i) ==
    /\ slots' = IF EmptySlots = {} THEN slots
                ELSE [slots EXCEPT ![CHOOSE s \in EmptySlots : \A r \in EmptySlots : s <= r] = i]
    /\ newAlloc' = (newAlloc \/ EmptySlots # {})

\* PoolManagerRequestPool(i, TRUE, ...), which returns Available(i).
PoolManagerRequestPool(i) ==
    /\ pools' = Taken(Available(i))
    /\ PoolManagerRequestAllocation(i)
    /\ UNCHANGED <<lastPool, newFree, pass>>

\* PoolManagerFreePool: an address that is not in the table is ignored.
PoolManagerFreePool(B) ==
    /\ pools' = [b \in DOMAIN pools |->
                   IF b \in B THEN [pools[b] EXCEPT !.ShouldBeFreed = TRUE] ELSE pools[b]]
    /\ newFree' = (newFree \/ B \cap DOMAIN pools # {})
    /\ UNCHANGED <<lastPool, slots, newAlloc, pass>>
-----------------------------------------------------------------------------
(* PoolManagerCheckAndPerformAllocationAndDeallocation of thread t           *)

At(t, at, slot) == pass' = [pass EXCEPT ![t] = [at |-> at, slot |-> slot, link |-> NotLinking]]

\* The list is inserted into without a lock ("This function doesn't need lock as it
\* just calls once from PASSIVE_LEVEL", PoolManager.c), but every IOCTL calls it.
Undisturbed(t) == Overtaking \/ \A u \in Threads \ {t} : pass[u].at # "link"

\* Where the loop over the slots goes on.
ToSlot(t, s) == IF s > QueueDepth THEN At(t, "free", 1) ELSE At(t, "serve", s)

BeginPass(t) ==
    /\ pass[t] = Idle
    /\ IF newAlloc THEN ToSlot(t, 1) ELSE At(t, "free", 1)
    /\ UNCHANGED <<pools, lastPool, slots, newAlloc, newFree>>

\* The slot, if it holds a request: PoolManagerAllocateAndAddToPoolTable makes the
\* buffer, and InsertHeadList reads which entry is the first.
ServeSlot(t) ==
    LET s == pass[t].slot IN
    /\ pass[t].at = "serve"
    /\ IF slots[s] = None
       THEN ToSlot(t, s + 1)
       ELSE /\ Undisturbed(t)
            /\ pass' = [pass EXCEPT ![t] = [at |-> "link", slot |-> s,
                          link |-> [for |-> slots[s], first |-> Max0(DOMAIN pools)]]]
    /\ UNCHANGED <<pools, lastPool, slots, newAlloc, newFree>>

\* What follows the new entry in the list: the entries from first on.  Those
\* inserted since are lost.  If first itself was released since, the list goes on
\* into freed memory, where a walk may meet any entry and stop anywhere.
Older(first) == {b \in DOMAIN pools : b <= first}
Freed(first) ==
    UNION {{[b \in K |-> pools[b]], [b \in K \cup {first} |-> IF b = first THEN e ELSE pools[b]]}
              : K \in SUBSET Older(first), e \in Entry}
Behind(first) ==
    IF first \in DOMAIN pools \cup {NoPool} THEN {[b \in Older(first) |-> pools[b]]}
    ELSE Freed(first)

\* InsertHeadList makes the new entry the first.
LinkEntry(t) ==
    /\ pass[t].at = "link"
    /\ lastPool' = lastPool + 1
    /\ \E list \in Behind(pass[t].link.first) :
          pools' = [b \in DOMAIN list \cup {lastPool'} |->
                      IF b = lastPool' THEN Fresh(pass[t].link.for) ELSE list[b]]
    /\ At(t, "clear", pass[t].slot)
    /\ UNCHANGED <<slots, newAlloc, newFree>>

\* The slot is emptied, whatever it holds by now.
ClearSlot(t) ==
    /\ pass[t].at = "clear"
    /\ slots' = [slots EXCEPT ![pass[t].slot] = None]
    /\ ToSlot(t, pass[t].slot + 1)
    /\ UNCHANGED <<pools, lastPool, newAlloc, newFree>>

\* Mutant: the entries in use are released.
ReleasesBusy(t) ==
    /\ pass[t].at = "free"
    /\ pools' = [b \in {d \in DOMAIN pools : ~pools[d].IsBusy} |-> pools[b]]
    /\ At(t, "flags", 1)
    /\ UNCHANGED <<lastPool, slots, newAlloc, newFree>>

\* Under LockForReadingPool, what was given back is unlinked and released.
ReleasePools(t) ==
    /\ pass[t].at = "free"
    /\ newFree => Undisturbed(t)
    /\ pools' = IF newFree THEN [b \in {d \in DOMAIN pools : ~pools[d].ShouldBeFreed} |-> pools[b]]
                ELSE pools
    /\ At(t, "flags", 1)
    /\ UNCHANGED <<lastPool, slots, newAlloc, newFree>>

\* Both flags are cleared, also for a request that came during the pass.
ClearFlags(t) ==
    /\ pass[t].at = "flags"
    /\ newAlloc' = FALSE /\ newFree' = FALSE
    /\ At(t, "idle", 1)
    /\ UNCHANGED <<pools, lastPool, slots>>

PassStep(t) == ServeSlot(t) \/ LinkEntry(t) \/ ClearSlot(t) \/ ReleasePools(t) \/ ClearFlags(t)
-----------------------------------------------------------------------------
Busy == {b \in DOMAIN pools : pools[b].IsBusy /\ ~pools[b].ShouldBeFreed}

Lifecycle == INSTANCE PoolLifecycle WITH
    used     <- 1 .. lastPool,
    free     <- {b \in DOMAIN pools : ~pools[b].IsBusy},
    held     <- Busy,
    returned <- {b \in DOMAIN pools : pools[b].IsBusy /\ pools[b].ShouldBeFreed}

\* Every buffer is allocated, handed to one requester, given back and released
\* in this order, once: PoolManagerRequestPool, PoolManagerFreePool and the
\* passes of several threads implement PoolLifecycle, as long as no thread inserts
\* or releases an entry in the middle of another's InsertHeadList (Overtaking).
BuffersLiveOnce == Lifecycle!Spec
=============================================================================
