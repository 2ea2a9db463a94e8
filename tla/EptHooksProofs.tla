--------------------------- MODULE EptHooksProofs ---------------------------
(* For every number of cores, pages, threads, slots and buffers: PoolManager, *)
(* driven by EptHooks, implements PoolLifecycle; a hook is in force whenever  *)
(* no core steps over it; and removing all hooks restores every page.         *)
EXTENDS EptHooks, WellFoundedInduction, TLAPS

\* A set of naturals that has an element has a least one.
LEMMA LeastExists ==
  ASSUME NEW T \in SUBSET Nat, T # {}
  PROVE  \E x \in T : \A y \in T : x <= y
<1> DEFINE R == OpToRel(<, Nat)
<1>1. \E x \in T : \A y \in T : ~(<<y, x>> \in R)
  <2> HIDE DEF R
  <2>1. IsWellFoundedOn(R, Nat)
    BY NatLessThanWellFounded, Zenon DEF R
  <2> QED  BY <2>1, WFMin, Zenon
<1>2. PICK x \in T : \A y \in T : ~(<<y, x>> \in R)
  BY <1>1, Zenon
<1>3. ASSUME NEW y \in T PROVE x <= y
  <2>1. ~(y < x)
    BY <1>2, Zenon DEF OpToRel
  <2> QED  BY <2>1
<1> QED  BY <1>3, Zenon

\* A bounded set of naturals that has an element has a greatest one.
LEMMA GreatestExists ==
  ASSUME NEW n \in Nat, NEW S \in SUBSET (0 .. n), S # {}
  PROVE  \E b \in S : \A d \in S : d <= b
<1> DEFINE T == {n - b : b \in S}
<1>1. T \in SUBSET Nat /\ T # {}
  <2>1. \A b \in S : n - b \in Nat
    OBVIOUS
  <2>2. PICK b \in S : TRUE
    BY Zenon
  <2> QED  BY <2>1, <2>2, Zenon
<1>2. PICK x \in T : \A y \in T : x <= y
  <2> HIDE DEF T
  <2> QED  BY <1>1, LeastExists, Zenon
<1>3. PICK b \in S : x = n - b
  BY <1>2, Zenon
<1>4. ASSUME NEW d \in S PROVE d <= b
  <2>1. n - d \in T
    BY Zenon
  <2>2. x <= n - d
    BY <1>2, <2>1
  <2> QED  BY <2>2, <1>3
<1> QED  BY <1>4, Zenon
-----------------------------------------------------------------------------
(* The order of the list                                                     *)

\* A request to hook is going on.
Preparing == worker.at \in {"split", "tables", "track", "tramp", "details", "install"}

\* The records are numbered by their requests; the one going on has the last
\* number.
Numbered ==
  /\ hooks \in Nat
  /\ \A r \in DOMAIN hooked : hooked[r].nth \in 0 .. hooks /\ (Preparing => hooked[r].nth < hooks)

\* The first record of the list, of those in a set.
LEMMA NewestIn ==
  ASSUME Numbered, NEW S \in SUBSET DOMAIN hooked, S # {}
  PROVE  Newest(S) \in S
<1> DEFINE T == {hooked[r].nth : r \in S}
<1>1. hooks \in Nat /\ T \in SUBSET (0 .. hooks)
  BY DEF Numbered
<1>2. T # {}
  BY Zenon
<1>3. PICK b \in T : \A d \in T : d <= b
  <2> HIDE DEF T
  <2> QED  BY <1>1, <1>2, GreatestExists, Zenon
<1>4. \E r \in S : \A s \in S : hooked[s].nth <= hooked[r].nth
  BY <1>3, Zenon
<1> QED  BY <1>4, Zenon DEF Newest

\* The last record of the list, of those in a set.
LEMMA OldestIn ==
  ASSUME Numbered, NEW S \in SUBSET DOMAIN hooked, S # {}
  PROVE  Oldest(S) \in S /\ (\A s \in S : hooked[Oldest(S)].nth <= hooked[s].nth)
<1> DEFINE T == {hooked[r].nth : r \in S}
<1>1. T \in SUBSET Nat
  BY DEF Numbered
<1>2. T # {}
  BY Zenon
<1>3. PICK b \in T : \A d \in T : b <= d
  <2> HIDE DEF T
  <2> QED  BY <1>1, <1>2, LeastExists, Zenon
<1>4. \E r \in S : \A s \in S : hooked[r].nth <= hooked[s].nth
  BY <1>3
<1> QED  BY <1>4, Zenon DEF Oldest
-----------------------------------------------------------------------------
\* An entry of the table; only one that was handed out is to be freed.
EntryOK(e) ==
  /\ e = [Intention |-> e.Intention, IsBusy |-> e.IsBusy, ShouldBeFreed |-> e.ShouldBeFreed]
  /\ e.IsBusy \in BOOLEAN /\ e.ShouldBeFreed \in BOOLEAN
  /\ e.ShouldBeFreed => e.IsBusy

TableOK ==
  /\ lastPool \in Nat
  /\ DOMAIN pools \subseteq 1 .. lastPool
  /\ pools = [b \in DOMAIN pools |-> pools[b]]
  /\ \A b \in DOMAIN pools : EntryOK(pools[b])

\* An address some code got from PoolManagerRequestPool: while its buffer is
\* in the table it is busy, and once released the address does not come back.
Given(b) == b \in 0 .. lastPool /\ (b \in DOMAIN pools => pools[b].IsBusy)

\* The worker and the records of the hooks hold such addresses.
Holders ==
  /\ worker = [at |-> worker.at, page |-> worker.page, kind |-> worker.kind, buffer |-> worker.buffer,
               record |-> worker.record, tramp |-> worker.tramp, details |-> worker.details]
  /\ \A b \in {worker.buffer, worker.record, worker.details} : Given(b)
  /\ listed \subseteq DOMAIN hooked
  /\ worker.at = "unhookOne" => worker.record \in DOMAIN hooked
  /\ \A r \in DOMAIN hooked : Given(r) /\ Given(hooked[r].details)

\* At most one thread is in the middle of an InsertHeadList, and what it saw as
\* the first entry still is.
Inserting ==
  /\ pass = [t \in Threads |-> pass[t]]
  /\ \A t \in Threads : pass[t].at = "link" =>
       /\ pass[t].link.first \in DOMAIN pools \cup {NoPool}
       /\ \A b \in DOMAIN pools : b <= pass[t].link.first
       /\ \A u \in Threads : pass[u].at = "link" => u = t

IInv == TableOK /\ Holders /\ Numbered /\ Inserting

-----------------------------------------------------------------------------
(* The operations of the pool manager                                        *)

\* What PoolManagerRequestPool finds is a buffer of the table that is not
\* busy, or nothing.
LEMMA AvailableOK ==
  ASSUME TableOK, NEW i
  PROVE  \/ Available(i) = NoPool
         \/ Available(i) \in DOMAIN pools /\ ~pools[Available(i)].IsBusy
<1> DEFINE S == {b \in DOMAIN pools : pools[b].Intention = i /\ ~pools[b].IsBusy}
<1>1. CASE S = {}
  BY <1>1, Zenon DEF Available, Max0
<1>2. CASE S # {}
  <2>1. \E b \in S : \A d \in S : d <= b
    <3>1. S \in SUBSET (0 .. lastPool) /\ lastPool \in Nat
      BY DEF TableOK
    <3> HIDE DEF S
    <3> QED  BY <3>1, <1>2, GreatestExists, Zenon
  <2>2. Available(i) \in S
    <3>1. Available(i) = Max0(S)
      BY Zenon DEF Available
    <3> HIDE DEF S
    <3> QED  BY <2>1, <3>1, <1>2, Zenon DEF Max0
  <2> QED  BY <2>2, Zenon
<1> QED  BY <1>1, <1>2, Zenon

\* Handing a buffer out is a Grant of the lifecycle, or a stutter.
LEMMA RequestStep ==
  ASSUME TableOK, NEW i, PoolManagerRequestPool(i)
  PROVE  /\ TableOK'
         /\ \A b : Given(b) => Given(b)'
         /\ \A b : b = Available(i) => Given(b)'
         /\ [Lifecycle!Next]_(Lifecycle!lifecycle)
<1> PICK a : a = Available(i)
  BY Zenon
<1>1. pools' = Taken(a) /\ lastPool' = lastPool
  BY DEF PoolManagerRequestPool
<1>2. CASE a = NoPool
  <2>1. UNCHANGED <<pools, lastPool>>
    BY <1>1, <1>2 DEF Taken
  <2>2. TableOK' /\ (\A b : Given(b) => Given(b)')
    BY <2>1 DEF TableOK, Given
  <2>3. Given(a)'
    BY <2>1, <1>2 DEF TableOK, Given, NoPool
  <2>4. UNCHANGED Lifecycle!lifecycle
    BY <2>1 DEF Lifecycle!lifecycle, Busy
  <2> QED  BY <2>2, <2>3, <2>4, Zenon
<1>3. CASE a # NoPool
  <2>1. a \in DOMAIN pools /\ ~pools[a].IsBusy
    BY <1>3, AvailableOK, Zenon
  <2>2. pools' = [pools EXCEPT ![a].IsBusy = TRUE]
    BY <1>1, <1>3 DEF Taken
  <2>3. DOMAIN pools' = DOMAIN pools /\ (\A b \in DOMAIN pools : b # a => pools'[b] = pools[b])
    BY <2>1, <2>2, Zenon DEF TableOK
  <2>4. EntryOK(pools[a]) /\ pools'[a] = [pools[a] EXCEPT !.IsBusy = TRUE]
    BY <2>1, <2>2 DEF TableOK
  <2>5. pools'[a].IsBusy = TRUE /\ pools'[a].ShouldBeFreed = pools[a].ShouldBeFreed /\ EntryOK(pools'[a])
    BY <2>4, Zenon DEF EntryOK
  <2>6. pools' = [b \in DOMAIN pools' |-> pools'[b]]
    BY <2>2, Zenon DEF TableOK
  <2>7. TableOK'
    BY <1>1, <2>3, <2>5, <2>6, Zenon DEF TableOK
  <2>8. \A b : Given(b) => Given(b)'
    BY <1>1, <2>3, <2>5, Zenon DEF Given
  <2>9. Given(a)'
    BY <1>1, <2>1, <2>3, <2>5 DEF Given, TableOK
  <2>10. ~pools[a].ShouldBeFreed
    BY <2>1, <2>4, Zenon DEF EntryOK
  <2>11. Lifecycle!Grant(a)
    BY <1>1, <2>1, <2>3, <2>5, <2>10, Zenon DEF Lifecycle!Grant, Busy
  <2>12. Lifecycle!Next
    BY <2>11, <2>1, Zenon DEF Lifecycle!Next, Lifecycle!Grant
  <2> QED  BY <2>7, <2>8, <2>9, <2>12, Zenon
<1> QED  BY <1>2, <1>3, Zenon

\* Giving back buffers that were handed out is a Return of those that are
\* still held.
LEMMA FreeStep ==
  ASSUME TableOK, NEW B, \A b \in B : Given(b), PoolManagerFreePool(B)
  PROVE  /\ TableOK'
         /\ \A b : Given(b) => Given(b)'
         /\ [Lifecycle!Next]_(Lifecycle!lifecycle)
<1>1. /\ pools' = [b \in DOMAIN pools |->
                     IF b \in B THEN [pools[b] EXCEPT !.ShouldBeFreed = TRUE] ELSE pools[b]]
      /\ lastPool' = lastPool
  BY DEF PoolManagerFreePool
<1>2. DOMAIN pools' = DOMAIN pools /\ pools' = [b \in DOMAIN pools' |-> pools'[b]]
  BY <1>1
<1>3. ASSUME NEW b \in DOMAIN pools
      PROVE  /\ EntryOK(pools'[b])
             /\ pools'[b].IsBusy = pools[b].IsBusy
             /\ pools'[b].ShouldBeFreed = (pools[b].ShouldBeFreed \/ b \in B)
             /\ b \in B => pools[b].IsBusy
  <2>1. EntryOK(pools[b]) /\ (b \in B => pools[b].IsBusy)
    BY Zenon DEF TableOK, Given
  <2>2. CASE b \in B
    <3>1. pools'[b] = [pools[b] EXCEPT !.ShouldBeFreed = TRUE]
      BY <1>1, <2>2, Zenon
    <3> QED  BY <3>1, <2>1, <2>2, Zenon DEF EntryOK
  <2>3. CASE b \notin B
    <3>1. pools'[b] = pools[b]
      BY <1>1, <2>3, Zenon
    <3> QED  BY <3>1, <2>1, <2>3, Zenon DEF EntryOK
  <2> QED  BY <2>2, <2>3, Zenon
<1>4. TableOK'
  BY <1>1, <1>2, <1>3, Zenon DEF TableOK
<1>5. \A b : Given(b) => Given(b)'
  BY <1>1, <1>2, <1>3, Zenon DEF Given
<1> PICK C : C = B \cap Busy
  BY Zenon
<1>6. Lifecycle!Return(C)
  BY <1>1, <1>2, <1>3 DEF Lifecycle!Return, Busy
<1>7. C \in SUBSET Busy
  OBVIOUS
<1>8. Lifecycle!Next
  BY <1>6, <1>7, Zenon DEF Lifecycle!Next
<1> QED  BY <1>4, <1>5, <1>8, Zenon

\* A step of an allocation pass provides a new buffer, releases what was
\* given back, or changes neither.
LEMMA PassLemma ==
  ASSUME TableOK, Inserting, NEW t \in Threads, PassStep(t)
  PROVE  /\ TableOK'
         /\ \A b : Given(b) => Given(b)'
         /\ [Lifecycle!Next]_(Lifecycle!lifecycle)
<1>1. CASE UNCHANGED <<pools, lastPool>>
  <2>1. TableOK' /\ (\A b : Given(b) => Given(b)')
    BY <1>1, Zenon DEF TableOK, Given
  <2>2. UNCHANGED Lifecycle!lifecycle
    BY <1>1 DEF Lifecycle!lifecycle, Busy
  <2> QED  BY <2>1, <2>2
<1>2. ASSUME NEW i,
             lastPool' = lastPool + 1,
             pools' = [b \in DOMAIN pools \cup {lastPool'} |-> IF b = lastPool' THEN Fresh(i) ELSE pools[b]]
      PROVE  /\ TableOK'
             /\ \A b : Given(b) => Given(b)'
             /\ [Lifecycle!Next]_(Lifecycle!lifecycle)
  <2> PICK n : n = lastPool + 1
    BY Zenon
  <2>1. /\ n \in Nat /\ n \notin 1 .. lastPool /\ n \notin DOMAIN pools /\ lastPool' = n
        /\ 1 .. n = (1 .. lastPool) \cup {n} /\ 0 .. lastPool \subseteq 0 .. n
    BY <1>2 DEF TableOK
  <2>2. /\ DOMAIN pools' = DOMAIN pools \cup {n}
        /\ pools' = [b \in DOMAIN pools' |-> pools'[b]]
        /\ pools'[n] = Fresh(i)
        /\ \A b \in DOMAIN pools : pools'[b] = pools[b]
    BY <1>2, <2>1, Zenon
  <2>3. EntryOK(pools'[n]) /\ ~pools'[n].IsBusy /\ ~pools'[n].ShouldBeFreed
    BY <2>2 DEF Fresh, EntryOK
  <2>4. TableOK'
    BY <2>1, <2>2, <2>3, Zenon DEF TableOK
  <2>5. \A b : Given(b) => Given(b)'
    BY <2>1, <2>2 DEF Given, TableOK
  <2>6. Lifecycle!Provide(n)
    BY <2>1, <2>2, <2>3, Zenon DEF Lifecycle!Provide, Busy
  <2>7. Lifecycle!Next
    BY <2>6, <2>1, Zenon DEF Lifecycle!Next
  <2> QED  BY <2>4, <2>5, <2>7, Zenon
<1>3. ASSUME lastPool' = lastPool,
             pools' = [b \in {d \in DOMAIN pools : ~pools[d].ShouldBeFreed} |-> pools[b]]
      PROVE  /\ TableOK'
             /\ \A b : Given(b) => Given(b)'
             /\ [Lifecycle!Next]_(Lifecycle!lifecycle)
  <2>1. /\ DOMAIN pools' = {d \in DOMAIN pools : ~pools[d].ShouldBeFreed}
        /\ pools' = [b \in DOMAIN pools' |-> pools'[b]]
        /\ \A b \in DOMAIN pools' : pools'[b] = pools[b]
    BY <1>3
  <2>2. TableOK' /\ (\A b : Given(b) => Given(b)')
    BY <1>3, <2>1, Zenon DEF TableOK, Given
  <2>3. \A b \in DOMAIN pools : ~pools[b].IsBusy => ~pools[b].ShouldBeFreed
    BY Zenon DEF TableOK, EntryOK
  <2>4. Lifecycle!Release
    BY <1>3, <2>1, <2>3, Zenon DEF Lifecycle!Release, Busy
  <2> QED  BY <2>2, <2>4, Zenon DEF Lifecycle!Next
<1>4. CASE ServeSlot(t)
  BY <1>1, <1>4, Zenon DEF ServeSlot
<1>7. CASE LinkEntry(t)
  <2> PICK i, f : i = pass[t].link.for /\ f = pass[t].link.first
    BY Zenon
  <2>1. f \in DOMAIN pools \cup {NoPool} /\ (\A b \in DOMAIN pools : b <= f)
    BY <1>7, Zenon DEF LinkEntry, Inserting
  <2>2. Older(f) = DOMAIN pools
    BY <2>1 DEF Older
  <2>3. Behind(f) = {pools}
    <3>1. Behind(f) = {[b \in Older(f) |-> pools[b]]}
      BY <2>1, Zenon DEF Behind
    <3>2. [b \in Older(f) |-> pools[b]] = pools
      BY <2>2, Zenon DEF TableOK
    <3> QED  BY <3>1, <3>2, Zenon
  <2>4. PICK list \in Behind(f) :
           pools' = [b \in DOMAIN list \cup {lastPool'} |-> IF b = lastPool' THEN Fresh(i) ELSE list[b]]
    BY <1>7, Zenon DEF LinkEntry
  <2>5. list = pools
    BY <2>3, <2>4, Zenon
  <2>6. lastPool' = lastPool + 1
    BY <1>7, Zenon DEF LinkEntry
  <2> QED  BY <2>4, <2>5, <2>6, <1>2, Zenon
<1>5. CASE ClearSlot(t) \/ ClearFlags(t)
  BY <1>1, <1>5, Zenon DEF ClearSlot, ClearFlags
<1>6. CASE ReleasePools(t)
  BY <1>1, <1>3, <1>6, Zenon DEF ReleasePools
<1> QED  BY <1>4, <1>5, <1>6, <1>7, Zenon DEF PassStep

\* The table's greatest address, if it has one, is its first entry.
LEMMA FirstIsGreatest ==
  ASSUME TableOK, NEW f, f = Max0(DOMAIN pools)
  PROVE  f \in DOMAIN pools \cup {NoPool} /\ \A b \in DOMAIN pools : b <= f
<1>1. CASE DOMAIN pools = {}
  BY <1>1, Zenon DEF Max0
<1>2. CASE DOMAIN pools # {}
  <2>1. DOMAIN pools \in SUBSET (0 .. lastPool) /\ lastPool \in Nat
    BY DEF TableOK
  <2>2. \E b \in DOMAIN pools : \A d \in DOMAIN pools : d <= b
    BY <1>2, <2>1, GreatestExists, Zenon
  <2> QED  BY <1>2, <2>2, Zenon DEF Max0
<1> QED  BY <1>1, <1>2, Zenon

\* A step that leaves the list's entries and moves one thread, not into the
\* middle of an insertion, keeps the others there.
LEMMA ThreadMoves ==
  ASSUME Inserting, NEW t \in Threads, NEW r, r.at # "link", pass' = [pass EXCEPT ![t] = r],
         DOMAIN pools' = DOMAIN pools
  PROVE  Inserting'
<1>1. pass' = [u \in Threads |-> IF u = t THEN r ELSE pass[u]]
  BY Zenon DEF Inserting
<1>2. pass' = [u \in Threads |-> pass'[u]] /\ pass'[t] = r /\ \A u \in Threads : u # t => pass'[u] = pass[u]
  BY <1>1, Zenon
<1>3. \A u \in Threads : pass'[u].at = "link" => u # t /\ pass'[u] = pass[u]
  BY <1>2, Zenon
<1> QED  BY <1>2, <1>3, Zenon DEF Inserting

\* A step of a pass keeps it, if no thread inserts or releases while another
\* inserts.
LEMMA InsertingPass ==
  ASSUME ~Overtaking, TableOK, Inserting, NEW t \in Threads, PassStep(t)
  PROVE  Inserting'
<1>1. ASSUME NEW r, r.at # "link", pass' = [pass EXCEPT ![t] = r],
             \A u \in Threads \ {t} : pass[u].at # "link"
      PROVE  Inserting'
  <2>1. pass' = [u \in Threads |-> IF u = t THEN r ELSE pass[u]]
    BY <1>1, Zenon DEF Inserting
  <2>2. pass' = [u \in Threads |-> pass'[u]] /\ \A u \in Threads : pass'[u].at # "link"
    BY <1>1, <2>1, Zenon
  <2> QED  BY <2>2, Zenon DEF Inserting
<1>2. ASSUME NEW at, NEW s, at # "link", At(t, at, s), DOMAIN pools' = DOMAIN pools PROVE Inserting'
  <2> PICK r : r = [at |-> at, slot |-> s, link |-> NotLinking]
    BY Zenon
  <2>1. r.at # "link" /\ pass' = [pass EXCEPT ![t] = r]
    BY <1>2 DEF At
  <2> QED  BY <1>2, <2>1, ThreadMoves, Zenon
<1>3. ASSUME NEW s, ToSlot(t, s), DOMAIN pools' = DOMAIN pools PROVE Inserting'
  <2>1. At(t, "free", 1) \/ At(t, "serve", s)
    BY <1>3, Zenon DEF ToSlot
  <2> QED  BY <1>2, <1>3, <2>1
<1>4. ASSUME NEW at, NEW s, at # "link", At(t, at, s), \A u \in Threads \ {t} : pass[u].at # "link"
      PROVE  Inserting'
  <2> PICK r : r = [at |-> at, slot |-> s, link |-> NotLinking]
    BY Zenon
  <2>1. r.at # "link" /\ pass' = [pass EXCEPT ![t] = r]
    BY <1>4 DEF At
  <2> QED  BY <1>1, <1>4, <2>1, Zenon
<1>5. CASE ServeSlot(t)
  <2>1. DOMAIN pools' = DOMAIN pools /\ pools' = pools
    BY <1>5, Zenon DEF ServeSlot
  <2>2. CASE ToSlot(t, pass[t].slot + 1)
    BY <1>3, <2>1, <2>2
  <2>3. ASSUME Undisturbed(t), NEW r, r.at = "link", r.link.first = Max0(DOMAIN pools),
               pass' = [pass EXCEPT ![t] = r]
        PROVE  Inserting'
    <3>1. pass' = [u \in Threads |-> IF u = t THEN r ELSE pass[u]]
      BY <2>3, Zenon DEF Inserting
    <3>2. pass' = [u \in Threads |-> pass'[u]] /\ pass'[t] = r
      BY <3>1, Zenon
    <3>3. \A u \in Threads : pass'[u].at = "link" => u = t
      BY <2>3, <3>1, Zenon DEF Undisturbed
    <3>4. r.link.first \in DOMAIN pools \cup {NoPool} /\ \A b \in DOMAIN pools : b <= r.link.first
      BY <2>3, FirstIsGreatest, Zenon
    <3> QED  BY <2>1, <3>2, <3>3, <3>4, Zenon DEF Inserting
  <2>4. CASE Undisturbed(t) /\ pass' = [pass EXCEPT ![t] = [at |-> "link", slot |-> pass[t].slot,
               link |-> [for |-> slots[pass[t].slot], first |-> Max0(DOMAIN pools)]]]
    <3> PICK r : r = [at |-> "link", slot |-> pass[t].slot,
               link |-> [for |-> slots[pass[t].slot], first |-> Max0(DOMAIN pools)]]
      BY Zenon
    <3>1. r.at = "link" /\ r.link.first = Max0(DOMAIN pools)
      OBVIOUS
    <3> QED  BY <2>3, <2>4, <3>1, Zenon
  <2> QED  BY <1>5, <2>2, <2>4, Zenon DEF ServeSlot
<1>6. CASE LinkEntry(t)
  <2>1. pass[t].at = "link" /\ At(t, "clear", pass[t].slot)
    BY <1>6, Zenon DEF LinkEntry
  <2>2. \A u \in Threads \ {t} : pass[u].at # "link"
    BY <2>1, Zenon DEF Inserting
  <2> QED  BY <1>4, <2>1, <2>2
<1>7. CASE ClearSlot(t)
  BY <1>3, <1>7, Zenon DEF ClearSlot
<1>8. CASE ClearFlags(t)
  <2>1. At(t, "idle", 1) /\ DOMAIN pools' = DOMAIN pools
    BY <1>8, Zenon DEF ClearFlags
  <2> QED  BY <1>2, <2>1
<1>9. CASE ReleasePools(t)
  <2>1. At(t, "flags", 1)
    BY <1>9, Zenon DEF ReleasePools
  <2>2. CASE newFree
    <3>1. \A u \in Threads \ {t} : pass[u].at # "link"
      BY <1>9, <2>2, Zenon DEF ReleasePools, Undisturbed
    <3> QED  BY <1>4, <2>1, <3>1
  <2>3. CASE ~newFree
    <3>1. DOMAIN pools' = DOMAIN pools
      BY <1>9, <2>3, Zenon DEF ReleasePools
    <3> QED  BY <1>2, <2>1, <3>1
  <2> QED  BY <2>2, <2>3
<1> QED  BY <1>5, <1>6, <1>7, <1>8, <1>9, Zenon DEF PassStep

\* Every step keeps it: the requests take and give back entries without moving
\* them in the list, and start passes.
LEMMA InsertingKept ==
  ASSUME ~Overtaking
  PROVE  TableOK /\ Inserting /\ [Next]_vars => Inserting'
<1> SUFFICES ASSUME TableOK, Inserting, [Next]_vars PROVE Inserting'
  OBVIOUS
<1> USE DEF vars, poolVars, eptVars, hookVars, coreVars, workVars
<1>1. ASSUME UNCHANGED <<pools, pass>> PROVE Inserting'
  BY <1>1, Zenon DEF Inserting
<1>2. ASSUME NEW i, PoolManagerRequestPool(i) PROVE Inserting'
  <2>1. DOMAIN pools' = DOMAIN pools /\ pass' = pass
    BY <1>2, Zenon DEF PoolManagerRequestPool, Taken
  <2> QED  BY <2>1, Zenon DEF Inserting
<1>3. ASSUME NEW B, PoolManagerFreePool(B) PROVE Inserting'
  <2>1. DOMAIN pools' = DOMAIN pools /\ pass' = pass
    BY <1>3, Zenon DEF PoolManagerFreePool
  <2> QED  BY <2>1, Zenon DEF Inserting
<1>4. ASSUME NEW t \in Threads, BeginPass(t) PROVE Inserting'
  <2>1. \E at, s : at # "link" /\ At(t, at, s)
    <3>1. At(t, "free", 1) \/ At(t, "serve", 1)
      BY <1>4, Zenon DEF BeginPass, ToSlot
    <3> QED  BY <3>1
  <2> PICK at, s : at # "link" /\ At(t, at, s)
    BY <2>1, Zenon
  <2> PICK r : r = [at |-> at, slot |-> s, link |-> NotLinking]
    BY Zenon
  <2>2. r.at # "link" /\ pass' = [pass EXCEPT ![t] = r]
    BY DEF At
  <2>3. DOMAIN pools' = DOMAIN pools
    BY <1>4, Zenon DEF BeginPass
  <2> QED  BY <2>2, <2>3, ThreadMoves, Zenon
<1>5. ASSUME NEW c \in Cores, NEW p \in Pages, NEW access \in Accesses, GuestAccess(c, p, access)
      PROVE  Inserting'
  BY <1>1, <1>5, Zenon DEF GuestAccess
<1>6. ASSUME NEW c \in Cores, NEW q \in Pages, StepInstruction(c, q) PROVE Inserting'
  BY <1>1, <1>6, Zenon DEF StepInstruction
<1>7. ASSUME NEW c \in Cores, EptHandleEptViolation(c) \/ HandleHiddenBreakpoint(c) \/ RunDpc(c)
      PROVE  Inserting'
  BY <1>1, <1>7, Zenon DEF EptHandleEptViolation, HandleHiddenBreakpoint, RunDpc
<1>8. ASSUME NEW c \in Cores, InstallHook(c) PROVE Inserting'
  BY <1>1, <1>8, Zenon DEF InstallHook, Install
<1>9. ASSUME NEW request, Ask(request) PROVE Inserting'
  <2>1. Worker \in Threads /\ BeginPass(Worker)
    BY <1>9, HookAssumption, Zenon DEF Ask
  <2> QED  BY <1>4, <2>1, Zenon
<1>10. ASSUME NEW p \in Pages, NEW k \in HookKinds, AskHook(p, k) PROVE Inserting'
  BY <1>9, <1>10, Zenon DEF AskHook
<1>11. ASSUME NEW p \in Pages, AskUnhook(p) PROVE Inserting'
  BY <1>9, <1>11, Zenon DEF AskUnhook
<1>12. CASE AskTerminate
  BY <1>9, <1>12, Zenon DEF AskTerminate
<1>13. CASE RequestSplit
  BY <1>1, <1>2, <1>13, Zenon DEF RequestSplit
<1>14. CASE EptSplitLargePage
  BY <1>1, <1>3, <1>14, Zenon DEF EptSplitLargePage
<1>15. CASE RequestRecord \/ RequestTrampoline \/ RequestDetails
  BY <1>2, <1>15, Zenon DEF RequestRecord, RequestTrampoline, RequestDetails
<1>16. CASE PastPageBoundary \/ EndHook \/ EptHookUnHookSingleAddress \/ RestoreAll
  BY <1>1, <1>16, Zenon DEF PastPageBoundary, EndHook, EptHookUnHookSingleAddress, RestoreAll
<1>17. CASE Undo \/ EndUnhook \/ EptHookUnHookAll
  BY <1>3, <1>17, Zenon DEF Undo, EndUnhook, EptHookUnHookAll
<1>18. ASSUME NEW t \in Threads, OtherIoctl(t) \/ AllocationPass(t) PROVE Inserting'
  BY <1>4, <1>18, InsertingPass, Zenon DEF OtherIoctl, AllocationPass
<1>19. CASE UNCHANGED vars
  BY <1>1, <1>19, Zenon
<1> QED
  BY <1>5, <1>6, <1>7, <1>8, <1>10, <1>11, <1>12, <1>13, <1>14, <1>15, <1>16, <1>17, <1>18, <1>19, Zenon
  DEF Next
-----------------------------------------------------------------------------
(* The refinement                                                            *)

\* What a step does to the table: it keeps the table sound and what was handed
\* out handed out, and is a step of the lifecycle.
Sound ==
  /\ TableOK'
  /\ \A b : Given(b) => Given(b)'
  /\ [Lifecycle!Next]_(Lifecycle!lifecycle)

\* A step that leaves the table alone is sound.
LEMMA UntouchedSound ==
  ASSUME TableOK, UNCHANGED <<pools, lastPool>>
  PROVE  Sound
<1>1. TableOK' /\ (\A b : Given(b) => Given(b)')
  BY Zenon DEF TableOK, Given
<1>2. UNCHANGED Lifecycle!lifecycle
  BY DEF Lifecycle!lifecycle, Busy
<1> QED  BY <1>1, <1>2, Zenon DEF Sound

\* The addresses the worker and the records hold were all handed out, also
\* after a step that is sound and leaves them alone.
LEMMA HoldersKept ==
  ASSUME Holders, Sound, UNCHANGED <<worker, hooked>>, listed' \subseteq listed
  PROVE  Holders'
BY Zenon DEF Holders, Sound

\* ... or changes only the worker, to one that holds addresses handed out.
LEMMA WorkerMoves ==
  ASSUME TableOK, Holders, Sound, UNCHANGED <<hooked>>, listed' \subseteq listed,
         NEW w, worker' = w,
         w = [at |-> w.at, page |-> w.page, kind |-> w.kind, buffer |-> w.buffer,
              record |-> w.record, tramp |-> w.tramp, details |-> w.details],
         w.at = "unhookOne" => w.record \in DOMAIN hooked,
         w.buffer \in {NoPool, worker.buffer} \/ Given(w.buffer)',
         w.record \in {NoPool, worker.record} \/ Given(w.record)',
         w.details \in {NoPool, worker.details} \/ Given(w.details)'
  PROVE  Holders'
<1>1. Given(NoPool)
  BY DEF TableOK, Given, NoPool
<1>2. \A b \in {w.buffer, w.record, w.details} : Given(b)'
  BY <1>1 DEF Holders, Sound
<1> QED  BY <1>2, Zenon DEF Holders, Sound

\* The numbers stay in order: a new record has the number of its request.
LEMMA NumberedKept == Numbered /\ Holders /\ [Next]_vars => Numbered'
<1> SUFFICES ASSUME Numbered, Holders, [Next]_vars PROVE Numbered'
  OBVIOUS
<1> USE DEF vars, poolVars, eptVars, hookVars, coreVars, workVars
<1>1. ASSUME UNCHANGED <<hooks, hooked>>, Preparing' => Preparing PROVE Numbered'
  BY <1>1, Zenon DEF Numbered
<1>2. ASSUME NEW c \in Cores, InstallHook(c) PROVE Numbered'
  <2>1. /\ worker.at = "install" /\ worker' = [worker EXCEPT !.at = "invalidate"] /\ hooks' = hooks
        /\ DOMAIN hooked' = DOMAIN hooked \cup {worker.record}
        /\ \A s \in DOMAIN hooked : s # worker.record => hooked'[s] = hooked[s]
        /\ hooked'[worker.record].nth = hooks
    BY <1>2 DEF InstallHook, Install, Goto, InRequest
  <2>2. ~Preparing'
    BY <2>1, Zenon DEF Preparing, Holders
  <2>3. ASSUME NEW r \in DOMAIN hooked' PROVE hooked'[r].nth \in 0 .. hooks
    BY <2>1 DEF Numbered
  <2> QED  BY <2>1, <2>2, <2>3, Zenon DEF Numbered
<1>3. ASSUME NEW p \in Pages, NEW k \in HookKinds, AskHook(p, k) PROVE Numbered'
  BY <1>3 DEF AskHook, Ask, Numbered
<1>4. ASSUME UNCHANGED <<hooks, hooked, worker>> PROVE Numbered'
  BY <1>4 DEF Numbered, Preparing
<1>5. ASSUME NEW c \in Cores, NEW p \in Pages, NEW access \in Accesses, GuestAccess(c, p, access)
      PROVE  Numbered'
  BY <1>4, <1>5, Zenon DEF GuestAccess
<1>6. ASSUME NEW c \in Cores, NEW q \in Pages, StepInstruction(c, q) PROVE Numbered'
  BY <1>4, <1>6, Zenon DEF StepInstruction
<1>7. ASSUME NEW c \in Cores, EptHandleEptViolation(c) \/ HandleHiddenBreakpoint(c) \/ RunDpc(c)
      PROVE  Numbered'
  BY <1>4, <1>7, Zenon DEF EptHandleEptViolation, HandleHiddenBreakpoint, RunDpc
<1>8. ASSUME NEW p \in Pages, AskUnhook(p) PROVE Numbered'
  BY <1>1, <1>8, Zenon DEF AskUnhook, Ask, Preparing, Resting
<1>9. CASE AskTerminate
  BY <1>1, <1>9, Zenon DEF AskTerminate, Ask, Preparing, Resting
<1>10. CASE RequestSplit
  BY <1>1, <1>10, Zenon DEF RequestSplit, InRequest, Preparing, Resting
<1>11. CASE EptSplitLargePage \/ PastPageBoundary
  BY <1>1, <1>11, Zenon DEF EptSplitLargePage, PastPageBoundary, InRequest, Goto, Preparing
<1>12. CASE RequestRecord \/ RequestTrampoline \/ RequestDetails
  BY <1>1, <1>12, Zenon DEF RequestRecord, RequestTrampoline, RequestDetails, InRequest, Preparing
<1>13. CASE Undo \/ EndHook \/ EndUnhook
  BY <1>1, <1>13 DEF Undo, EndHook, EndUnhook, InRequest, Preparing, Resting
<1>14. CASE EptHookUnHookSingleAddress
  <2> PICK a : a = UnhookTarget
    BY Zenon
  <2>1. worker' = Resting \/ worker' = [worker EXCEPT !.at = "unhookOne", !.record = a]
    BY <1>14, Zenon DEF EptHookUnHookSingleAddress
  <2>2. ~Preparing'
    <3> PICK w : w = worker'
      OBVIOUS
    <3>1. w.at \in {"idle", "unhookOne"}
      <4>1. CASE w = Resting
        BY <4>1 DEF Resting
      <4>2. CASE w = [worker EXCEPT !.at = "unhookOne", !.record = a]
        BY <4>2, Zenon DEF Holders
      <4> QED  BY <2>1, <4>1, <4>2, Zenon
    <3> QED  BY <3>1 DEF Preparing
  <2>3. UNCHANGED <<hooks, hooked>>
    BY <1>14, Zenon DEF EptHookUnHookSingleAddress, InRequest
  <2> QED  BY <1>1, <2>2, <2>3, Zenon
<1>15. CASE RestoreAll \/ EptHookUnHookAll
  BY <1>1, <1>15, Zenon DEF RestoreAll, EptHookUnHookAll, InRequest, Goto, Preparing, Holders
<1>16. ASSUME NEW t \in Threads, OtherIoctl(t) \/ AllocationPass(t) PROVE Numbered'
  BY <1>4, <1>16, Zenon DEF OtherIoctl, AllocationPass
<1>17. CASE UNCHANGED vars
  BY <1>4, <1>17, Zenon
<1> QED
  BY <1>2, <1>3, <1>5, <1>6, <1>7, <1>8, <1>9, <1>10, <1>11, <1>12, <1>13, <1>14, <1>15, <1>16, <1>17, Zenon
  DEF Next

\* The record EptHookUnHookSingleAddress finds is one of the list.
LEMMA TargetListed ==
  ASSUME Holders, Numbered, UnhookTarget # NoPool
  PROVE  UnhookTarget \in listed
<1> DEFINE S == {r \in listed : hooked[r].kind = "cc" \/ hooked[r].page = worker.page}
<1>1. UnhookTarget = Newest(S)
  BY DEF UnhookTarget
<1>2. S \in SUBSET listed /\ S \in SUBSET DOMAIN hooked
  BY Zenon DEF Holders
<1> HIDE DEF S
<1>3. S # {}
  BY <1>1, Zenon DEF Newest
<1> QED  BY <1>1, <1>2, <1>3, NewestIn, Zenon

\* Every step of the hooks keeps the invariant and is a step of the lifecycle.
LEMMA NextStep ==
  ASSUME ~Overtaking
  PROVE  IInv /\ [Next]_vars => IInv' /\ [Lifecycle!Next]_(Lifecycle!lifecycle)
<1> SUFFICES ASSUME TableOK, Holders, Numbered, Inserting, [Next]_vars PROVE Holders' /\ Sound
  BY NumberedKept, InsertingKept, Zenon DEF IInv, Sound
<1> USE DEF vars, poolVars, eptVars, hookVars, coreVars, workVars
<1>1. ASSUME UNCHANGED <<pools, lastPool, worker, hooked, listed>> PROVE Holders' /\ Sound
  BY <1>1, UntouchedSound, HoldersKept, Zenon
<1>2. ASSUME NEW c \in Cores, NEW p \in Pages, NEW access \in Accesses, GuestAccess(c, p, access)
      PROVE  Holders' /\ Sound
  BY <1>1, <1>2, Zenon DEF GuestAccess
<1>3. ASSUME NEW c \in Cores, NEW q \in Pages, StepInstruction(c, q) PROVE Holders' /\ Sound
  BY <1>1, <1>3, Zenon DEF StepInstruction
<1>4. ASSUME NEW c \in Cores, EptHandleEptViolation(c) \/ HandleHiddenBreakpoint(c) \/ RunDpc(c)
      PROVE  Holders' /\ Sound
  BY <1>1, <1>4, Zenon DEF EptHandleEptViolation, HandleHiddenBreakpoint, RunDpc
<1>5. ASSUME NEW c \in Cores, InstallHook(c) PROVE Holders' /\ Sound
  <2>1. Sound
    BY <1>5, UntouchedSound, Zenon DEF InstallHook, Install
  <2>2. /\ worker' = [worker EXCEPT !.at = "invalidate"]
        /\ listed' = listed \cup {worker.record}
        /\ DOMAIN hooked' = DOMAIN hooked \cup {worker.record}
        /\ \A s \in DOMAIN hooked : s # worker.record => hooked'[s] = hooked[s]
        /\ hooked'[worker.record].details = worker.details
    BY <1>5 DEF InstallHook, Install, Goto
  <2>3. Given(worker.record) /\ Given(worker.details) /\ Given(worker.buffer)
    BY Zenon DEF Holders
  <2>4. \A r \in DOMAIN hooked' : Given(r) /\ Given(hooked'[r].details)
    BY <2>2, <2>3, Zenon DEF Holders
  <2>5. /\ worker'.record = worker.record /\ worker'.details = worker.details
        /\ worker'.buffer = worker.buffer
        /\ worker' = [at |-> worker'.at, page |-> worker'.page, kind |-> worker'.kind,
                       buffer |-> worker'.buffer, record |-> worker'.record,
                       tramp |-> worker'.tramp, details |-> worker'.details]
    BY <2>2, Zenon DEF Holders
  <2> QED  BY <2>1, <2>2, <2>3, <2>4, <2>5 DEF Holders, Sound
<1> DEFINE KeepsAddresses(w) ==
      /\ w = [at |-> w.at, page |-> w.page, kind |-> w.kind, buffer |-> w.buffer,
              record |-> w.record, tramp |-> w.tramp, details |-> w.details]
      /\ w.at # "unhookOne"
      /\ w.buffer \in {NoPool, worker.buffer}
      /\ w.record \in {NoPool, worker.record}
      /\ w.details \in {NoPool, worker.details}
<1>6. ASSUME UNCHANGED <<pools, lastPool, hooked>>, listed' \subseteq listed,
             NEW w, worker' = w, KeepsAddresses(w)
      PROVE  Holders' /\ Sound
  <2>1. Sound
    BY <1>6, UntouchedSound, Zenon
  <2> QED  BY <1>6, <2>1, WorkerMoves, Zenon
<1>7. ASSUME NEW p \in Pages, NEW k \in HookKinds, AskHook(p, k) PROVE Holders' /\ Sound
  <2> PICK w : w = worker'
    BY Zenon
  <2>1. KeepsAddresses(w)
    BY <1>7, Zenon DEF AskHook, Ask, BeginPass, Resting, Holders
  <2>2. UNCHANGED <<pools, lastPool, hooked>> /\ listed' \subseteq listed
    BY <1>7, Zenon DEF AskHook, Ask, BeginPass
  <2> QED  BY <1>6, <2>1, <2>2, Zenon
<1>8. ASSUME NEW p \in Pages, AskUnhook(p) PROVE Holders' /\ Sound
  <2> PICK w : w = worker'
    OBVIOUS
  <2>1. KeepsAddresses(w)
    BY <1>8, Zenon DEF AskUnhook, Ask, BeginPass, Resting, Holders
  <2>2. UNCHANGED <<pools, lastPool, hooked>> /\ listed' \subseteq listed
    BY <1>8, Zenon DEF AskUnhook, Ask, BeginPass
  <2> QED  BY <1>6, <2>1, <2>2, Zenon
<1>9. CASE AskTerminate
  <2> PICK w : w = worker'
    BY Zenon
  <2>1. KeepsAddresses(w)
    BY <1>9, Zenon DEF AskTerminate, Ask, BeginPass, Resting, Holders
  <2>2. UNCHANGED <<pools, lastPool, hooked>> /\ listed' \subseteq listed
    BY <1>9, Zenon DEF AskTerminate, Ask, BeginPass
  <2> QED  BY <1>6, <2>1, <2>2, Zenon
<1>10. CASE PastPageBoundary \/ EndHook \/ RestoreAll
  <2> PICK w : w = worker'
    BY Zenon
  <2>1. KeepsAddresses(w)
    BY <1>10 DEF PastPageBoundary, EndHook, RestoreAll, Goto, Resting, Holders
  <2>2. UNCHANGED <<pools, lastPool, hooked>> /\ listed' \subseteq listed
    BY <1>10, Zenon DEF PastPageBoundary, EndHook, RestoreAll, Goto
  <2> QED  BY <1>6, <2>1, <2>2, Zenon
<1>11. ASSUME NEW i, PoolManagerRequestPool(i)
       PROVE  Sound /\ (\A b : b = Available(i) => Given(b)')
  BY <1>11, RequestStep, Zenon DEF Sound
<1>12. CASE RequestSplit
  <2>1. CASE worker' = Resting /\ UNCHANGED poolVars
    <3> PICK w : w = worker'
      BY Zenon
    <3>1. KeepsAddresses(w)
      BY <2>1, Zenon DEF Resting
    <3> QED  BY <1>6, <2>1, <3>1, <1>12, Zenon DEF RequestSplit
  <2>2. CASE /\ PoolManagerRequestPool("split")
             /\ worker' = IF Available("split") = NoPool THEN Resting
                          ELSE [worker EXCEPT !.at = "tables", !.buffer = Available("split")]
    <3> PICK a, w : a = Available("split") /\ w = worker'
      OBVIOUS
    <3>1. Sound /\ Given(a)'
      BY <2>2, <1>11, Zenon
    <3>2. /\ w = [at |-> w.at, page |-> w.page, kind |-> w.kind, buffer |-> w.buffer,
                  record |-> w.record, tramp |-> w.tramp, details |-> w.details]
          /\ w.at # "unhookOne" /\ w.buffer \in {NoPool, a}
          /\ w.record \in {NoPool, worker.record} /\ w.details \in {NoPool, worker.details}
      BY <2>2, Zenon DEF Holders, Resting
    <3> QED  BY <3>1, <3>2, <1>12, WorkerMoves, Zenon DEF RequestSplit
  <2> QED  BY <2>1, <2>2, <1>12, Zenon DEF RequestSplit
<1>13. CASE RequestRecord
  <2> PICK a, w : a = Available("track") /\ w = worker'
    BY Zenon
  <2>1. Sound /\ Given(a)'
    BY <1>11, <1>13, Zenon DEF RequestRecord
  <2>2. /\ w = [at |-> w.at, page |-> w.page, kind |-> w.kind, buffer |-> w.buffer,
                record |-> w.record, tramp |-> w.tramp, details |-> w.details]
        /\ w.at # "unhookOne" /\ w.record = a /\ w.buffer = worker.buffer /\ w.details = worker.details
    BY <1>13, Zenon DEF RequestRecord, Holders
  <2> QED  BY <2>1, <2>2, <1>13, WorkerMoves DEF RequestRecord
<1>14. CASE RequestTrampoline
  <2> PICK w : w = worker'
    OBVIOUS
  <2>1. Sound
    BY <1>11, <1>14, Zenon DEF RequestTrampoline
  <2>2. /\ w = [at |-> w.at, page |-> w.page, kind |-> w.kind, buffer |-> w.buffer,
                record |-> w.record, tramp |-> w.tramp, details |-> w.details]
        /\ w.at # "unhookOne" /\ w.record = worker.record /\ w.buffer = worker.buffer /\ w.details = worker.details
    BY <1>14, Zenon DEF RequestTrampoline, Holders
  <2> QED  BY <2>1, <2>2, <1>14, WorkerMoves, Zenon DEF RequestTrampoline
<1>15. CASE RequestDetails
  <2> PICK a, w : a = Available("details") /\ w = worker'
    OBVIOUS
  <2>1. Sound /\ Given(a)'
    BY <1>11, <1>15, Zenon DEF RequestDetails
  <2>2. /\ w = [at |-> w.at, page |-> w.page, kind |-> w.kind, buffer |-> w.buffer,
                record |-> w.record, tramp |-> w.tramp, details |-> w.details]
        /\ w.at # "unhookOne" /\ w.details = a /\ w.buffer = worker.buffer /\ w.record = worker.record
    BY <1>15, Zenon DEF RequestDetails, Holders
  <2> QED  BY <2>1, <2>2, <1>15, WorkerMoves DEF RequestDetails
<1>16. ASSUME NEW B, \A b \in B : Given(b), PoolManagerFreePool(B) PROVE Sound
  BY <1>16, FreeStep, Zenon DEF Sound
<1>17. CASE EptSplitLargePage
  <2> PICK w, B : w = worker' /\ B = {worker.buffer}
    BY Zenon
  <2>1. KeepsAddresses(w)
    BY <1>17, Zenon DEF EptSplitLargePage, Goto, Holders
  <2>2. UNCHANGED <<hooked, listed>>
    BY <1>17, Zenon DEF EptSplitLargePage
  <2>3. \A b \in B : Given(b)
    BY Zenon DEF Holders
  <2>4. UNCHANGED <<pools, lastPool>> \/ PoolManagerFreePool(B)
    BY <1>17, Zenon DEF EptSplitLargePage
  <2>5. Sound
    BY <2>3, <2>4, <1>16, UntouchedSound, Zenon
  <2> QED  BY <2>1, <2>2, <2>5, WorkerMoves, Zenon
<1>18. CASE Undo
  <2> PICK w, B : w = worker' /\ B = {worker.buffer, worker.record} \ {NoPool}
    BY Zenon
  <2>1. KeepsAddresses(w)
    BY <1>18, Zenon DEF Undo, Resting
  <2>2. UNCHANGED <<hooked, listed>>
    BY <1>18, Zenon DEF Undo
  <2>3. \A b \in B : Given(b)
    BY Zenon DEF Holders
  <2>4. Sound
    BY <1>18, <2>3, <1>16, Zenon DEF Undo
  <2> QED  BY <2>1, <2>2, <2>4, WorkerMoves, Zenon
<1>19. CASE EndUnhook
  <2> PICK w, B : w = worker' /\ B = BuffersOf(worker.record)
    BY Zenon
  <2>1. KeepsAddresses(w)
    BY <1>19, Zenon DEF EndUnhook, Resting
  <2>2. UNCHANGED hooked /\ listed' \subseteq listed
    BY <1>19, Zenon DEF EndUnhook
  <2>3. \A b \in B : Given(b)
    BY <1>19, Zenon DEF EndUnhook, InRequest, Holders, BuffersOf
  <2>4. Sound
    BY <1>19, <2>3, <1>16, Zenon DEF EndUnhook
  <2> QED  BY <2>1, <2>2, <2>4, WorkerMoves, Zenon
<1>20. CASE EptHookUnHookAll
  <2> PICK w, B : w = worker' /\ B = UNION {BuffersOf(r) : r \in listed}
    BY Zenon
  <2>1. KeepsAddresses(w)
    BY <1>20, Zenon DEF EptHookUnHookAll, Goto, Holders
  <2>2. UNCHANGED <<hooked, listed>>
    BY <1>20, Zenon DEF EptHookUnHookAll
  <2>3. \A b \in B : Given(b)
    BY DEF Holders, BuffersOf
  <2>4. Sound
    BY <1>20, <2>3, <1>16, Zenon DEF EptHookUnHookAll
  <2> QED  BY <2>1, <2>2, <2>4, WorkerMoves, Zenon
<1>21. CASE EptHookUnHookSingleAddress
  <2>1. UNCHANGED <<pools, lastPool, hooked, listed>>
    BY <1>21, Zenon DEF EptHookUnHookSingleAddress
  <2>2. CASE worker' = Resting
    <3> PICK w : w = worker'
      BY Zenon
    <3>1. KeepsAddresses(w)
      BY <2>2, Zenon DEF Resting
    <3> QED  BY <1>6, <2>1, <3>1, Zenon
  <2>3. CASE UnhookTarget # NoPool /\ worker' = [worker EXCEPT !.at = "unhookOne", !.record = UnhookTarget]
    <3> PICK a, w : a = UnhookTarget /\ w = worker'
      OBVIOUS
    <3>1. a \in listed
      BY <2>3, TargetListed, Zenon
    <3>2. /\ w = [at |-> w.at, page |-> w.page, kind |-> w.kind, buffer |-> w.buffer,
                  record |-> w.record, tramp |-> w.tramp, details |-> w.details]
          /\ w.record = a /\ w.buffer = worker.buffer /\ w.details = worker.details
      BY <2>3, Zenon DEF Holders
    <3>3. Sound
      BY <2>1, UntouchedSound, Zenon
    <3>4. a \in DOMAIN hooked /\ Given(a)'
      BY <3>1, <3>3, Zenon DEF Holders, Sound
    <3> QED  BY <2>1, <3>2, <3>3, <3>4, WorkerMoves, Zenon
  <2> QED  BY <1>21, <2>2, <2>3, Zenon DEF EptHookUnHookSingleAddress
<1>22. ASSUME NEW t \in Threads, OtherIoctl(t) PROVE Holders' /\ Sound
  BY <1>1, <1>22, Zenon DEF OtherIoctl, BeginPass
<1>23. ASSUME NEW t \in Threads, AllocationPass(t) PROVE Holders' /\ Sound
  <2>1. Sound
    BY <1>23, PassLemma, Zenon DEF AllocationPass, Sound
  <2> QED  BY <2>1, <1>23, HoldersKept, Zenon DEF AllocationPass
<1>24. CASE UNCHANGED vars
  BY <1>1, <1>24, Zenon
<1> QED
  BY <1>2, <1>3, <1>4, <1>5, <1>7, <1>8, <1>9, <1>10, <1>12, <1>13, <1>14, <1>15,
     <1>17, <1>18, <1>19, <1>20, <1>21, <1>22, <1>23, <1>24 DEF Next
-----------------------------------------------------------------------------
\* The driver starts with a table of buffers none of which is handed out.
LEMMA InitOK == Init => IInv /\ Lifecycle!Init
<1> SUFFICES ASSUME Init PROVE IInv /\ Lifecycle!Init
  OBVIOUS
<1>1. /\ lastPool \in Nat /\ DOMAIN pools = 1 .. lastPool
      /\ \A b \in DOMAIN pools : EntryOK(pools[b]) /\ ~pools[b].IsBusy
      /\ pools = [b \in DOMAIN pools |-> pools[b]]
  <2>1. lastPool \in Nat
    <3>1. \A m, n \in Nat : m * n \in Nat
      OBVIOUS
    <3>2. Preallocated \in Nat /\ Len(IntentionList) \in Nat
      BY PoolAssumption
    <3> QED  BY <3>1, <3>2, Zenon DEF Init, PoolManagerInitialize
  <2>2. pools = [b \in 1 .. lastPool |-> Fresh(IntentionList[1 + (b - 1) \div Preallocated])]
    BY DEF Init, PoolManagerInitialize
  <2>3. \A i : EntryOK(Fresh(i)) /\ ~Fresh(i).IsBusy
    BY DEF Fresh, EntryOK
  <2>4. DOMAIN pools = 1 .. lastPool /\ pools = [b \in DOMAIN pools |-> pools[b]]
    BY <2>2, Zenon
  <2>5. \A b \in DOMAIN pools : EntryOK(pools[b]) /\ ~pools[b].IsBusy
    <3> HIDE DEF EntryOK, Fresh
    <3> QED  BY <2>2, <2>3, Zenon
  <2> QED  BY <2>1, <2>4, <2>5, Zenon
<1>2. TableOK
  BY <1>1, Zenon DEF TableOK
<1>3. Given(NoPool)
  BY <1>1 DEF Given, NoPool
<1>4. Holders
  BY <1>3 DEF Init, Holders, Resting
<1>5. Lifecycle!Init
  BY <1>1 DEF Lifecycle!Init, Busy, EntryOK
<1>6. Numbered
  BY DEF Init, Numbered
<1>7. Inserting
  <2>1. pass = [t \in Threads |-> Idle] /\ Idle.at # "link"
    BY DEF Init, PoolManagerInitialize, Idle
  <2>2. pass = [t \in Threads |-> pass[t]] /\ \A t \in Threads : pass[t].at # "link"
    BY <2>1, Zenon
  <2> QED  BY <2>2, Zenon DEF Inserting
<1> QED  BY <1>2, <1>4, <1>5, <1>6, <1>7, Zenon DEF IInv

\* PoolManager.c under the hooks of EptHook.c: a buffer is handed out at most
\* once, is given back only by code that was handed it, and an address the
\* table released does not come back, for every number of cores, pages,
\* threads, request slots and buffers, as long as no thread inserts or releases
\* an entry in the middle of another's InsertHeadList, which takes no lock.
THEOREM Refinement ==
  ASSUME ~Overtaking
  PROVE  Spec => BuffersLiveOnce
<1>1. Init => IInv /\ Lifecycle!Init
  BY InitOK, Zenon
<1>2. IInv /\ [Next]_vars => IInv' /\ [Lifecycle!Next]_(Lifecycle!lifecycle)
  BY NextStep, Zenon
<1> QED  BY <1>1, <1>2, PTL DEF Spec, BuffersLiveOnce, Lifecycle!Spec
-----------------------------------------------------------------------------
(* The hooks: an invariant of the entries, the caches and the restore points *)

\* EptHookUnHookAll has asked the cores to restore every entry.
Final == worker.at \in {"unhookAll", "off"}

Traps == [page : Pages \cup {NoPage}, exit : {"none", "violation", "breakpoint"}]
Restores == [record : Nat, access : Accesses \cup {"none"}]

Typed ==
  /\ entry \in [Pages -> Nat]
  /\ tlb \in [Cores -> [Pages -> Int]]
  /\ trap \in [Cores -> Traps]
  /\ restore \in [Cores -> Restores]
  /\ dpc \subseteq Cores

\* Unless a hook of its page was removed singly, a record is listed, and the
\* entry it saved is the page's own or that of an older record of the page.
RecordOK(r) ==
  /\ r \in Nat \ {0} /\ hooked[r].page \in Pages /\ hooked[r].original \in Nat
  /\ hooked[r].page \notin unhookedOne =>
       /\ r \in listed
       /\ \/ hooked[r].original = Identity
          \/ /\ hooked[r].original \in RecordsOf(hooked[r].page)
             /\ hooked[hooked[r].original].nth < hooked[r].nth

Records == listed \subseteq DOMAIN hooked /\ (\A r \in DOMAIN hooked : RecordOK(r))

\* What the worker is about to link or to unlink.
Job ==
  /\ Preparing => worker.page \in Pages
  /\ worker.at \in {"tramp", "details", "install"} => worker.record \notin DOMAIN hooked \cup {NoPool}
  /\ worker.at = "unhookOne" =>
       worker.record \in DOMAIN hooked /\ hooked[worker.record].page = worker.page

\* A hooked page has its own entry only while a core steps over the hook.
Entries ==
  \A p \in Pages \ unhookedOne :
    /\ entry[p] \in {Identity} \cup RecordsOf(p)
    /\ RecordsOf(p) # {} /\ ~Final /\ entry[p] = Identity =>
         TwoPageAccess \/ (\E c \in Cores : Stepping(c, p))

\* A core that exits while it steps over a hook exits for the same page.
CoreOK(c) ==
  /\ trap[c] # NoTrap => trap[c].page \in Pages
  /\ restore[c] # NoRestore =>
       /\ restore[c].record \in DOMAIN hooked
       /\ trap[c] # NoTrap => TwoPageAccess \/ hooked[restore[c].record].page = trap[c].page

\* A core that sees past a hook peeked, or has still to invalidate.
CachedOK(c, p) ==
  /\ tlb[c][p] \in {NotCached, Identity} \cup RecordsOf(p)
  /\ RecordsOf(p) # {} /\ ~Final /\ tlb[c][p] = Identity =>
       <<c, p>> \in peeked \/ (worker.at = "invalidate" /\ c \in dpc)

Cached == \A c \in Cores, p \in Pages \ unhookedOne : CachedOK(c, p)

Waiting == dpc # {} => worker.at \in {"invalidate", "unhookOne", "unhookAll"}

\* A core whose DPC has restored the entries is done with the hooks of a page,
\* and the last such core leaves the page its own entry.
Clear(c, p) ==
  /\ tlb[c][p] \in {NotCached, Identity}
  /\ trap[c] # NoTrap => trap[c].page # p
  /\ restore[c] # NoRestore => hooked[restore[c].record].page # p

Restored ==
  Final => \A c \in Cores, p \in Pages \ unhookedOne :
             /\ c \notin dpc => Clear(c, p)
             /\ dpc = {} => entry[p] = Identity

CoresOK == \A c \in Cores : CoreOK(c)

HookInv == Typed /\ Records /\ Job /\ Entries /\ CoresOK /\ Cached /\ Waiting /\ Restored

\* The invariant says that the hooks are in force.
LEMMA InForceHolds == ~TwoPageAccess /\ HookInv => HookInForce
<1> SUFFICES ASSUME ~TwoPageAccess, HookInv, NEW p \in Pages, InForce(p)
             PROVE  /\ entry[p] \in RecordsOf(p)
                    /\ \A c \in Cores : View(c, p) = Identity => c \in dpc \/ <<c, p>> \in peeked
  BY Zenon DEF HookInForce
<1>1. p \in Pages \ unhookedOne /\ RecordsOf(p) # {} /\ ~Final /\ (\A c \in Cores : ~Stepping(c, p))
  BY Zenon DEF InForce, Final
<1>2. entry[p] \in RecordsOf(p) /\ entry[p] # Identity
  <2>1. entry[p] # Identity
    BY <1>1, Zenon DEF HookInv, Entries
  <2> QED  BY <1>1, <2>1, Zenon DEF HookInv, Entries
<1>3. ASSUME NEW c \in Cores, View(c, p) = Identity PROVE c \in dpc \/ <<c, p>> \in peeked
  <2>1. tlb[c][p] = Identity
    BY <1>2, <1>3, Zenon DEF View
  <2>2. CachedOK(c, p)
    BY <1>1, Zenon DEF HookInv, Cached
  <2> QED  BY <1>1, <2>1, <2>2, Zenon DEF CachedOK
<1> QED  BY <1>2, <1>3, Zenon

\* ... and that the end of the debugger restores every page.
LEMMA AllRestored == HookInv => UnhookAllRestores
<1> SUFFICES ASSUME HookInv, worker.at = "off", NEW c \in Cores
             PROVE  /\ restore[c] = NoRestore \/ hooked[restore[c].record].page \in unhookedOne
                    /\ \A p \in Pages \ unhookedOne : View(c, p) = Identity
  BY Zenon DEF UnhookAllRestores
<1>1. Final /\ dpc = {}
  BY Zenon DEF HookInv, Waiting, Final
<1>2. ASSUME NEW p \in Pages \ unhookedOne PROVE Clear(c, p) /\ entry[p] = Identity
  BY <1>1, Zenon DEF HookInv, Restored
<1>3. ASSUME restore[c] # NoRestore PROVE hooked[restore[c].record].page \in unhookedOne
  <2>1. hooked[restore[c].record].page \in Pages
    BY <1>3, Zenon DEF HookInv, CoresOK, CoreOK, Records, RecordOK
  <2> QED  BY <1>2, <1>3, <2>1, Zenon DEF Clear
<1>4. ASSUME NEW p \in Pages \ unhookedOne PROVE View(c, p) = Identity
  BY <1>2, Zenon DEF Clear, View
<1> QED  BY <1>3, <1>4, Zenon
-----------------------------------------------------------------------------
(* Steps that leave the hooks alone                                          *)

\* The parts of the invariant that do not speak of the worker's job.
Machine == Typed /\ Records /\ Entries /\ CoresOK /\ Cached /\ Waiting /\ Restored

\* What the machine's state depends on besides the worker.
machine == <<entry, tlb, peeked, hooked, listed, unhookedOne, trap, restore, dpc>>

\* The worker may go on when no core has a DPC to run.
LEMMA WorkerGoesOn ==
  ASSUME Machine, UNCHANGED machine, Final' = Final, dpc = {} \/ worker'.at = worker.at
  PROVE  Machine'
<1> USE DEF machine
<1>1. Typed'
  BY Zenon DEF Machine, Typed
<1>2. Records'
  BY Zenon DEF Machine, Records, RecordOK, RecordsOf
<1>3. \A p : RecordsOf(p)' = RecordsOf(p)
  BY Zenon DEF RecordsOf
<1>4. Entries'
  <2>1. \A c, p : Stepping(c, p)' <=> Stepping(c, p)
    BY Zenon DEF Stepping
  <2>2. UNCHANGED <<entry, unhookedOne>>
    BY Zenon
  <2> QED  BY <1>3, <2>1, <2>2, Zenon DEF Machine, Entries
<1>5. CoresOK'
  BY Zenon DEF Machine, CoresOK, CoreOK
<1>6. Cached'
  <2> SUFFICES ASSUME NEW c \in Cores, NEW p \in Pages \ unhookedOne PROVE CachedOK(c, p)'
    BY Zenon DEF Cached
  <2>1. CachedOK(c, p)
    BY Zenon DEF Machine, Cached
  <2>2. UNCHANGED <<tlb, peeked, dpc>>
    OBVIOUS
  <2>3. worker.at = "invalidate" /\ c \in dpc => worker'.at = "invalidate" /\ c \in dpc'
    BY <2>2, Zenon
  <2> QED  BY <1>3, <2>1, <2>2, <2>3, Zenon DEF CachedOK
<1>7. Waiting'
  BY Zenon DEF Machine, Waiting
<1>8. Restored'
  BY DEF Machine, Restored, Clear
<1> QED  BY <1>1, <1>2, <1>4, <1>5, <1>6, <1>7, <1>8, Zenon DEF Machine

\* One core invalidates what it has cached.
LEMMA InveptKeepsCached ==
  ASSUME Typed, Cached, NEW c \in Cores, Invept(c),
         UNCHANGED <<hooked, listed, unhookedOne, worker>>, dpc \subseteq dpc' \cup {c}
  PROVE  /\ Cached'
         /\ tlb' \in [Cores -> [Pages -> Int]]
         /\ \A p \in Pages : tlb'[c][p] = NotCached
         /\ \A d \in Cores : d # c => tlb'[d] = tlb[d]
<1>1. /\ tlb' = [tlb EXCEPT ![c] = NothingCached]
      /\ \A d, p : <<d, p>> \in peeked /\ d # c => <<d, p>> \in peeked'
  BY Zenon DEF Invept
<1>2. NothingCached \in [Pages -> Int] /\ (\A p \in Pages : NothingCached[p] = NotCached)
  BY DEF NothingCached, NotCached
<1>3. /\ tlb' \in [Cores -> [Pages -> Int]] /\ tlb'[c] = NothingCached
      /\ \A d \in Cores : d # c => tlb'[d] = tlb[d]
  BY <1>1, <1>2, Zenon DEF Typed
<1>4. \A p : RecordsOf(p)' = RecordsOf(p)
  BY DEF RecordsOf
<1>5. ASSUME NEW d \in Cores, NEW p \in Pages \ unhookedOne PROVE CachedOK(d, p)'
  <2>1. CASE d = c
    BY <2>1, <1>2, <1>3 DEF CachedOK, NotCached, Identity
  <2>2. CASE d # c
    <3>1. CachedOK(d, p) /\ tlb'[d] = tlb[d] /\ (d \in dpc => d \in dpc')
      BY <2>2, <1>3, Zenon DEF Cached
    <3>2. Final' = Final
      BY Zenon DEF Final
    <3> QED  BY <1>1, <1>4, <2>2, <3>1, <3>2, Zenon DEF CachedOK
  <2> QED  BY <2>1, <2>2, Zenon
<1> QED  BY <1>2, <1>3, <1>5, Zenon DEF Cached
-----------------------------------------------------------------------------
(* Steps of a core                                                           *)

\* A step of a core leaves the records to the worker.
LEMMA RecordsStay ==
  ASSUME Machine, UNCHANGED <<hooked, listed, unhookedOne, worker>>
  PROVE  /\ Records' /\ Final' = Final
         /\ \A p : RecordsOf(p)' = RecordsOf(p)
BY Zenon DEF Machine, Records, RecordOK, RecordsOf, Final

\* What a core sees of a page: its own entry, or a record of the page.
LEMMA ViewOK ==
  ASSUME Machine, NEW c \in Cores, NEW p \in Pages
  PROVE  /\ View(c, p) \in Int
         /\ p \notin unhookedOne => View(c, p) \in {Identity} \cup RecordsOf(p)
         /\ p \notin unhookedOne /\ Final /\ c \notin dpc /\ dpc = {} => View(c, p) = Identity
<1>1. View(c, p) \in Int
  BY DEF Machine, Typed, View
<1>2. ASSUME p \notin unhookedOne PROVE View(c, p) \in {Identity} \cup RecordsOf(p)
  <2>1. CachedOK(c, p) /\ entry[p] \in {Identity} \cup RecordsOf(p)
    BY <1>2, Zenon DEF Machine, Cached, Entries
  <2> QED  BY <2>1, Zenon DEF CachedOK, View
<1>3. ASSUME p \notin unhookedOne, Final, c \notin dpc, dpc = {} PROVE View(c, p) = Identity
  <2>1. Clear(c, p) /\ entry[p] = Identity
    BY <1>3, Zenon DEF Machine, Restored
  <2> QED  BY <2>1, Zenon DEF Clear, View
<1> QED  BY <1>1, <1>2, <1>3, Zenon

\* A running core whose DPC is over sees every page as it is.
LEMMA RunningFinal ==
  ASSUME Machine, NEW c \in Cores, Running(c), Final, c \notin dpc
  PROVE  dpc = {}
BY Zenon DEF Running

\* The guest caches a translation, and may exit.
LEMMA GuestAccessKeeps ==
  ASSUME Machine, NEW c \in Cores, NEW p \in Pages, NEW access \in Accesses, GuestAccess(c, p, access)
  PROVE  Machine'
<1>1. /\ Running(c) /\ restore[c] = NoRestore
      /\ UNCHANGED <<entry, hooked, listed, unhookedOne, restore, worker, dpc>>
  BY Zenon DEF GuestAccess, hookVars, workVars
<1> PICK v, e : v = View(c, p) /\ e = Exit(v, access)
  BY Zenon
<1>2. /\ tlb' = [tlb EXCEPT ![c][p] = v]
      /\ trap' = IF e = "none" THEN trap ELSE [trap EXCEPT ![c] = [page |-> p, exit |-> e]]
      /\ peeked' = IF Peeks(c, p) THEN peeked \cup {<<c, p>>} ELSE peeked
  BY Zenon DEF GuestAccess
<1>3. Records' /\ Final' = Final /\ (\A q : RecordsOf(q)' = RecordsOf(q))
  BY <1>1, RecordsStay, Zenon
<1>4. e \in {"none", "violation", "breakpoint"} /\ v \in Int
  BY ViewOK, Zenon DEF Exit
<1>5. /\ tlb' \in [Cores -> [Pages -> Int]] /\ tlb'[c][p] = v
      /\ \A d \in Cores, q \in Pages : <<d, q>> # <<c, p>> => tlb'[d][q] = tlb[d][q]
  BY <1>2, <1>4, Zenon DEF Machine, Typed
<1>6. /\ trap' \in [Cores -> Traps]
      /\ \A d \in Cores : d # c => trap'[d] = trap[d]
      /\ trap'[c] = trap[c] \/ (e # "none" /\ trap'[c].page = p)
  <2>1. e # "none" => [page |-> p, exit |-> e] \in Traps
    BY <1>4, Zenon DEF Traps
  <2> QED  BY <1>2, <2>1, Zenon DEF Machine, Typed
<1>7. Typed'
  BY <1>1, <1>5, <1>6, Zenon DEF Machine, Typed
<1>8. Entries'
  <2>1. \A d, q : Stepping(d, q)' <=> Stepping(d, q)
    BY <1>1, Zenon DEF Stepping
  <2> QED  BY <1>1, <1>3, <2>1, Zenon DEF Machine, Entries
<1>9. CoresOK'
  BY <1>1, <1>6, Zenon DEF Machine, CoresOK, CoreOK
<1>10. Cached'
  <2> SUFFICES ASSUME NEW d \in Cores, NEW q \in Pages \ unhookedOne PROVE CachedOK(d, q)'
    BY <1>1, Zenon DEF Cached
  <2>1. CachedOK(d, q)
    BY Zenon DEF Machine, Cached
  <2>2. peeked \subseteq peeked'
    BY <1>2, Zenon
  <2>3. CASE <<d, q>> # <<c, p>>
    <3>1. tlb'[d][q] = tlb[d][q]
      BY <1>5, <2>3, Zenon
    <3> QED  BY <1>1, <1>3, <2>1, <2>2, <3>1, Zenon DEF CachedOK
  <2>4. CASE d = c /\ q = p
    <3>1. tlb'[c][p] = v /\ v \in {NotCached, Identity} \cup RecordsOf(p)
      BY <1>5, <2>4, ViewOK, Zenon
    <3>2. CASE tlb[c][p] # NotCached
      <4>1. v = tlb[c][p]
        BY <3>2, Zenon DEF View
      <4> QED  BY <1>1, <1>3, <2>1, <2>2, <2>4, <3>1, <4>1, Zenon DEF CachedOK
    <3>3. CASE tlb[c][p] = NotCached
      <4>1. v = entry[p]
        BY <3>3, Zenon DEF View
      <4>2. RecordsOf(p) # {} /\ v = Identity => <<c, p>> \in peeked'
        BY <1>2, <3>3, <4>1, Zenon DEF Peeks
      <4> QED  BY <1>3, <2>4, <3>1, <4>2, Zenon DEF CachedOK
    <3> QED  BY <3>2, <3>3, Zenon
  <2> QED  BY <2>3, <2>4, Zenon
<1>11. Waiting'
  BY <1>1, Zenon DEF Machine, Waiting
<1>12. Restored'
  <2> SUFFICES ASSUME Final, NEW d \in Cores, NEW q \in Pages \ unhookedOne
               PROVE  /\ d \notin dpc => Clear(d, q)'
                      /\ dpc = {} => entry[q] = Identity
    BY <1>1, <1>3, Zenon DEF Restored
  <2>1. /\ d \notin dpc => Clear(d, q)
        /\ dpc = {} => entry[q] = Identity
    BY Zenon DEF Machine, Restored
  <2>2. ASSUME d \notin dpc PROVE Clear(d, q)'
    <3>1. CASE d # c
      <4>1. tlb'[d][q] = tlb[d][q] /\ trap'[d] = trap[d]
        BY <1>5, <1>6, <3>1, Zenon
      <4> QED  BY <1>1, <2>1, <2>2, <4>1, Zenon DEF Clear
    <3>2. CASE d = c
      <4>1. dpc = {}
        BY <1>1, <2>2, <3>2, RunningFinal, Zenon
      <4>2. CASE q = p
        <5>1. v = Identity
          BY <2>2, <3>2, <4>1, <4>2, ViewOK, Zenon
        <5>2. e = "none"
          BY <5>1, Zenon DEF Exit
        <5> QED  BY <1>1, <1>5, <1>6, <2>1, <2>2, <3>2, <4>2, <5>1, <5>2, Zenon DEF Clear
      <4>3. CASE q # p
        <5>1. tlb'[d][q] = tlb[d][q]
          BY <1>5, <4>3, Zenon
        <5> QED  BY <1>1, <1>6, <2>1, <2>2, <3>2, <4>3, <5>1, Zenon DEF Clear
      <4> QED  BY <4>2, <4>3, Zenon
    <3> QED  BY <3>1, <3>2, Zenon
  <2> QED  BY <2>1, <2>2, Zenon
<1> QED  BY <1>3, <1>7, <1>8, <1>9, <1>10, <1>11, <1>12, Zenon DEF Machine
\* A core that is done with its exit sets the entry of a page and its restore
\* point.
LEMMA SetEntryKeeps ==
  ASSUME Machine, NEW c \in Cores, NEW p \in Pages, NEW v \in Nat, NEW x \in Restores,
         EptSetPML1AndInvalidateTLB(c, p, v),
         restore' = [restore EXCEPT ![c] = x], trap' = [trap EXCEPT ![c] = NoTrap],
         UNCHANGED <<hooked, listed, unhookedOne, worker, dpc>>,
         p \notin unhookedOne => v \in {Identity} \cup RecordsOf(p),
         x # NoRestore => x.record \in DOMAIN hooked /\ hooked[x.record].page = p,
         v = Identity => x # NoRestore,
         \A q \in Pages : Stepping(c, q) => q = p \/ TwoPageAccess,
         Final /\ c \notin dpc => p \in unhookedOne
  PROVE  Machine'
<1>1. Records' /\ Final' = Final /\ (\A q : RecordsOf(q)' = RecordsOf(q))
  BY RecordsStay, Zenon
<1>2. entry' = [entry EXCEPT ![p] = v] /\ Invept(c)
  BY Zenon DEF EptSetPML1AndInvalidateTLB
<1>3. entry' \in [Pages -> Nat] /\ entry'[p] = v /\ (\A q \in Pages : q # p => entry'[q] = entry[q])
  BY <1>2, Zenon DEF Machine, Typed
<1>4. /\ Cached' /\ tlb' \in [Cores -> [Pages -> Int]]
      /\ \A q \in Pages : tlb'[c][q] = NotCached
      /\ \A d \in Cores : d # c => tlb'[d] = tlb[d]
  BY <1>2, InveptKeepsCached, Zenon DEF Machine
<1>5. /\ restore' \in [Cores -> Restores] /\ restore'[c] = x
      /\ \A d \in Cores : d # c => restore'[d] = restore[d]
  BY Zenon DEF Machine, Typed
<1>6. /\ trap' \in [Cores -> Traps] /\ trap'[c] = NoTrap
      /\ \A d \in Cores : d # c => trap'[d] = trap[d]
  <2>1. NoTrap \in Traps
    BY Zenon DEF NoTrap, Traps
  <2> QED  BY <2>1, Zenon DEF Machine, Typed
<1>7. Typed'
  BY <1>3, <1>4, <1>5, <1>6, Zenon DEF Machine, Typed
<1>8. Entries'
  <2> SUFFICES ASSUME NEW q \in Pages \ unhookedOne
               PROVE  /\ entry'[q] \in {Identity} \cup RecordsOf(q)
                      /\ RecordsOf(q) # {} /\ ~Final /\ entry'[q] = Identity =>
                           TwoPageAccess \/ (\E d \in Cores : Stepping(d, q)')
    BY <1>1, Zenon DEF Entries
  <2>1. CASE q = p
    <3>1. v = Identity => Stepping(c, p)'
      BY <1>5, Zenon DEF Stepping
    <3> QED  BY <1>3, <2>1, <3>1, Zenon
  <2>2. CASE q # p
    <3>1. ASSUME NEW d \in Cores, Stepping(d, q), ~TwoPageAccess PROVE Stepping(d, q)'
      <4>1. d # c
        BY <2>2, <3>1, Zenon
      <4> QED  BY <1>5, <3>1, <4>1, Zenon DEF Stepping
    <3>2. entry'[q] = entry[q]
      BY <1>3, <2>2, Zenon
    <3> QED  BY <3>1, <3>2, Zenon DEF Machine, Entries
  <2> QED  BY <2>1, <2>2, Zenon
<1>9. CoresOK'
  <2> SUFFICES ASSUME NEW d \in Cores PROVE CoreOK(d)'
    BY Zenon DEF CoresOK
  <2>1. CASE d = c
    BY <1>5, <1>6, <2>1, Zenon DEF CoreOK
  <2>2. CASE d # c
    BY <1>5, <1>6, <2>2, Zenon DEF Machine, CoresOK, CoreOK
  <2> QED  BY <2>1, <2>2, Zenon
<1>10. Waiting'
  BY Zenon DEF Machine, Waiting
<1>11. Restored'
  <2> SUFFICES ASSUME Final, NEW d \in Cores, NEW q \in Pages \ unhookedOne
               PROVE  /\ d \notin dpc => Clear(d, q)'
                      /\ dpc = {} => entry'[q] = Identity
    BY <1>1, Zenon DEF Restored
  <2>1. /\ d \notin dpc => Clear(d, q)
        /\ dpc = {} => entry[q] = Identity
    BY Zenon DEF Machine, Restored
  <2>2. dpc = {} => entry'[q] = Identity
    BY <1>3, <2>1, Zenon
  <2>3. ASSUME d \notin dpc PROVE Clear(d, q)'
    <3>1. CASE d # c
      BY <1>4, <1>5, <1>6, <2>1, <2>3, <3>1, Zenon DEF Clear
    <3>2. CASE d = c
      <4>1. q # p
        BY <2>3, <3>2, Zenon
      <4> QED  BY <1>4, <1>5, <1>6, <3>2, <4>1, Zenon DEF Clear
    <3> QED  BY <3>1, <3>2, Zenon
  <2> QED  BY <2>2, <2>3, Zenon
<1> QED  BY <1>1, <1>4, <1>7, <1>8, <1>9, <1>10, <1>11, Zenon DEF Machine

\* A core exits for a page, or has handled its exit, and changes nothing else.
LEMMA TrapKeeps ==
  ASSUME Machine, NEW c \in Cores, NEW x \in Traps, trap' = [trap EXCEPT ![c] = x],
         UNCHANGED <<entry, tlb, peeked, restore, hooked, listed, unhookedOne, worker, dpc>>,
         x # NoTrap => x.page \in Pages,
         x # NoTrap /\ restore[c] # NoRestore => TwoPageAccess \/ hooked[restore[c].record].page = x.page,
         x # NoTrap /\ Final /\ c \notin dpc => x.page \in unhookedOne
  PROVE  Machine'
<1>1. Records' /\ Final' = Final /\ (\A q : RecordsOf(q)' = RecordsOf(q))
  BY RecordsStay, Zenon
<1>2. trap' \in [Cores -> Traps] /\ trap'[c] = x /\ (\A d \in Cores : d # c => trap'[d] = trap[d])
  BY Zenon DEF Machine, Typed
<1>3. Typed'
  BY <1>2, Zenon DEF Machine, Typed
<1>4. Entries'
  <2>1. \A d, q : Stepping(d, q)' <=> Stepping(d, q)
    BY Zenon DEF Stepping
  <2> QED  BY <1>1, <2>1, Zenon DEF Machine, Entries
<1>5. CoresOK'
  <2> SUFFICES ASSUME NEW d \in Cores PROVE CoreOK(d)'
    BY Zenon DEF CoresOK
  <2>1. CoreOK(d)
    BY Zenon DEF Machine, CoresOK
  <2> QED  BY <1>2, <2>1, Zenon DEF CoreOK
<1>6. Cached'
  BY <1>1, Zenon DEF Machine, Cached, CachedOK
<1>7. Waiting'
  BY Zenon DEF Machine, Waiting
<1>8. Restored'
  <2> SUFFICES ASSUME Final, NEW d \in Cores, NEW q \in Pages \ unhookedOne
               PROVE  /\ d \notin dpc => Clear(d, q)'
                      /\ dpc = {} => entry[q] = Identity
    BY <1>1, Zenon DEF Restored
  <2>1. /\ d \notin dpc => Clear(d, q)
        /\ dpc = {} => entry[q] = Identity
    BY Zenon DEF Machine, Restored
  <2>2. ASSUME d \notin dpc PROVE Clear(d, q)'
    BY <1>2, <2>1, <2>2, Zenon DEF Clear
  <2> QED  BY <2>1, <2>2, Zenon
<1> QED  BY <1>1, <1>3, <1>4, <1>5, <1>6, <1>7, <1>8, Zenon DEF Machine
\* The instruction under the monitor trap flag, and the hook put back.
LEMMA StepInstructionKeeps ==
  ASSUME Machine, NEW c \in Cores, NEW q \in Pages, StepInstruction(c, q)
  PROVE  Machine'
<1> PICK r, p : r = restore[c].record /\ p = hooked[r].page
  BY Zenon
<1> PICK again, other : /\ again = Exit(View(c, p), restore[c].access)
                        /\ other = IF q = p THEN "none" ELSE Exit(View(c, q), "data")
  BY Zenon
<1>1. /\ Running(c) /\ restore[c] # NoRestore /\ (q = p \/ TwoPageAccess)
      /\ UNCHANGED <<hooked, listed, unhookedOne, worker, dpc>>
  BY Zenon DEF StepInstruction, hookVars, workVars
<1>2. IF again # "none" \/ other # "none"
      THEN /\ trap' = [trap EXCEPT ![c] =
                         IF again # "none" THEN [page |-> p, exit |-> again]
                         ELSE [page |-> q, exit |-> other]]
           /\ UNCHANGED <<entry, tlb, peeked, restore>>
      ELSE /\ EptSetPML1AndInvalidateTLB(c, p, r)
           /\ restore' = [restore EXCEPT ![c] = NoRestore]
           /\ UNCHANGED trap
  BY Zenon DEF StepInstruction
<1>3. r \in DOMAIN hooked /\ r \in Nat \ {0} /\ p \in Pages /\ (p \notin unhookedOne => r \in RecordsOf(p))
  BY <1>1, Zenon DEF Machine, CoresOK, CoreOK, Records, RecordOK, RecordsOf
<1>4. Final /\ c \notin dpc => p \in unhookedOne
  BY <1>1, <1>3, Zenon DEF Machine, Restored, Clear
<1>5. CASE again # "none" \/ other # "none"
  <2> PICK x : x = IF again # "none" THEN [page |-> p, exit |-> again] ELSE [page |-> q, exit |-> other]
    BY Zenon
  <2>1. trap' = [trap EXCEPT ![c] = x] /\ UNCHANGED <<entry, tlb, peeked, restore>>
    BY <1>2, <1>5, Zenon
  <2>2. again \in {"none", "violation", "breakpoint"} /\ other \in {"none", "violation", "breakpoint"}
    BY Zenon DEF Exit
  <2>3. x \in Traps /\ x.page \in Pages /\ (x.page = p \/ (x.page = q /\ other # "none"))
    BY <1>3, <1>5, <2>2, Zenon DEF Traps
  <2>4. TwoPageAccess \/ p = x.page
    BY <1>1, <2>3, Zenon
  <2>5. ASSUME Final, c \notin dpc PROVE x.page \in unhookedOne
    <3>1. dpc = {}
      BY <1>1, <2>5, RunningFinal, Zenon
    <3>2. CASE x.page = p
      BY <1>4, <2>5, <3>2, Zenon
    <3>3. CASE x.page = q /\ other # "none"
      <4>1. View(c, q) # Identity
        BY <3>3, Zenon DEF Exit
      <4> QED  BY <2>5, <3>1, <3>3, <4>1, ViewOK, Zenon
    <3> QED  BY <2>3, <3>2, <3>3, Zenon
  <2> QED  BY <1>1, <2>1, <2>3, <2>4, <2>5, TrapKeeps, Zenon
<1>6. CASE ~(again # "none" \/ other # "none")
  <2>1. /\ EptSetPML1AndInvalidateTLB(c, p, r)
        /\ restore' = [restore EXCEPT ![c] = NoRestore] /\ UNCHANGED trap
    BY <1>2, <1>6, Zenon
  <2>2. trap' = [trap EXCEPT ![c] = NoTrap]
    BY <1>1, <2>1, Zenon DEF Running, Machine, Typed
  <2>3. NoRestore \in Restores
    BY Zenon DEF NoRestore, Restores, NoPool
  <2>4. r # Identity /\ r \in Nat
    BY <1>3, Zenon DEF Identity
  <2>5. \A s \in Pages : Stepping(c, s) => s = p
    BY Zenon DEF Stepping
  <2> QED  BY <1>1, <1>3, <1>4, <2>1, <2>2, <2>3, <2>4, <2>5, SetEntryKeeps, Zenon
<1> QED  BY <1>5, <1>6, Zenon

\* An exit for a hooked page swaps the original entry of one of its records in.
LEMMA SwapKeeps ==
  ASSUME Machine, NEW c \in Cores, trap[c] # NoTrap, NEW r \in RecordsOf(trap[c].page),
         NEW access \in Accesses, SwapOriginal(c, r, access), trap' = [trap EXCEPT ![c] = NoTrap],
         UNCHANGED <<hooked, listed, unhookedOne, worker, dpc>>
  PROVE  Machine'
<1> PICK p, v, x : p = trap[c].page /\ v = hooked[r].original /\ x = [record |-> r, access |-> access]
  BY Zenon
<1>1. p \in Pages
  BY Zenon DEF Machine, CoresOK, CoreOK
<1>2. r \in DOMAIN hooked /\ hooked[r].page = p /\ r \in Nat \ {0}
  BY Zenon DEF RecordsOf, Machine, Records, RecordOK
<1>3. EptSetPML1AndInvalidateTLB(c, p, v) /\ restore' = [restore EXCEPT ![c] = x]
  BY <1>2, Zenon DEF SwapOriginal
<1>4. v \in Nat /\ (p \notin unhookedOne => v \in {Identity} \cup RecordsOf(p))
  BY <1>2, Zenon DEF Machine, Records, RecordOK
<1>5. x \in Restores /\ x.record = r /\ x # NoRestore
  BY <1>2, Zenon DEF Restores, NoRestore, NoPool
<1>6. \A q \in Pages : Stepping(c, q) => q = p \/ TwoPageAccess
  BY Zenon DEF Stepping, Machine, CoresOK, CoreOK
<1>7. Final /\ c \notin dpc => p \in unhookedOne
  BY <1>1, Zenon DEF Machine, Restored, Clear
<1> QED  BY <1>1, <1>2, <1>3, <1>4, <1>5, <1>6, <1>7, SetEntryKeeps, Zenon

\* The handlers of the two exits.
LEMMA ExitKeeps ==
  ASSUME Machine, Numbered, NEW c \in Cores, EptHandleEptViolation(c) \/ HandleHiddenBreakpoint(c)
  PROVE  Machine'
<1> USE DEF hookVars, workVars
<1>1. trap' = [trap EXCEPT ![c] = NoTrap] /\ UNCHANGED <<hooked, listed, unhookedOne, worker, dpc>>
  BY Zenon DEF EptHandleEptViolation, HandleHiddenBreakpoint
<1>2. trap[c] # NoTrap
  BY DEF EptHandleEptViolation, HandleHiddenBreakpoint, NoTrap
<1>3. \A p : RecordsOf(p) \in SUBSET DOMAIN hooked
  BY Zenon DEF RecordsOf, Machine, Records
<1>4. ASSUME UNCHANGED <<entry, tlb, peeked, restore>> PROVE Machine'
  <2>1. NoTrap \in Traps
    BY Zenon DEF NoTrap, Traps
  <2> QED  BY <1>1, <1>4, <2>1, TrapKeeps, Zenon
<1>5. "data" \in Accesses /\ "exec" \in Accesses
  BY Zenon DEF Accesses
<1>6. CASE EptHandleEptViolation(c)
  <2> PICK S, r : S = RecordsOf(trap[c].page) /\ r = Newest(S)
    BY Zenon
  <2>1. IF r = NoPool THEN UNCHANGED <<entry, tlb, peeked, restore>> ELSE SwapOriginal(c, r, "data")
    BY <1>6, Zenon DEF EptHandleEptViolation, FirstRecordOf
  <2>2. CASE S = {}
    BY <1>4, <2>1, <2>2, Zenon DEF Newest
  <2>3. CASE S # {}
    <3>1. r \in S
      BY <1>3, <2>3, NewestIn, Zenon
    <3> QED  BY <1>1, <1>2, <1>4, <1>5, <2>1, <3>1, SwapKeeps, Zenon
  <2> QED  BY <2>2, <2>3, Zenon
<1>7. CASE HandleHiddenBreakpoint(c)
  <2> PICK S, r : S = {s \in RecordsOf(trap[c].page) : hooked[s].kind = "cc"} /\ r = Oldest(S)
    BY Zenon
  <2>1. IF S = {} THEN UNCHANGED <<entry, tlb, peeked, restore>> ELSE SwapOriginal(c, r, "exec")
    BY <1>7, Zenon DEF HandleHiddenBreakpoint
  <2>2. CASE S = {}
    BY <1>4, <2>1, <2>2, Zenon
  <2>3. CASE S # {}
    <3>1. r \in S
      BY <1>3, <2>3, OldestIn, Zenon
    <3>2. r \in RecordsOf(trap[c].page)
      BY <3>1, Zenon
    <3> QED  BY <1>1, <1>2, <1>5, <2>1, <2>3, <3>2, SwapKeeps, Zenon
  <2> QED  BY <2>2, <2>3, Zenon
<1> QED  BY <1>6, <1>7, Zenon
\* The entry a page gets back is its own.
LEMMA OriginalOK ==
  ASSUME Machine, Numbered, NEW p \in Pages
  PROVE  Original(p) \in Nat /\ (p \notin unhookedOne => Original(p) = Identity)
<1>1. CASE RecordsOf(p) = {}
  <2>1. Original(p) = entry[p]
    BY <1>1, Zenon DEF Original
  <2> QED  BY <1>1, <2>1, Zenon DEF Machine, Typed, Entries
<1>2. CASE RecordsOf(p) # {}
  <2> PICK S, r : S = RecordsOf(p) /\ r = Oldest(S)
    BY Zenon
  <2>1. Original(p) = hooked[r].original
    BY <1>2, Zenon DEF Original
  <2>2. S \in SUBSET DOMAIN hooked
    BY Zenon DEF RecordsOf, Machine, Records
  <2>3. r \in S /\ (\A s \in S : hooked[r].nth <= hooked[s].nth)
    BY <1>2, <2>2, OldestIn, Zenon
  <2>4. RecordOK(r) /\ hooked[r].page = p /\ hooked[r].nth \in Nat
    BY <2>2, <2>3 DEF Machine, Records, RecordsOf, Numbered
  <2>5. ASSUME p \notin unhookedOne PROVE hooked[r].original = Identity
    <3>1. ASSUME NEW s \in S PROVE ~(hooked[s].nth < hooked[r].nth)
      <4>1. hooked[s].nth \in Nat /\ hooked[r].nth <= hooked[s].nth
        BY <2>2, <2>3 DEF Numbered
      <4> QED  BY <2>4, <4>1
    <3> QED  BY <2>4, <2>5, <3>1, Zenon DEF RecordOK
  <2> QED  BY <2>1, <2>4, <2>5, Zenon DEF RecordOK
<1> QED  BY <1>1, <1>2, Zenon

\* A DPC that does not restore entries.
LEMMA InvalidateKeeps ==
  ASSUME Machine, NEW c \in Cores, trap[c] = NoTrap, restore[c] = NoRestore,
         ~Final, UNCHANGED <<entry, coreVars, hookVars, worker>>, dpc' = dpc \ {c},
         Invept(c) \/ (worker.at # "invalidate" /\ UNCHANGED <<tlb, peeked>>)
  PROVE  Machine'
<1>1. UNCHANGED <<entry, trap, restore, hooked, listed, unhookedOne, worker>>
  BY Zenon DEF coreVars, hookVars
<1>2. Records' /\ Final' = Final /\ (\A q : RecordsOf(q)' = RecordsOf(q))
  BY <1>1, RecordsStay, Zenon
<1>3. Cached' /\ tlb' \in [Cores -> [Pages -> Int]]
  <2>1. CASE Invept(c)
    BY <1>1, <2>1, InveptKeepsCached, Zenon DEF Machine
  <2>2. CASE worker.at # "invalidate" /\ UNCHANGED <<tlb, peeked>>
    <3>1. Cached'
      BY <1>1, <1>2, <2>2, Zenon DEF Machine, Cached, CachedOK
    <3> QED  BY <2>2, <3>1, Zenon DEF Machine, Typed
  <2> QED  BY <2>1, <2>2, Zenon
<1>4. Typed'
  BY <1>1, <1>3, Zenon DEF Machine, Typed
<1>5. Entries'
  <2>1. \A d, q : Stepping(d, q)' <=> Stepping(d, q)
    BY <1>1, Zenon DEF Stepping
  <2> QED  BY <1>1, <1>2, <2>1, Zenon DEF Machine, Entries
<1>6. CoresOK'
  BY <1>1, Zenon DEF Machine, CoresOK, CoreOK
<1>7. Waiting'
  BY <1>1, Zenon DEF Machine, Waiting
<1>8. Restored'
  BY <1>2, Zenon DEF Restored
<1> QED  BY <1>2, <1>3, <1>4, <1>5, <1>6, <1>7, <1>8, Zenon DEF Machine

\* The DPC that restores the entries.
LEMMA RestoreKeeps ==
  ASSUME Machine, Numbered, NEW c \in Cores, trap[c] = NoTrap, restore[c] = NoRestore,
         worker.at = "unhookAll", EptHookRestoreAllHooksToOrginalEntry(c),
         UNCHANGED <<coreVars, hookVars, worker>>, dpc' = dpc \ {c}
  PROVE  Machine'
<1>1. UNCHANGED <<trap, restore, hooked, listed, unhookedOne, worker>>
  BY Zenon DEF coreVars, hookVars
<1>2. Records' /\ Final' = Final /\ (\A q : RecordsOf(q)' = RecordsOf(q)) /\ Final
  BY <1>1, RecordsStay, Zenon DEF Final
<1>3. entry' \in [Pages -> Nat] /\ (\A p \in Pages \ unhookedOne : entry'[p] = Identity)
  <2>1. entry' = [p \in Pages |-> Original(p)]
    BY Zenon DEF EptHookRestoreAllHooksToOrginalEntry
  <2> QED  BY <2>1, OriginalOK, Zenon
<1>4. /\ Cached' /\ tlb' \in [Cores -> [Pages -> Int]]
      /\ \A p \in Pages \ unhookedOne : tlb'[c][p] \in {NotCached, Identity}
      /\ \A d \in Cores : d # c => tlb'[d] = tlb[d]
  <2>1. CASE Invept(c)
    BY <1>1, <2>1, InveptKeepsCached, Zenon DEF Machine
  <2>2. CASE listed = {} /\ UNCHANGED <<tlb, peeked>>
    <3>1. \A p : RecordsOf(p) = {}
      BY <2>2, Zenon DEF RecordsOf
    <3>2. \A d \in Cores, p \in Pages \ unhookedOne : tlb[d][p] \in {NotCached, Identity}
      BY <3>1, Zenon DEF Machine, Cached, CachedOK
    <3>3. Cached'
      BY <1>1, <1>2, <2>2, <3>1, <3>2, Zenon DEF Cached, CachedOK
    <3> QED  BY <2>2, <3>2, <3>3, Zenon DEF Machine, Typed
  <2> QED  BY <2>1, <2>2, Zenon DEF EptHookRestoreAllHooksToOrginalEntry
<1>5. Typed'
  BY <1>1, <1>3, <1>4, Zenon DEF Machine, Typed
<1>6. Entries'
  BY <1>1, <1>2, <1>3, Zenon DEF Entries
<1>7. CoresOK'
  BY <1>1, Zenon DEF Machine, CoresOK, CoreOK
<1>8. Waiting'
  BY <1>1, Zenon DEF Waiting
<1>9. Restored'
  <2> SUFFICES ASSUME NEW d \in Cores, d \notin dpc', NEW q \in Pages \ unhookedOne PROVE Clear(d, q)'
    BY <1>1, <1>3, Zenon DEF Restored
  <2>1. CASE d = c
    BY <1>1, <1>4, <2>1, Zenon DEF Clear
  <2>2. CASE d # c
    <3>1. Clear(d, q)
      BY <1>2, <2>2, Zenon DEF Machine, Restored
    <3> QED  BY <1>1, <1>4, <2>2, <3>1, Zenon DEF Clear
  <2> QED  BY <2>1, <2>2, Zenon
<1> QED  BY <1>2, <1>4, <1>5, <1>6, <1>7, <1>8, <1>9, Zenon DEF Machine

\* The DPC the worker waits for, on one core.
LEMMA RunDpcKeeps ==
  ASSUME Machine, Numbered, NEW c \in Cores, RunDpc(c)
  PROVE  Machine'
<1>1. /\ c \in dpc /\ trap[c] = NoTrap /\ restore[c] = NoRestore
      /\ dpc' = dpc \ {c} /\ UNCHANGED <<coreVars, hookVars, worker>>
  BY Zenon DEF RunDpc
<1>2. worker.at \in {"invalidate", "unhookOne", "unhookAll"}
  BY <1>1, Zenon DEF Machine, Waiting
<1>3. CASE worker.at = "invalidate"
  <2>1. InvalidateEpt(c) /\ ~Final
    BY <1>3, Zenon DEF RunDpc, Final
  <2> QED  BY <1>1, <2>1, InvalidateKeeps, Zenon DEF InvalidateEpt
<1>4. CASE worker.at = "unhookOne"
  <2>1. EptHookRestoreSingleHookToOrginalEntry(c) /\ ~Final
    BY <1>4, Zenon DEF RunDpc, Final
  <2> QED  BY <1>1, <1>4, <2>1, InvalidateKeeps, Zenon DEF EptHookRestoreSingleHookToOrginalEntry
<1>5. CASE worker.at = "unhookAll"
  <2>1. EptHookRestoreAllHooksToOrginalEntry(c)
    BY <1>5, Zenon DEF RunDpc
  <2> QED  BY <1>1, <1>5, <2>1, RestoreKeeps, Zenon
<1> QED  BY <1>2, <1>3, <1>4, <1>5, Zenon
-----------------------------------------------------------------------------
(* Steps of the worker                                                       *)

\* A new record, whose entry one core sets; all cores have yet to invalidate.
LEMMA InstallKeeps ==
  ASSUME Machine, Numbered, Job, Holders, NEW c \in Cores, InstallHook(c)
  PROVE  Machine' /\ Job'
<1> PICK r, p : r = worker.record /\ p = worker.page
  BY Zenon
<1>1. /\ worker.at = "install" /\ worker' = [worker EXCEPT !.at = "invalidate"]
      /\ listed' = listed \cup {r} /\ EptSetPML1AndInvalidateTLB(c, p, r)
      /\ dpc' = Cores /\ UNCHANGED <<trap, restore, unhookedOne, hooks>>
  BY Zenon DEF InstallHook, Install, InRequest, Goto, coreVars
<1>2. worker'.at = "invalidate"
  BY <1>1, Zenon DEF Holders
<1>3. p \in Pages /\ r \notin DOMAIN hooked /\ r # 0 /\ r \in Nat
  BY <1>1 DEF Job, Preparing, NoPool, Holders, Given
<1>4. /\ DOMAIN hooked' = DOMAIN hooked \cup {r}
      /\ hooked'[r].page = p /\ hooked'[r].original = entry[p] /\ hooked'[r].nth = hooks
      /\ \A s \in DOMAIN hooked : hooked'[s] = hooked[s]
  <2>1. hooked' = [s \in DOMAIN hooked \cup {r} |-> IF s # r THEN hooked[s] ELSE
                    [page |-> p, kind |-> worker.kind, original |-> entry[p],
                     details |-> worker.details, nth |-> hooks]]
    BY Zenon DEF InstallHook, Install
  <2> QED  BY <1>3, <2>1, Zenon
<1>5. listed \subseteq DOMAIN hooked
  BY Zenon DEF Machine, Records
<1>6. /\ RecordsOf(p)' = RecordsOf(p) \cup {r}
      /\ \A q : q # p => RecordsOf(q)' = RecordsOf(q)
  BY <1>1, <1>3, <1>4, <1>5 DEF RecordsOf
<1>7. ~Final /\ ~Final'
  BY <1>1, <1>2, Zenon DEF Final
<1>8. /\ entry' \in [Pages -> Nat] /\ entry'[p] = r
      /\ \A q \in Pages : q # p => entry'[q] = entry[q]
  <2>1. entry' = [entry EXCEPT ![p] = r]
    BY <1>1, Zenon DEF EptSetPML1AndInvalidateTLB
  <2> QED  BY <1>3, <2>1, Zenon DEF Machine, Typed
<1>9. /\ tlb' \in [Cores -> [Pages -> Int]] /\ (\A q \in Pages : tlb'[c][q] = NotCached)
      /\ \A d \in Cores : d # c => tlb'[d] = tlb[d]
  <2>1. tlb' = [tlb EXCEPT ![c] = NothingCached]
    BY <1>1, Zenon DEF EptSetPML1AndInvalidateTLB, Invept
  <2> QED  BY <2>1 DEF Machine, Typed, NothingCached, NotCached
<1>10. Typed'
  BY <1>1, <1>8, <1>9, Zenon DEF Machine, Typed
<1>11. Records'
  <2> SUFFICES ASSUME NEW s \in DOMAIN hooked' PROVE RecordOK(s)'
    BY <1>1, <1>4, <1>5, Zenon DEF Records
  <2>1. CASE s = r
    <3>1. entry[p] \in Nat /\ (p \notin unhookedOne => entry[p] \in {Identity} \cup RecordsOf(p))
      BY <1>3, Zenon DEF Machine, Typed, Entries
    <3>2. \A x \in RecordsOf(p) : x \in DOMAIN hooked /\ hooked'[x].nth < hooks
      BY <1>1, <1>4, <1>5, Zenon DEF RecordsOf, Numbered, Preparing
    <3>3. p \notin unhookedOne => \/ entry[p] = Identity
                                  \/ entry[p] \in RecordsOf(p)' /\ hooked'[entry[p]].nth < hooks
      BY <1>6, <3>1, <3>2, Zenon
    <3> QED  BY <1>1, <1>3, <1>4, <2>1, <3>1, <3>3, Zenon DEF RecordOK
  <2>2. CASE s # r
    <3>1. s \in DOMAIN hooked /\ hooked'[s] = hooked[s] /\ RecordOK(s)
      BY <1>4, <2>2, Zenon DEF Machine, Records
    <3> PICK q : q = hooked[s].page
      BY Zenon
    <3>2. RecordsOf(q) \subseteq RecordsOf(q)'
      BY <1>6, Zenon
    <3>3. \A x \in RecordsOf(q) : hooked'[x] = hooked[x]
      BY <1>4, <1>5, Zenon DEF RecordsOf
    <3> QED  BY <1>1, <3>1, <3>2, <3>3, Zenon DEF RecordOK
  <2> QED  BY <2>1, <2>2, Zenon
<1>12. CoresOK'
  <2> SUFFICES ASSUME NEW d \in Cores PROVE CoreOK(d)'
    BY Zenon DEF CoresOK
  <2>1. CoreOK(d)
    BY Zenon DEF Machine, CoresOK
  <2> QED  BY <1>1, <1>4, <2>1, Zenon DEF CoreOK
<1>13. Entries'
  <2> SUFFICES ASSUME NEW q \in Pages \ unhookedOne
               PROVE  /\ entry'[q] \in {Identity} \cup RecordsOf(q)'
                      /\ RecordsOf(q)' # {} /\ entry'[q] = Identity =>
                           TwoPageAccess \/ (\E d \in Cores : Stepping(d, q)')
    BY <1>1, Zenon DEF Entries
  <2>1. CASE q = p
    BY <1>3, <1>6, <1>8, <2>1, Zenon DEF Identity
  <2>2. CASE q # p
    <3>1. ASSUME NEW d \in Cores, Stepping(d, q) PROVE Stepping(d, q)'
      BY <1>1, <1>4, <3>1, Zenon DEF Stepping, Machine, CoresOK, CoreOK
    <3>2. entry'[q] = entry[q] /\ RecordsOf(q)' = RecordsOf(q)
      BY <1>6, <1>8, <2>2, Zenon
    <3> QED  BY <1>7, <3>1, <3>2, Zenon DEF Machine, Entries
  <2> QED  BY <2>1, <2>2, Zenon
<1>14. Cached'
  <2> SUFFICES ASSUME NEW d \in Cores, NEW q \in Pages \ unhookedOne PROVE CachedOK(d, q)'
    BY <1>1, Zenon DEF Cached
  <2>1. tlb[d][q] \in {NotCached, Identity} \cup RecordsOf(q)
    BY Zenon DEF Machine, Cached, CachedOK
  <2>2. RecordsOf(q) \subseteq RecordsOf(q)'
    BY <1>6, Zenon
  <2>3. tlb'[d][q] \in {NotCached, Identity} \cup RecordsOf(q)'
    BY <1>9, <2>1, <2>2, Zenon
  <2> QED  BY <1>1, <1>2, <2>3, Zenon DEF CachedOK
<1>15. Waiting' /\ Restored'
  BY <1>2, <1>7, Zenon DEF Waiting, Restored
<1>16. Job'
  BY <1>2, Zenon DEF Job, Preparing
<1> QED  BY <1>10, <1>11, <1>12, <1>13, <1>14, <1>15, <1>16, Zenon DEF Machine

\* A record is unlinked; its page is one whose hook was removed singly.
LEMMA EndUnhookKeeps ==
  ASSUME Machine, Job, EndUnhook
  PROVE  Machine' /\ Job'
<1> PICK r, p : r = worker.record /\ p = worker.page
  BY Zenon
<1>1. /\ worker.at = "unhookOne" /\ dpc = {} /\ worker' = Resting
      /\ listed' = listed \ {r} /\ unhookedOne' = unhookedOne \cup {p}
      /\ UNCHANGED <<entry, tlb, peeked, hooked, trap, restore, dpc>>
  BY Zenon DEF EndUnhook, InRequest, eptVars, coreVars
<1>2. r \in DOMAIN hooked /\ hooked[r].page = p
  BY <1>1, Zenon DEF Job
<1>3. \A q : q # p => RecordsOf(q)' = RecordsOf(q)
  BY <1>1, <1>2, Zenon DEF RecordsOf
<1>4. worker'.at = "idle" /\ ~Final /\ ~Final'
  BY <1>1, Zenon DEF Resting, Final
<1>5. Typed'
  BY <1>1, Zenon DEF Machine, Typed
<1>6. Records'
  <2> SUFFICES ASSUME NEW s \in DOMAIN hooked PROVE RecordOK(s)'
    BY <1>1, Zenon DEF Machine, Records
  <2>1. RecordOK(s)
    BY Zenon DEF Machine, Records
  <2>2. CASE hooked[s].page = p
    BY <1>1, <2>1, <2>2, Zenon DEF RecordOK
  <2>3. CASE hooked[s].page # p
    <3> PICK q : q = hooked[s].page
      OBVIOUS
    <3>1. RecordsOf(q)' = RecordsOf(q) /\ s # r
      BY <1>2, <1>3, <2>3, Zenon
    <3> QED  BY <1>1, <2>1, <3>1, Zenon DEF RecordOK
  <2> QED  BY <2>2, <2>3, Zenon
<1>7. Entries'
  <2> SUFFICES ASSUME NEW q \in Pages \ unhookedOne, q # p
               PROVE  /\ entry[q] \in {Identity} \cup RecordsOf(q)
                      /\ RecordsOf(q) # {} /\ entry[q] = Identity =>
                           TwoPageAccess \/ (\E d \in Cores : Stepping(d, q)')
    BY <1>1, <1>3, Zenon DEF Entries
  <2>1. \A d \in Cores : Stepping(d, q)' <=> Stepping(d, q)
    BY <1>1, Zenon DEF Stepping
  <2> QED  BY <1>4, <2>1, Zenon DEF Machine, Entries
<1>8. CoresOK'
  BY <1>1, Zenon DEF Machine, CoresOK, CoreOK
<1>9. Cached'
  <2> SUFFICES ASSUME NEW d \in Cores, NEW q \in Pages \ unhookedOne, q # p PROVE CachedOK(d, q)'
    BY <1>1, Zenon DEF Cached
  <2>1. CachedOK(d, q) /\ RecordsOf(q)' = RecordsOf(q)
    BY <1>3, Zenon DEF Machine, Cached
  <2> QED  BY <1>1, <1>4, <2>1, Zenon DEF CachedOK
<1>10. Waiting' /\ Restored' /\ Job'
  BY <1>1, <1>4, Zenon DEF Waiting, Restored, Job, Preparing
<1> QED  BY <1>5, <1>6, <1>7, <1>8, <1>9, <1>10, Zenon DEF Machine
\* No core has a DPC to run unless the worker waits for it.
LEMMA NoDpc ==
  ASSUME Machine, worker.at \notin {"invalidate", "unhookOne", "unhookAll"}
  PROVE  dpc = {}
BY Zenon DEF Machine, Waiting

\* The worker asks every core to run a DPC that is to remove hooks.
LEMMA DpcAsked ==
  ASSUME Machine, UNCHANGED <<entry, tlb, peeked, hooked, listed, unhookedOne, trap, restore>>,
         dpc = {}, dpc' = Cores, ~Final, worker'.at \in {"unhookOne", "unhookAll"}
  PROVE  Machine'
<1>1. \A p : RecordsOf(p)' = RecordsOf(p)
  BY DEF RecordsOf
<1>2. Typed' /\ Records' /\ Waiting'
  BY Zenon DEF Machine, Typed, Records, RecordOK, RecordsOf, Waiting
<1>3. Entries'
  <2>1. \A c, p : Stepping(c, p)' <=> Stepping(c, p)
    BY Zenon DEF Stepping
  <2> QED  BY <1>1, <2>1, Zenon DEF Machine, Entries
<1>4. CoresOK'
  BY Zenon DEF Machine, CoresOK, CoreOK
<1>5. Cached'
  <2> SUFFICES ASSUME NEW c \in Cores, NEW p \in Pages \ unhookedOne PROVE CachedOK(c, p)'
    BY Zenon DEF Cached
  <2>1. CachedOK(c, p) /\ c \notin dpc
    BY Zenon DEF Machine, Cached
  <2> QED  BY <1>1, <2>1, Zenon DEF CachedOK
<1>6. Restored'
  BY Zenon DEF Restored
<1> QED  BY <1>2, <1>3, <1>4, <1>5, <1>6, Zenon DEF Machine

\* A step of a request that changes only where the worker is.
LEMMA RequestKeeps ==
  ASSUME Machine, UNCHANGED <<entry, tlb, peeked, hookVars, coreVars, dpc>>,
         dpc = {}, ~Final, worker'.at \notin {"unhookAll", "off"}
  PROVE  Machine'
<1>1. UNCHANGED machine
  BY Zenon DEF machine, hookVars, coreVars
<1>2. Final' = Final
  BY DEF Final
<1> QED  BY <1>1, <1>2, WorkerGoesOn, Zenon

\* Every step keeps the invariant of the hooks.
LEMMA HookStep == IInv /\ Machine /\ Job /\ [Next]_vars => Machine' /\ Job'
<1> SUFFICES ASSUME TableOK, Holders, Numbered, Machine, Job, [Next]_vars PROVE Machine' /\ Job'
  BY Zenon DEF IInv
<1>1. ASSUME UNCHANGED <<worker, hooked>> PROVE Job'
  BY <1>1, Zenon DEF Job, Preparing
<1>2. ASSUME NEW c \in Cores, NEW p \in Pages, NEW access \in Accesses, GuestAccess(c, p, access)
      PROVE  Machine' /\ Job'
  <2>1. UNCHANGED <<worker, hooked>>
    BY <1>2, Zenon DEF GuestAccess, hookVars, workVars
  <2> QED  BY <1>1, <1>2, <2>1, GuestAccessKeeps, Zenon
<1>3. ASSUME NEW c \in Cores, NEW q \in Pages, StepInstruction(c, q) PROVE Machine' /\ Job'
  <2>1. UNCHANGED <<worker, hooked>>
    BY <1>3, Zenon DEF StepInstruction, hookVars, workVars
  <2> QED  BY <1>1, <1>3, <2>1, StepInstructionKeeps, Zenon
<1>4. ASSUME NEW c \in Cores, EptHandleEptViolation(c) \/ HandleHiddenBreakpoint(c)
      PROVE  Machine' /\ Job'
  <2>1. UNCHANGED <<worker, hooked>>
    BY <1>4, Zenon DEF EptHandleEptViolation, HandleHiddenBreakpoint, hookVars, workVars
  <2> QED  BY <1>1, <1>4, <2>1, ExitKeeps, Zenon
<1>5. ASSUME NEW c \in Cores, RunDpc(c) PROVE Machine' /\ Job'
  <2>1. UNCHANGED <<worker, hooked>>
    BY <1>5, Zenon DEF RunDpc, hookVars
  <2> QED  BY <1>1, <1>5, <2>1, RunDpcKeeps, Zenon
<1>6. ASSUME NEW c \in Cores, InstallHook(c) PROVE Machine' /\ Job'
  BY <1>6, InstallKeeps, Zenon
<1>7. CASE EndUnhook
  BY <1>7, EndUnhookKeeps, Zenon
<1>8. ASSUME NEW w, worker' = w, UNCHANGED <<entry, tlb, peeked, hookVars, coreVars, dpc>>,
             worker.at \notin {"unhookOne", "unhookAll", "off"}, dpc = {} \/ worker.at # "invalidate",
             w.at \notin {"unhookOne", "unhookAll", "off"},
             w.at \in {"split", "tables", "track", "tramp", "details", "install"} => w.page \in Pages,
             w.at \in {"tramp", "details", "install"} => w.record \notin DOMAIN hooked \cup {NoPool}
      PROVE  Machine' /\ Job'
  <2>1. dpc = {} /\ ~Final
    BY <1>8, NoDpc, Zenon DEF Final
  <2>2. Machine'
    BY <1>8, <2>1, RequestKeeps, Zenon
  <2>3. hooked' = hooked
    BY <1>8, Zenon DEF hookVars
  <2> QED  BY <1>8, <2>2, <2>3, Zenon DEF Job, Preparing
<1>9. ASSUME NEW p \in Pages, NEW k \in HookKinds, AskHook(p, k) PROVE Machine' /\ Job'
  <2> PICK w : w = worker'
    BY Zenon
  <2>1. w.at = "split" /\ w.page = p /\ worker.at = "idle"
    BY <1>9, Zenon DEF AskHook, Ask, Resting
  <2>2. UNCHANGED <<entry, tlb, peeked, hookVars, coreVars, dpc>>
    BY <1>9, Zenon DEF AskHook, Ask, eptVars
  <2> QED  BY <1>8, <2>1, <2>2, Zenon
<1>10. ASSUME (\E p \in Pages : AskUnhook(p)) \/ AskTerminate PROVE Machine' /\ Job'
  <2> PICK w : w = worker'
    BY Zenon
  <2>1. w.at \in {"find", "restoreAll"} /\ worker.at = "idle"
    <3>1. /\ \/ w = [Resting EXCEPT !.at = "restoreAll"]
             \/ \E p \in Pages : w = [Resting EXCEPT !.at = "find", !.page = p]
          /\ worker = Resting
      BY <1>10, Zenon DEF AskUnhook, AskTerminate, Ask
    <3> QED  BY <3>1, Zenon DEF Resting
  <2>2. UNCHANGED <<entry, tlb, peeked, hookVars, coreVars, dpc>>
    BY <1>10, Zenon DEF AskUnhook, AskTerminate, Ask, eptVars
  <2> QED  BY <1>8, <2>1, <2>2, Zenon
<1>11. CASE RequestSplit
  <2> PICK w, a : w = worker' /\ a = Available("split")
    BY Zenon
  <2>1. worker.at = "split" /\ UNCHANGED <<entry, tlb, peeked, hookVars, coreVars, dpc>>
    BY <1>11, Zenon DEF RequestSplit, InRequest, eptVars
  <2>2. w = Resting \/ w = [worker EXCEPT !.at = "tables", !.buffer = a]
    BY <1>11, Zenon DEF RequestSplit
  <2>3. w.at = "idle" \/ (w.at = "tables" /\ w.page = worker.page)
    <3>1. CASE w = Resting
      BY <3>1 DEF Resting
    <3>2. CASE w = [worker EXCEPT !.at = "tables", !.buffer = a]
      BY <3>2, Zenon DEF Holders
    <3> QED  BY <2>2, <3>1, <3>2, Zenon
  <2>4. worker.page \in Pages
    BY <2>1, Zenon DEF Job, Preparing
  <2> QED  BY <1>8, <2>1, <2>3, <2>4, Zenon
<1>12. CASE EptSplitLargePage
  <2> PICK w : w = worker'
    BY Zenon
  <2>1. worker.at = "tables" /\ UNCHANGED <<entry, tlb, peeked, hookVars, coreVars, dpc>>
    BY <1>12, Zenon DEF EptSplitLargePage, InRequest
  <2>2. w.at = "track" /\ w.page = worker.page
    BY <1>12, Zenon DEF EptSplitLargePage, Goto, Holders
  <2>3. worker.page \in Pages
    BY <2>1, Zenon DEF Job, Preparing
  <2> QED  BY <1>8, <2>1, <2>2, <2>3, Zenon
<1>13. CASE RequestRecord
  <2> PICK w, a : w = worker' /\ a = Available("track")
    BY Zenon
  <2>1. worker.at = "track" /\ UNCHANGED <<entry, tlb, peeked, hookVars, coreVars, dpc>>
    BY <1>13, Zenon DEF RequestRecord, InRequest, eptVars
  <2>2. w.page = worker.page /\ w.record = a /\ (w.at = "undo" \/ (a # NoPool /\ w.at \in {"tramp", "install"}))
    BY <1>13, Zenon DEF RequestRecord, Holders
  <2>3. a = NoPool \/ (a \in DOMAIN pools /\ ~pools[a].IsBusy)
    BY AvailableOK, Zenon
  <2>4. a # NoPool => a \notin DOMAIN hooked
    BY <2>3, Zenon DEF Holders, Given
  <2>5. worker.page \in Pages
    BY <2>1, Zenon DEF Job, Preparing
  <2> QED  BY <1>8, <2>1, <2>2, <2>4, <2>5, Zenon
<1>14. CASE RequestTrampoline \/ RequestDetails \/ PastPageBoundary
  <2> PICK w : w = worker'
    OBVIOUS
  <2>1. worker.at \in {"tramp", "details"} /\ UNCHANGED <<entry, tlb, peeked, hookVars, coreVars, dpc>>
    BY <1>14, Zenon DEF RequestTrampoline, RequestDetails, PastPageBoundary, InRequest, eptVars
  <2>2. /\ w.page = worker.page /\ w.record = worker.record
        /\ w.at \in {"undo", "details", "crashed", "install"}
    <3>1. CASE RequestTrampoline
      BY <3>1, Zenon DEF RequestTrampoline, Holders
    <3>2. CASE RequestDetails
      BY <3>2, Zenon DEF RequestDetails, Holders
    <3>3. CASE PastPageBoundary
      BY <3>3, Zenon DEF PastPageBoundary, Goto, Holders
    <3> QED  BY <1>14, <3>1, <3>2, <3>3, Zenon
  <2>3. worker.page \in Pages /\ worker.record \notin DOMAIN hooked \cup {NoPool}
    BY <2>1, Zenon DEF Job, Preparing
  <2> QED  BY <1>8, <2>1, <2>2, <2>3, Zenon
<1>15. CASE Undo \/ EndHook
  <2> PICK w : w = worker'
    BY Zenon
  <2>1. /\ worker.at = "undo" \/ (worker.at = "invalidate" /\ dpc = {})
        /\ UNCHANGED <<entry, tlb, peeked, hookVars, coreVars, dpc>>
    BY <1>15, Zenon DEF Undo, EndHook, InRequest, eptVars
  <2>2. w.at = "idle"
    BY <1>15 DEF Undo, EndHook, Resting
  <2> QED  BY <1>8, <2>1, <2>2, Zenon
<1>16. CASE EptHookUnHookSingleAddress
  <2> PICK w, a : w = worker' /\ a = UnhookTarget
    BY Zenon
  <2>1. worker.at = "find" /\ UNCHANGED <<entry, tlb, peeked, hookVars, coreVars>>
    BY <1>16, Zenon DEF EptHookUnHookSingleAddress, InRequest, eptVars
  <2>2. CASE w = Resting /\ dpc' = dpc
    <3>1. w.at = "idle"
      BY <2>2 DEF Resting
    <3> QED  BY <1>8, <2>1, <2>2, <3>1, Zenon
  <2>3. CASE /\ a # NoPool /\ hooked[a].page = worker.page
             /\ w = [worker EXCEPT !.at = "unhookOne", !.record = a] /\ dpc' = Cores
    <3>1. w.at = "unhookOne" /\ w.record = a /\ w.page = worker.page
      BY <2>3, Zenon DEF Holders
    <3>2. dpc = {} /\ ~Final
      BY <2>1, NoDpc, Zenon DEF Final
    <3>3. UNCHANGED <<entry, tlb, peeked, hooked, listed, unhookedOne, trap, restore>>
      BY <2>1, Zenon DEF hookVars, coreVars
    <3>4. Machine'
      BY <2>3, <3>1, <3>2, <3>3, DpcAsked, Zenon
    <3>5. a \in DOMAIN hooked
      BY <2>3, TargetListed, Zenon DEF Holders
    <3> QED  BY <2>3, <3>1, <3>3, <3>4, <3>5, Zenon DEF Job, Preparing
  <2> QED  BY <1>16, <2>2, <2>3, Zenon DEF EptHookUnHookSingleAddress
<1>17. CASE RestoreAll
  <2>1. /\ worker.at = "restoreAll" /\ dpc' = Cores
        /\ UNCHANGED <<entry, tlb, peeked, hooked, listed, unhookedOne, trap, restore>>
    BY <1>17, Zenon DEF RestoreAll, InRequest, eptVars, hookVars, coreVars
  <2>2. worker'.at = "unhookAll"
    BY <1>17, Zenon DEF RestoreAll, Goto, Holders
  <2>3. dpc = {} /\ ~Final
    BY <2>1, NoDpc, Zenon DEF Final
  <2>4. Machine'
    BY <2>1, <2>2, <2>3, DpcAsked, Zenon
  <2> QED  BY <2>2, <2>4, Zenon DEF Job, Preparing
<1>18. CASE EptHookUnHookAll
  <2>1. worker.at = "unhookAll" /\ dpc = {} /\ UNCHANGED machine
    BY <1>18, Zenon DEF EptHookUnHookAll, InRequest, eptVars, hookVars, coreVars, machine
  <2>2. worker'.at = "off"
    BY <1>18, Zenon DEF EptHookUnHookAll, Goto, Holders
  <2>3. Final' = Final
    BY <2>1, <2>2 DEF Final
  <2>4. Machine'
    BY <2>1, <2>3, WorkerGoesOn, Zenon
  <2> QED  BY <2>2, <2>4, Zenon DEF Job, Preparing
<1>19. ASSUME UNCHANGED <<machine, worker>> PROVE Machine' /\ Job'
  <2>1. Final' = Final /\ UNCHANGED hooked
    BY <1>19, Zenon DEF Final, machine
  <2> QED  BY <1>1, <1>19, <2>1, WorkerGoesOn, Zenon
<1>20. ASSUME NEW t \in Threads, OtherIoctl(t) \/ AllocationPass(t) PROVE Machine' /\ Job'
  <2>1. UNCHANGED <<machine, worker>>
    BY <1>20, Zenon DEF OtherIoctl, AllocationPass, machine, eptVars, hookVars, coreVars, workVars
  <2> QED  BY <1>19, <2>1, Zenon
<1>21. CASE UNCHANGED vars
  <2>1. UNCHANGED <<machine, worker>>
    BY <1>21, Zenon DEF vars, machine, eptVars, hookVars, coreVars, workVars
  <2> QED  BY <1>19, <2>1, Zenon
<1> QED
  BY <1>2, <1>3, <1>4, <1>5, <1>6, <1>7, <1>9, <1>10, <1>11, <1>12, <1>13, <1>14, <1>15, <1>16, <1>17,
     <1>18, <1>20, <1>21, Zenon DEF Next

\* No page is hooked when the driver starts.
LEMMA HookInit == Init => Machine /\ Job
<1> SUFFICES ASSUME Init PROVE Machine /\ Job
  BY Zenon
<1>1. /\ entry = [p \in Pages |-> Identity] /\ tlb = [c \in Cores |-> [p \in Pages |-> NotCached]]
      /\ hooked = <<>> /\ listed = {} /\ unhookedOne = {}
      /\ trap = [c \in Cores |-> NoTrap] /\ restore = [c \in Cores |-> NoRestore]
      /\ worker = Resting /\ dpc = {}
  BY Zenon DEF Init
<1>2. NoTrap \in Traps /\ NoRestore \in Restores /\ worker.at = "idle"
  BY <1>1, Zenon DEF NoTrap, NoRestore, Traps, Restores, NoPool, Resting
<1>3. Typed
  BY <1>1, <1>2 DEF Typed, Identity, NotCached
<1>4. DOMAIN hooked = {} /\ (\A p : RecordsOf(p) = {})
  BY <1>1 DEF RecordsOf
<1>5. Records /\ Entries /\ Waiting
  BY <1>1, <1>4, Zenon DEF Records, Entries, Waiting
<1>6. CoresOK /\ Cached
  BY <1>1, <1>4, Zenon DEF CoresOK, CoreOK, Cached, CachedOK
<1>7. Restored /\ Job
  BY <1>2, Zenon DEF Restored, Final, Job, Preparing
<1> QED  BY <1>3, <1>5, <1>6, <1>7, Zenon DEF Machine

\* The invariant of the hooks holds of every run in which the table of buffers is
\* not corrupted.
LEMMA HooksInv ==
  ASSUME ~Overtaking
  PROVE  Spec => [](Machine /\ Job)
<1>1. Init => IInv /\ Machine /\ Job
  BY InitOK, HookInit, Zenon
<1>2. IInv /\ Machine /\ Job /\ [Next]_vars => IInv' /\ Machine' /\ Job'
  BY NextStep, HookStep, Zenon
<1> QED  BY <1>1, <1>2, PTL DEF Spec

\* Hidden breakpoints, detours and monitors of EptHook.c: whenever no core
\* steps over a page's hook the page's entry is the hook's, and a core runs
\* past it only with a translation cached while another core had the original
\* entry swapped in; for every number of cores, pages, hooks and removals, if
\* no instruction touches two hooked pages and no insertion into the table of
\* buffers is overtaken.
THEOREM HooksStayInForce ==
  ASSUME ~TwoPageAccess, ~Overtaking
  PROVE  Spec => []HookInForce
<1>1. Machine /\ Job => HookInForce
  BY InForceHolds, Zenon DEF Machine, HookInv
<1> QED  BY <1>1, HooksInv, PTL

\* EptHookUnHookAll: once it is over every page that no single removal left
\* behind has its own entry on every core, and no core is to put a hook back;
\* for every number of cores, pages and hooks, whatever an instruction touches, if
\* no insertion into the table of buffers is overtaken.
THEOREM RemovingAllRestores ==
  ASSUME ~Overtaking
  PROVE  Spec => []UnhookAllRestores
<1>1. Machine /\ Job => UnhookAllRestores
  BY AllRestored, Zenon DEF Machine, HookInv
<1> QED  BY <1>1, HooksInv, PTL
=============================================================================
