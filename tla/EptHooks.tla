------------------------------ MODULE EptHooks ------------------------------
(* Page hooks through the extended page table (EptHook.c, Ept.c, Mtf.c, the  *)
(* DPCs of DpcRoutines.c): hidden breakpoints, detours and read/write        *)
(* monitors.  One page table serves all cores; each core caches translations *)
(* until it executes INVEPT.  A hooked page's record, the table a large page *)
(* is split into and a detour's trampoline and details are buffers of the    *)
(* pool manager.  Every hooked page holds one address of interest, so that   *)
(* the page stands for the address as well.                                  *)
EXTENDS PoolManager

CONSTANTS
    Cores,
    Pages,
    LargePage,       \* [Pages -> the 2MB page it is in]
    HookKinds,       \* subset of {"cc", "detour", "monitor"}
    MaxRequests,     \* bound on requests to hook and other threads' IOCTLs
    MaxUnhooks,      \* bound on requests to remove one hook
    TwoPageAccess,   \* an instruction may touch two hooked pages
    Worker           \* the thread that registers and clears events

Identity == 0        \* the entry that maps a page to itself with all access
NotCached == -1      \* no translation is cached
LargePages == {LargePage[p] : p \in Pages}

ASSUME HookAssumption ==
    /\ HookKinds \subseteq {"cc", "detour", "monitor"}
    /\ MaxRequests \in Nat /\ MaxUnhooks \in Nat
    /\ TwoPageAccess \in BOOLEAN /\ Worker \in Threads

VARIABLES
    table,      \* per large page: the split table's buffer, or NoPool
    entry,      \* PML1 entry of each page: Identity or the record of its hook
    tlb,        \* per core and page: the cached entry, or NotCached
    hooked,     \* g_EptState->HookedPagesList: the records, by buffer
    listed,     \* the records that are linked
    trap,       \* per core: the page of a vm-exit that is to be handled
    restore,    \* per core: MtfEptHookRestorePoint, and how the page was accessed
    peeked,     \* history: <<core, page>> cached while another core had the entry swapped
    worker,     \* what the worker thread does
    dpc,        \* cores that have still to run the DPC it waits for
    hooks, unhooks, passes,   \* requests so far
    unhookedOne       \* history: pages whose hook was removed singly

eptVars  == <<table, entry, tlb, peeked>>
hookVars == <<hooked, listed, unhookedOne>>
coreVars == <<trap, restore>>
workVars == <<worker, dpc, hooks, unhooks, passes>>
vars     == <<poolVars, eptVars, hookVars, coreVars, workVars>>

NoPage == "nopage"
Accesses == {"exec", "data"}
NoRestore == [record |-> NoPool, access |-> "none"]
Resting == [at |-> "idle", page |-> NoPage, kind |-> "none", buffer |-> NoPool,
            record |-> NoPool, tramp |-> NoPool, details |-> NoPool]

TypeOK ==
    /\ PoolTypeOK
    /\ table \in [LargePages -> 0 .. lastPool]
    /\ entry \in [Pages -> 0 .. lastPool]
    /\ tlb \in [Cores -> [Pages -> -1 .. lastPool]]
    /\ listed \subseteq DOMAIN hooked /\ DOMAIN hooked \subseteq 1 .. lastPool
    /\ \A r \in DOMAIN hooked :
         hooked[r] \in [page : Pages, kind : HookKinds, original : 0 .. lastPool,
                        details : 0 .. lastPool, nth : 1 .. MaxRequests]
    /\ trap \in [Cores -> [page : Pages \cup {NoPage}, exit : {"none", "violation", "breakpoint"}]]
    /\ restore \in [Cores -> [record : 0 .. lastPool, access : Accesses \cup {"none"}]]
    /\ peeked \subseteq Cores \X Pages /\ dpc \subseteq Cores
    /\ worker.at \in {"idle", "split", "tables", "track", "tramp", "details", "install", "undo",
                      "invalidate", "find", "unhookOne", "restoreAll", "unhookAll", "crashed", "off"}
    /\ hooks + passes \in 0 .. MaxRequests /\ unhooks \in 0 .. MaxUnhooks
    /\ unhookedOne \subseteq Pages

NoTrap == [page |-> NoPage, exit |-> "none"]

Init ==
    /\ PoolManagerInitialize
    /\ table = [g \in LargePages |-> NoPool]
    /\ entry = [p \in Pages |-> Identity]
    /\ tlb = [c \in Cores |-> [p \in Pages |-> NotCached]]
    /\ hooked = <<>> /\ listed = {} /\ unhookedOne = {}
    /\ trap = [c \in Cores |-> NoTrap]
    /\ restore = [c \in Cores |-> NoRestore]
    /\ peeked = {} /\ worker = Resting /\ dpc = {} /\ hooks = 0 /\ unhooks = 0 /\ passes = 0
-----------------------------------------------------------------------------
(* The page table                                                            *)

NothingCached == [p \in Pages |-> NotCached]

Invept(c) ==
    /\ tlb' = [tlb EXCEPT ![c] = NothingCached]
    /\ peeked' = {x \in peeked : x[1] # c}

\* EptSetPML1AndInvalidateTLB: one core's cache is invalidated, the caller's.
EptSetPML1AndInvalidateTLB(c, p, value) ==
    /\ entry' = [entry EXCEPT ![p] = value]
    /\ Invept(c)

RecordsOf(p) == {r \in listed : hooked[r].page = p}

\* InsertHeadList: the list has the record of the latest request first.
Newest(S) == IF S = {} THEN NoPool
             ELSE CHOOSE r \in S : \A s \in S : hooked[s].nth <= hooked[r].nth
Oldest(S) == CHOOSE r \in S : \A s \in S : hooked[r].nth <= hooked[s].nth

\* EptHookFindByPhysAddress and the other walks of the list: newest first.
FirstRecordOf(p) == Newest(RecordsOf(p))
-----------------------------------------------------------------------------
(* The guest                                                                 *)

View(c, p) == IF tlb[c][p] = NotCached THEN entry[p] ELSE tlb[c][p]

\* The vm-exit an access causes under an entry: the fake page of a hidden
\* breakpoint has 0xcc; no hook allows reading and writing.
Exit(v, access) ==
    IF v = Identity THEN "none"
    ELSE IF access = "data" THEN "violation"
    ELSE IF hooked[v].kind = "cc" THEN "breakpoint" ELSE "none"

\* The core reads the page past its hook while another core has it swapped.
Peeks(c, p) == RecordsOf(p) # {} /\ tlb[c][p] = NotCached /\ entry[p] = Identity

\* A core that has run its DPC waits in it for the others.
Running(c) == trap[c] = NoTrap /\ worker.at \notin {"off", "crashed"} /\ (dpc = {} \/ c \in dpc)

\* One access of a core that is not stepping.
GuestAccess(c, p, access) ==
    /\ Running(c) /\ restore[c] = NoRestore
    /\ tlb' = [tlb EXCEPT ![c][p] = View(c, p)]
    /\ trap' = IF Exit(View(c, p), access) = "none" THEN trap
               ELSE [trap EXCEPT ![c] = [page |-> p, exit |-> Exit(View(c, p), access)]]
    /\ peeked' = IF Peeks(c, p) THEN peeked \cup {<<c, p>>} ELSE peeked
    /\ UNCHANGED <<poolVars, table, entry, hookVars, restore, workVars>>

\* The instruction under the monitor trap flag.  It exits again if the entry
\* has been changed back meanwhile, or for a second page it touches;
\* otherwise MtfHandleVmexit and EptHandleMonitorTrapFlag hook the page again.
StepInstruction(c, q) ==
    LET r == restore[c].record
        p == hooked[r].page
        again == Exit(View(c, p), restore[c].access)
        other == IF q = p THEN "none" ELSE Exit(View(c, q), "data") IN
    /\ Running(c) /\ restore[c] # NoRestore
    /\ q = p \/ TwoPageAccess
    /\ IF again # "none" \/ other # "none"
       THEN /\ trap' = [trap EXCEPT ![c] =
                          IF again # "none" THEN [page |-> p, exit |-> again]
                          ELSE [page |-> q, exit |-> other]]
            /\ UNCHANGED <<entry, tlb, peeked, restore>>
       ELSE /\ EptSetPML1AndInvalidateTLB(c, p, r)
            /\ restore' = [restore EXCEPT ![c] = NoRestore]
            /\ UNCHANGED trap
    /\ UNCHANGED <<poolVars, table, hookVars, workVars>>
-----------------------------------------------------------------------------
(* The vm-exit handlers                                                      *)

\* Mutant: the record is not saved for the step's end.
SwapWithoutRestorePoint(c, r, access) ==
    /\ EptSetPML1AndInvalidateTLB(c, hooked[r].page, hooked[r].original)
    /\ UNCHANGED restore

\* Swap the original entry of record r in, for one instruction.
SwapOriginal(c, r, access) ==
    /\ EptSetPML1AndInvalidateTLB(c, hooked[r].page, hooked[r].original)
    /\ restore' = [restore EXCEPT ![c] = [record |-> r, access |-> access]]

\* EptHandlePageHookExit; a violation of a page without a record is retried.
EptHandleEptViolation(c) ==
    LET r == FirstRecordOf(trap[c].page) IN
    /\ trap[c].exit = "violation"
    /\ IF r = NoPool THEN UNCHANGED <<entry, tlb, peeked, restore>>
       ELSE SwapOriginal(c, r, "data")
    /\ trap' = [trap EXCEPT ![c] = NoTrap]
    /\ UNCHANGED <<poolVars, table, hookVars, workVars>>

\* BreakpointCheckAndHandleEptHookBreakpoints: the loop does not stop at the
\* first record with the address, so the oldest one stays.
HandleHiddenBreakpoint(c) ==
    LET S == {r \in RecordsOf(trap[c].page) : hooked[r].kind = "cc"} IN
    /\ trap[c].exit = "breakpoint"
    /\ IF S = {} THEN UNCHANGED <<entry, tlb, peeked, restore>>
       ELSE SwapOriginal(c, Oldest(S), "exec")
    /\ trap' = [trap EXCEPT ![c] = NoTrap]
    /\ UNCHANGED <<poolVars, table, hookVars, workVars>>
-----------------------------------------------------------------------------
(* The DPCs the worker waits for                                             *)

Original(p) ==
    IF RecordsOf(p) = {} THEN entry[p]
    ELSE hooked[Oldest(RecordsOf(p))].original

\* EptHookRestoreAllHooksToOrginalEntry, newest record first.
EptHookRestoreAllHooksToOrginalEntry(c) ==
    /\ entry' = [p \in Pages |-> Original(p)]
    /\ IF listed = {} THEN UNCHANGED <<tlb, peeked>> ELSE Invept(c)

\* EptHookRestoreSingleHookToOrginalEntry: EptHookFindByPhysAddress assigns the
\* record it finds to its own copy of the pointer, so the caller's stays NULL
\* and nothing is restored.
EptHookRestoreSingleHookToOrginalEntry(c) == UNCHANGED <<entry, tlb, peeked>>

\* DpcRoutineInvalidateEptOnAllCores
InvalidateEpt(c) == Invept(c) /\ UNCHANGED entry

\* A DPC does not run between an exit and the end of the step that follows it.
RunDpc(c) ==
    /\ c \in dpc /\ trap[c] = NoTrap /\ restore[c] = NoRestore
    /\ CASE worker.at = "invalidate" -> InvalidateEpt(c)
         [] worker.at = "unhookOne" -> EptHookRestoreSingleHookToOrginalEntry(c)
         [] worker.at = "unhookAll" -> EptHookRestoreAllHooksToOrginalEntry(c)
    /\ dpc' = dpc \ {c}
    /\ UNCHANGED <<poolVars, table, hookVars, coreVars, worker, hooks, unhooks, passes>>
-----------------------------------------------------------------------------
(* The worker: registering and clearing events, each one an IOCTL            *)

Goto(at) == worker' = [worker EXCEPT !.at = at]

\* The IOCTL starts with an allocation pass, then does its request.
Ask(request) ==
    /\ worker = Resting /\ BeginPass(Worker)
    /\ worker' = request
    /\ UNCHANGED <<eptVars, hookVars, coreVars, dpc>>

AskHook(p, k) ==
    /\ hooks + passes < MaxRequests /\ hooks' = hooks + 1
    /\ Ask([Resting EXCEPT !.at = "split", !.page = p, !.kind = k])
    /\ UNCHANGED <<unhooks, passes>>

AskUnhook(p) ==
    /\ unhooks < MaxUnhooks /\ unhooks' = unhooks + 1 /\ RecordsOf(p) # {}
    /\ Ask([Resting EXCEPT !.at = "find", !.page = p])
    /\ UNCHANGED <<hooks, passes>>

AskTerminate == Ask([Resting EXCEPT !.at = "restoreAll"]) /\ UNCHANGED <<hooks, unhooks, passes>>

\* A step of the request itself, once the pass is over.
InRequest(at) == worker.at = at /\ pass[Worker] = Idle /\ UNCHANGED <<hooks, unhooks, passes>>

\* EptHookPerformPageHook2 refuses a page that has a record; for a hidden
\* breakpoint the search never finds one.  Then the table's buffer is taken.
RequestSplit ==
    /\ InRequest("split")
    /\ IF worker.kind # "cc" /\ RecordsOf(worker.page) # {}
       THEN worker' = Resting /\ UNCHANGED poolVars
       ELSE /\ PoolManagerRequestPool("split")
            /\ worker' = IF Available("split") = NoPool THEN Resting
                         ELSE [worker EXCEPT !.at = "tables", !.buffer = Available("split")]
    /\ UNCHANGED <<eptVars, hookVars, coreVars, dpc>>

\* EptSplitLargePage: a page that is split already gives the buffer back.
EptSplitLargePage ==
    LET g == LargePage[worker.page] IN
    /\ InRequest("tables")
    /\ IF table[g] # NoPool
       THEN PoolManagerFreePool({worker.buffer}) /\ UNCHANGED table
       ELSE table' = [table EXCEPT ![g] = worker.buffer] /\ UNCHANGED poolVars
    /\ Goto("track")
    /\ UNCHANGED <<entry, tlb, peeked, hookVars, coreVars, dpc>>

\* The record; without one the table's buffer is given back, linked or not.
RequestRecord ==
    /\ InRequest("track") /\ PoolManagerRequestPool("track")
    /\ worker' = [worker EXCEPT !.record = Available("track"),
                    !.at = IF Available("track") = NoPool THEN "undo"
                           ELSE IF worker.kind = "detour" THEN "tramp" ELSE "install"]
    /\ UNCHANGED <<eptVars, hookVars, coreVars, dpc>>

\* EptHookInstructionMemory refuses a function that ends past its page.
PastPageBoundary ==
    /\ InRequest("tramp") /\ Goto("undo")
    /\ UNCHANGED <<poolVars, eptVars, hookVars, coreVars, dpc>>

\* Its trampoline.
RequestTrampoline ==
    /\ InRequest("tramp") /\ PoolManagerRequestPool("tramp")
    /\ worker' = [worker EXCEPT !.tramp = Available("tramp"),
                    !.at = IF Available("tramp") = NoPool THEN "undo" ELSE "details"]
    /\ UNCHANGED <<eptVars, hookVars, coreVars, dpc>>

\* ... and the details, written without a test for NULL.
RequestDetails ==
    /\ InRequest("details") /\ PoolManagerRequestPool("details")
    /\ worker' = [worker EXCEPT !.details = Available("details"),
                    !.at = IF Available("details") = NoPool THEN "crashed" ELSE "install"]
    /\ UNCHANGED <<eptVars, hookVars, coreVars, dpc>>

\* The error path gives back the table's buffer and the record.
Undo ==
    /\ InRequest("undo") /\ PoolManagerFreePool({worker.buffer, worker.record} \ {NoPool})
    /\ worker' = Resting
    /\ UNCHANGED <<eptVars, hookVars, coreVars, dpc>>

\* The end of the hook's vmcall on core c: the record is linked and its entry
\* set there; the other cores are asked to invalidate.
Install(c, original) ==
    LET r == worker.record IN
    /\ InRequest("install") /\ Running(c) /\ restore[c] = NoRestore
    /\ hooked' = [s \in DOMAIN hooked \cup {r} |-> IF s # r THEN hooked[s] ELSE
                    [page |-> worker.page, kind |-> worker.kind, original |-> original,
                     details |-> worker.details, nth |-> hooks]]
    /\ listed' = listed \cup {r} /\ EptSetPML1AndInvalidateTLB(c, worker.page, r)
    /\ Goto("invalidate") /\ dpc' = Cores
    /\ UNCHANGED <<poolVars, table, coreVars, unhookedOne>>

\* Mutant: the entry is saved after it was changed.
InstallThenSave(c) == Install(c, worker.record)

InstallHook(c) == Install(c, entry[worker.page])

EndHook ==
    /\ InRequest("invalidate") /\ dpc = {} /\ worker' = Resting
    /\ UNCHANGED <<poolVars, eptVars, hookVars, coreVars, dpc>>

\* EptHookUnHookSingleAddress walks the list from its newest record: the first
\* hidden breakpoint decides, unless the page's record comes before it.
UnhookTarget ==
    Newest({r \in listed : hooked[r].kind = "cc" \/ hooked[r].page = worker.page})

EptHookUnHookSingleAddress ==
    /\ InRequest("find")
    /\ IF UnhookTarget # NoPool /\ hooked[UnhookTarget].page = worker.page
       THEN worker' = [worker EXCEPT !.at = "unhookOne", !.record = UnhookTarget] /\ dpc' = Cores
       ELSE worker' = Resting /\ UNCHANGED dpc
    /\ UNCHANGED <<poolVars, eptVars, hookVars, coreVars>>

\* The buffers of a record: itself and, for a detour, its details.
BuffersOf(r) == {r, hooked[r].details} \ {NoPool}

EndUnhook ==
    /\ InRequest("unhookOne") /\ dpc = {}
    /\ listed' = listed \ {worker.record} /\ unhookedOne' = unhookedOne \cup {worker.page}
    /\ PoolManagerFreePool(BuffersOf(worker.record))
    /\ worker' = Resting
    /\ UNCHANGED <<eptVars, hooked, coreVars, dpc>>

\* EptHookUnHookAll, called by VmxPerformTermination: the DPCs, then every
\* record is given back; the list itself is left.
RestoreAll ==
    /\ InRequest("restoreAll") /\ Goto("unhookAll") /\ dpc' = Cores
    /\ UNCHANGED <<poolVars, eptVars, hookVars, coreVars>>

EptHookUnHookAll ==
    /\ InRequest("unhookAll") /\ dpc = {}
    /\ PoolManagerFreePool(UNION {BuffersOf(r) : r \in listed})
    /\ Goto("off")
    /\ UNCHANGED <<eptVars, hookVars, coreVars, dpc>>
-----------------------------------------------------------------------------
\* Another thread of the application sends an IOCTL.
OtherIoctl(t) ==
    /\ t # Worker /\ worker.at \notin {"off", "crashed"} /\ hooks + passes < MaxRequests
    /\ BeginPass(t) /\ passes' = passes + 1
    /\ UNCHANGED <<eptVars, hookVars, coreVars, worker, dpc, hooks, unhooks>>

\* A thread goes on in its pass.
AllocationPass(t) == PassStep(t) /\ UNCHANGED <<eptVars, hookVars, coreVars, workVars>>

Next ==
    \/ \E c \in Cores, p \in Pages, access \in Accesses : GuestAccess(c, p, access)
    \/ \E c \in Cores, q \in Pages : StepInstruction(c, q)
    \/ \E c \in Cores : \/ EptHandleEptViolation(c) \/ HandleHiddenBreakpoint(c)
                        \/ RunDpc(c) \/ InstallHook(c)
    \/ \E p \in Pages, k \in HookKinds : AskHook(p, k)
    \/ \E p \in Pages : AskUnhook(p)
    \/ AskTerminate \/ RequestSplit \/ EptSplitLargePage \/ RequestRecord
    \/ PastPageBoundary \/ RequestTrampoline \/ RequestDetails \/ Undo \/ EndHook
    \/ EptHookUnHookSingleAddress \/ EndUnhook \/ RestoreAll \/ EptHookUnHookAll
    \/ \E t \in Threads : OtherIoctl(t) \/ AllocationPass(t)

Spec == Init /\ [][Next]_vars
-----------------------------------------------------------------------------
Stepping(c, p) == restore[c] # NoRestore /\ hooked[restore[c].record].page = p

\* Pages whose hooks are to be in force: no core is stepping over one.
InForce(p) ==
    /\ RecordsOf(p) # {} /\ p \notin unhookedOne /\ worker.at \notin {"unhookAll", "off"}
    /\ \A c \in Cores : ~Stepping(c, p)

\* Swapping a hooked page's entry for one instruction (EptHandlePageHookExit,
\* BreakpointCheckAndHandleEptHookBreakpoints) and back (MtfHandleVmexit) on
\* several cores at once always ends with the hook in force again.  Once EptHook
\* or EptHook2 has told every core to invalidate, a core runs past the hook only
\* with a translation it cached while another core had the original entry
\* swapped in: EptSetPML1AndInvalidateTLB invalidates only the calling core.
HookInForce ==
    \A p \in Pages : InForce(p) =>
        /\ entry[p] \in RecordsOf(p)
        /\ \A c \in Cores : View(c, p) = Identity => c \in dpc \/ <<c, p>> \in peeked

\* When EptHookUnHookAll is over every page has its own entry again and no
\* core has a hook cached or a restore point.
UnhookAllRestores ==
    worker.at = "off" =>
        /\ \A c \in Cores : restore[c] = NoRestore \/ hooked[restore[c].record].page \in unhookedOne
        /\ \A p \in Pages \ unhookedOne : \A c \in Cores : View(c, p) = Identity
=============================================================================
