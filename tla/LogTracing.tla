----------------------------- MODULE LogTracing -----------------------------
(* Message tracing of the driver (Logging.c): code in vmx-root and in vmx    *)
(* non-root leaves messages in two pools, each with a ring of regular and a  *)
(* ring of priority buffers; the user-mode application keeps one IRP         *)
(* pending, which a DPC completes with one message.  Each pool has a lock of *)
(* its own, and g_GlobalNotifyRecord, which both pools and the IRP           *)
(* registration use, has none.                                               *)
EXTENDS Integers, FiniteSets

CONSTANTS
    Capacity,          \* MaximumPacketsCapacity
    CapacityPriority,  \* MaximumPacketsCapacityPriority
    PacketChunkSize,
    Lengths,           \* lengths of non-immediate messages
    Texts,             \* messages that code sends
    Sources,           \* rings that code sends Texts to
    Accumulated,       \* pools that code sends non-immediate messages to
    MaxUnread,         \* bound: Texts are sent while fewer messages wait in all rings
    Races              \* subset of {"overrun", "notify", "register"}

Pools == {"nonroot", "root"}
Rings == Pools \X BOOLEAN        \* <<pool, Priority>>
Empty == "empty"                 \* a BUFFER_HEADER that is not Valid
Batch == "batch"                 \* accumulated non-immediate messages
EndOfIrps == "endofirps"         \* OPERATION_HYPERVISOR_DRIVER_END_OF_IRPS
Loaded == "loaded"               \* OPERATION_HYPERVISOR_DRIVER_IS_SUCCESSFULLY_LOADED
Messages == Texts \cup {Batch, EndOfIrps, Loaded}
NoPool == "none"

ASSUME LogAssumption ==
    /\ Capacity \in Nat /\ Capacity >= 2
    /\ CapacityPriority \in Nat /\ CapacityPriority >= 2
    /\ PacketChunkSize \in Nat /\ PacketChunkSize >= 2
    /\ Lengths \subseteq 1 .. PacketChunkSize - 1
    /\ Texts \cap {Empty, "none", "checked", "pending", "failed"} = {}
    /\ Sources \subseteq Rings /\ Accumulated \subseteq Pools

VARIABLES
    slots,    \* per ring: the buffers, Empty where Valid is FALSE
    write,    \* per ring: CurrentIndexToWrite[Priority]
    send,     \* per ring: CurrentIndexToSend[Priority]
    nonImm,   \* per pool: CurrentLengthOfNonImmBuffer
    sender,   \* per pool: where the holder of the pool's lock is in LogSendBuffer
    record,   \* g_GlobalNotifyRecord is not NULL
    dpc,      \* the record's DPC is queued, for this pool (CheckVmxRootMessagePool)
    irp       \* the reader's IRP, or the message that completed it

rings == <<slots, write, send>>
logVars == <<slots, write, send, nonImm, sender, record, dpc, irp>>

Size(r) == IF r[2] THEN CapacityPriority ELSE Capacity
Unread == {m \in Rings \X (0 .. Capacity + CapacityPriority) :
              m[2] < Size(m[1]) /\ slots[m[1]][m[2]] # Empty}

LogTypeOK ==
    /\ \A r \in Rings : /\ slots[r] \in [0 .. Size(r) - 1 -> Messages \cup {Empty}]
                        /\ write[r] \in 0 .. Size(r)
                        /\ send[r] \in 0 .. Size(r) - 1
    /\ nonImm \in [Pools -> 0 .. PacketChunkSize - 1]
    /\ sender \in [Pools -> {"idle", "notify", "found", "queued"}]
    /\ record \in BOOLEAN
    /\ dpc \in Pools \cup {NoPool}
    /\ irp \in {"none", "checked", "pending", "failed"} \cup Messages

LogInitialize ==
    /\ slots = [r \in Rings |-> [i \in 0 .. Size(r) - 1 |-> Empty]]
    /\ write = [r \in Rings |-> 0] /\ send = [r \in Rings |-> 0]
    /\ nonImm = [p \in Pools |-> 0]
    /\ sender = [p \in Pools |-> "idle"]
    /\ record = FALSE /\ dpc = NoPool /\ irp = "none"

\* LogUnInitialize frees the buffers; the next load of the driver image starts
\* with new ones and with its globals zeroed.
LogUnInitialize ==
    /\ slots' = [r \in Rings |-> [i \in 0 .. Size(r) - 1 |-> Empty]]
    /\ write' = [r \in Rings |-> 0] /\ send' = [r \in Rings |-> 0]
    /\ nonImm' = [p \in Pools |-> 0]
    /\ record' = FALSE
    /\ UNCHANGED <<sender, dpc, irp>>
-----------------------------------------------------------------------------
(* Writing                                                                   *)

\* The buffer the next message of ring r goes to: past the last one, the first.
WriteIndex(r) == IF write[r] > Size(r) - 1 THEN 0 ELSE write[r]

\* LogSendBuffer's header, copy and index, under the pool's lock.  The code
\* does not look at the old header: at a full ring it overwrites a message that
\* was not read, which only happens here with "overrun".  A message that arrives
\* between the tests and the last branch of the registration is one of "register".
LogSendBuffer(r, m) ==
    /\ sender[r[1]] = "idle"
    /\ "overrun" \in Races \/ slots[r][WriteIndex(r)] = Empty
    /\ "register" \in Races \/ irp # "checked"
    /\ slots' = [slots EXCEPT ![r][WriteIndex(r)] = m]
    /\ write' = [write EXCEPT ![r] = WriteIndex(r) + 1]
    /\ sender' = [sender EXCEPT ![r[1]] = "notify"]
    /\ UNCHANGED <<send, record, dpc, irp>>

\* The other pool's sender is not between its test and its reset of the record.
OtherOutside(p) == \A q \in Pools \ {p} : sender[q] \notin {"found", "queued"}

\* LogSendBuffer's test of g_GlobalNotifyRecord, still under the pool's lock.
NotifyTest(p) ==
    /\ sender[p] = "notify"
    /\ "notify" \in Races \/ OtherOutside(p)
    /\ sender' = [sender EXCEPT ![p] = IF record THEN "found" ELSE "idle"]
    /\ UNCHANGED <<rings, nonImm, record, dpc, irp>>

\* Sets CheckVmxRootMessagePool and queues the DPC through the pointer, which a
\* sender of the other pool may have reset meanwhile.
NotifyQueue(p) ==
    /\ sender[p] = "found"
    /\ dpc' = IF record THEN p ELSE dpc
    /\ sender' = [sender EXCEPT ![p] = "queued"]
    /\ UNCHANGED <<rings, nonImm, record, irp>>

\* Not LogSendBuffer: the record stays registered.
QueuedAndKept(p) ==
    /\ sender[p] = "queued"
    /\ sender' = [sender EXCEPT ![p] = "idle"]
    /\ UNCHANGED <<rings, nonImm, record, dpc, irp>>

\* Resets g_GlobalNotifyRecord and releases the lock.
NotifyReset(p) ==
    /\ sender[p] = "queued"
    /\ record' = FALSE
    /\ sender' = [sender EXCEPT ![p] = "idle"]
    /\ UNCHANGED <<rings, nonImm, dpc, irp>>

\* The message still fits behind the accumulated ones, with its final zero.
Fits(p, len) == nonImm[p] + len <= PacketChunkSize - 1

\* LogSendMessageToQueue for a message that is not immediate: accumulated, after
\* what is there has been sent if the message does not fit behind it.
LogSendMessageToQueue(p, len) ==
    IF Fits(p, len) \/ nonImm[p] = 0
    THEN /\ nonImm' = [nonImm EXCEPT ![p] = @ + len]
         /\ UNCHANGED <<rings, sender, record, dpc, irp>>
    ELSE /\ LogSendBuffer(<<p, FALSE>>, Batch)
         /\ nonImm' = [nonImm EXCEPT ![p] = len]
-----------------------------------------------------------------------------
(* Reading                                                                   *)

LogCheckForNewMessage(r) == slots[r][send[r]] # Empty

\* Not LogReadBuffer: past the last buffer comes the second.
AdvanceToSecond(r) == IF send[r] > Size(r) - 2 THEN 1 ELSE send[r] + 1

Advanced(r) == IF send[r] > Size(r) - 2 THEN 0 ELSE send[r] + 1

\* Takes the message of ring r that is next to send.
Take(r) ==
    /\ slots' = [slots EXCEPT ![r][send[r]] = Empty]
    /\ send' = [send EXCEPT ![r] = Advanced(r)]
    /\ UNCHANGED write

\* LogNotifyUsermodeCallback, with LogReadBuffer under the pool's lock: completes
\* the IRP with a message, or with an error if the pool has none.
LogNotifyUsermodeCallback ==
    /\ dpc # NoPool
    /\ \A p \in Pools : sender[p] # "queued"
    /\ sender[dpc] = "idle"
    /\ LET ready == {prio \in BOOLEAN : LogCheckForNewMessage(<<dpc, prio>>)} IN
       IF ready = {}
       THEN irp' = "failed" /\ UNCHANGED rings
       ELSE LET r == <<dpc, TRUE \in ready>> IN irp' = slots[r][send[r]] /\ Take(r)
    /\ dpc' = NoPool
    /\ UNCHANGED <<nonImm, sender, record>>

\* The number of messages LogMarkAllAsRead finds from the send index on.
Marked(r) ==
    Cardinality({n \in 0 .. Size(r) - 1 :
                    \A k \in 0 .. n : slots[r][(send[r] + k) % Size(r)] # Empty})

\* LogMarkAllAsRead: the regular ring of the pool, up to the first buffer that
\* is not Valid.
LogMarkAllAsRead(p) ==
    LET r == <<p, FALSE>> IN
    /\ sender[p] = "idle"
    /\ slots' = [slots EXCEPT ![r] = [i \in DOMAIN @ |->
                    IF (i + Size(r) - send[r]) % Size(r) < Marked(r) THEN Empty ELSE @[i]]]
    /\ send' = [send EXCEPT ![r] = (@ + Marked(r)) % Size(r)]
    /\ UNCHANGED <<write, nonImm, sender, record, dpc, irp>>

\* Not LogRegisterIrpBasedNotification: looks at the priority rings only.
RegisterUrgent ==
    /\ irp = "none" /\ ~record
    /\ LET pick == {p \in Pools : LogCheckForNewMessage(<<p, TRUE>>)} IN
       IF pick = {}
       THEN irp' = "checked" /\ UNCHANGED dpc
       ELSE irp' = "pending" /\ dpc' = IF "nonroot" \in pick THEN "nonroot" ELSE "root"
    /\ UNCHANGED <<rings, nonImm, sender, record>>

\* LogRegisterIrpBasedNotification: the four tests, without a lock, in the
\* code's order; a message that is there completes the IRP at once.
LogRegisterIrpBasedNotification ==
    /\ irp = "none" /\ ~record
    /\ LET ready == {r \in Rings : LogCheckForNewMessage(r)}
           urgent == {r \in ready : r[2]}
           pick == {r[1] : r \in IF urgent # {} THEN urgent ELSE ready} IN
       IF ready = {}
       THEN irp' = "checked" /\ UNCHANGED dpc
       ELSE irp' = "pending" /\ dpc' = IF "nonroot" \in pick THEN "nonroot" ELSE "root"
    /\ UNCHANGED <<rings, nonImm, sender, record>>

\* Its last branch: the record waits for the next message.
RegisterRecord ==
    /\ irp = "checked"
    /\ record' = TRUE /\ irp' = "pending"
    /\ UNCHANGED <<rings, nonImm, sender, dpc>>
=============================================================================
