------------------------------ MODULE SysvIpc ------------------------------
(***************************************************************************)
(* System V message queues and shared memory (ipc/msg.rs, ipc/shm.rs,      *)
(* syscall/ipc.rs) in one IPC namespace, whose lock every call holds while *)
(* it changes the tables.  Identifiers come from a RecycleAllocator, the   *)
(* last one freed first, so an identifier soon names another object.       *)
(* Only shmdt lets go of the lock half way: it takes the record of the     *)
(* attachment and reduces the count, and unmaps afterwards.                *)
(*                                                                         *)
(* A text is a length and a serial number.  A mode says whether others may *)
(* read and write; the owner always may.                                   *)
(***************************************************************************)
EXTENDS Integers, Sequences, FiniteSets, FiniteSetsExt, SequencesExt

CONSTANTS Process,
          Root,       \* the processes of user 0; every other one has a user of its own
          Keys,       \* keys other than IPC_PRIVATE
          Types, Lengths,
          QueueMax,   \* MSG_Q_MAX
          QBytes,     \* msg_qbytes that queues start with and that IPC_SET chooses from
          Addresses,  \* a number of places for a segment in an address space
          CallSets,   \* the mixes of calls: of "msg" and "shm"
          MaxIpc      \* bound on the number of calls

VARIABLES uses,           \* the mix of calls of this behaviour
          msgId, shmId,   \* the two allocators
          queue,          \* queues: of each identifier, or Nothing
          keyToId,        \* key_to_id
          shm,            \* shms: of each identifier, or Nothing
          attachments,    \* address to identifier
          space,          \* what each process has mapped: address to serial of a segment
          detaching,      \* the address a process is about to unmap, or 0
          history,        \* history: what is in the queue of each serial number, in order
          calls

ipcVars == <<uses, msgId, shmId, queue, keyToId, shm, attachments, space, detaching, history, calls>>

Private == 0
Nothing == [key |-> -1]
Id == 0 .. MaxIpc
Address == 1 .. Addresses
Begin(kind) == kind \in uses /\ calls < MaxIpc /\ calls' = calls + 1 /\ UNCHANGED uses

(* RecycleAllocator.                                                       *)
Alloc(a) == IF a.recycled # << >> THEN Last(a.recycled) ELSE a.current
Allocated(a) == IF a.recycled # << >> THEN [a EXCEPT !.recycled = Front(@)] ELSE [a EXCEPT !.current = @ + 1]
Dealloc(a, i) == [a EXCEPT !.recycled = Append(@, i)]

(* PermStat and ipc_owner_check.                                           *)
CanAccess(o, p) == p \in Root \/ o.uid = p \/ o.open
OwnerCheck(o, p) == p \in Root \/ o.uid = p

-----------------------------------------------------------------------------
(* MsgManager::create_queue: an identifier above the limit is not returned *)
(* and not given back.                                                     *)
CreateQueue(p, k) ==
    LET i == Alloc(msgId) IN
    /\ msgId' = Allocated(msgId)
    /\ \E open \in BOOLEAN :
        IF i > QueueMax
        THEN UNCHANGED <<queue, keyToId, history>>
        ELSE /\ queue' = [queue EXCEPT ![i] = [key |-> k, uid |-> p, open |-> open, serial |-> calls,
                                                msgs |-> << >>, cbytes |-> 0, qbytes |-> Max(QBytes)]]
             /\ keyToId' = [keyToId EXCEPT ![k] = i]
             /\ history' = history @@ (calls :> << >>)
Msgget(p, k, creat) ==
    /\ Begin("msg")
    /\ IF k = Private \/ (keyToId[k] = -1 /\ creat)
       THEN CreateQueue(p, k)
       ELSE UNCHANGED <<msgId, queue, keyToId, history>>
    /\ UNCHANGED <<shmId, shm, attachments, space, detaching>>

(* MsgQueue::update_msqds, add.                                            *)
Bytes(s) == FoldLeft(LAMBDA n, m : n + m.len, 0, s)
Updated(q, s) == [q EXCEPT !.msgs = s, !.cbytes = Bytes(s)]
Msgsnd(p, i, type, len) ==
    LET q == queue[i]
        m == [type |-> type, len |-> len, serial |-> calls]
    IN /\ Begin("msg")
       /\ IF q # Nothing /\ CanAccess(q, p) /\ q.cbytes + len <= q.qbytes
          THEN /\ queue' = [queue EXCEPT ![i] = Updated(q, Append(q.msgs, m))]
               /\ history' = [history EXCEPT ![q.serial] = Append(@, m)]
          ELSE UNCHANGED <<queue, history>>
       /\ UNCHANGED <<msgId, keyToId, shmId, shm, attachments, space, detaching>>

(* MsgQueue::find_msg: 0 takes the first message, a positive type the      *)
(* first of that type (or, with MSG_EXCEPT, of another), a negative one    *)
(* the first of the smallest type up to its absolute value.                *)
Position(found) == IF found = {} THEN 0 ELSE Min(found)
FindMsg(s, typ, except) ==
    LET best[n \in 0 .. Len(s)] ==
            IF n = 0 THEN 0
            ELSE IF s[n].type <= -typ /\ (best[n - 1] = 0 \/ s[n].type < s[best[n - 1]].type) THEN n
            ELSE best[n - 1]
    IN IF s = << >> THEN 0
       ELSE IF typ = 0 THEN 1
       ELSE IF typ < 0 THEN best[Len(s)]
       ELSE IF except THEN Position({n \in DOMAIN s : s[n].type # typ})
       ELSE Position({n \in DOMAIN s : s[n].type = typ})

(* MsgQueue::get.  The message is gone even if it cannot be copied to the  *)
(* user afterwards.                                                        *)
Msgrcv(p, i, typ, size, noerror, except) ==
    LET q == queue[i]
        at == IF q = Nothing THEN 0 ELSE FindMsg(q.msgs, typ, except)
    IN /\ Begin("msg")
       /\ IF q # Nothing /\ at # 0 /\ CanAccess(q, p) /\ (q.msgs[at].len <= size \/ noerror)
          THEN /\ queue' = [queue EXCEPT ![i] = Updated(q, RemoveAt(q.msgs, at))]
               /\ history' = [history EXCEPT ![q.serial] = SelectSeq(@, LAMBDA m : m # q.msgs[at])]
          ELSE UNCHANGED <<queue, history>>
       /\ UNCHANGED <<msgId, keyToId, shmId, shm, attachments, space, detaching>>

(* sys_msgctl: apply_ipc_set, remove_queue.                                *)
MsgSet(p, i, bytes, open) ==
    /\ Begin("msg")
    /\ queue' = IF queue[i] # Nothing /\ (CanAccess(queue[i], p) \/ OwnerCheck(queue[i], p))
                THEN [queue EXCEPT ![i].qbytes = bytes, ![i].open = open] ELSE queue
    /\ UNCHANGED <<msgId, keyToId, shmId, shm, attachments, space, detaching, history>>
\* Mutant: the key of the removed queue is kept.
MsgRmidKeepsKey(p, i) ==
    /\ Begin("msg")
    /\ IF queue[i] # Nothing /\ OwnerCheck(queue[i], p)
       THEN /\ msgId' = Dealloc(msgId, i)
            /\ queue' = [queue EXCEPT ![i] = Nothing]
            /\ UNCHANGED keyToId
       ELSE UNCHANGED <<msgId, keyToId, queue>>
    /\ UNCHANGED <<shmId, shm, attachments, space, detaching, history>>
MsgRmid(p, i) ==
    /\ Begin("msg")
    /\ IF queue[i] # Nothing /\ OwnerCheck(queue[i], p)
       THEN /\ keyToId' = [keyToId EXCEPT ![queue[i].key] = -1]
            /\ msgId' = Dealloc(msgId, i)
            /\ queue' = [queue EXCEPT ![i] = Nothing]
       ELSE UNCHANGED <<msgId, keyToId, queue>>
    /\ UNCHANGED <<shmId, shm, attachments, space, detaching, history>>

-----------------------------------------------------------------------------
(* sys_shmget, get_shm_by_key and create_shm.                              *)
ByKey(k) == {i \in Id : shm[i].key = k}
Shmget(p, k, creat) ==
    /\ Begin("shm")
    /\ \E open \in BOOLEAN :
        IF creat /\ (k = Private \/ ByKey(k) = {})
        THEN /\ shm' = [shm EXCEPT ![Alloc(shmId)] = [key |-> k, uid |-> p, open |-> open,
                                                       serial |-> calls, nattch |-> 0]]
             /\ shmId' = Allocated(shmId)
        ELSE UNCHANGED <<shm, shmId>>
    /\ UNCHANGED <<msgId, queue, keyToId, attachments, space, detaching, history>>

(* sys_shmat: do_mmap finds the first free place of the process, and the   *)
(* address is recorded for the whole namespace.                            *)
Shmat(p, i) ==
    LET free == {a \in Address : space[p][a] = -1} IN
    /\ Begin("shm")
    /\ IF shm[i] # Nothing /\ CanAccess(shm[i], p) /\ free # {}
       THEN /\ space' = [space EXCEPT ![p][Min(free)] = shm[i].serial]
            /\ attachments' = [attachments EXCEPT ![Min(free)] = i]
            /\ shm' = [shm EXCEPT ![i].nattch = @ + 1]
       ELSE UNCHANGED <<space, attachments, shm>>
    /\ UNCHANGED <<msgId, shmId, queue, keyToId, detaching, history>>

(* sys_shmdt: take_attach and dec_nattch; then do_munmap.                  *)
Shmdt(p, a) ==
    /\ Begin("shm") /\ detaching[p] = 0
    /\ IF attachments[a] # -1
       THEN LET i == attachments[a] IN
            /\ attachments' = [attachments EXCEPT ![a] = -1]
            /\ shm' = IF shm[i] # Nothing /\ shm[i].nattch > 0 THEN [shm EXCEPT ![i].nattch = @ - 1] ELSE shm
            /\ detaching' = [detaching EXCEPT ![p] = a]
       ELSE UNCHANGED <<attachments, shm, detaching>>
    /\ UNCHANGED <<msgId, shmId, queue, keyToId, space, history>>
DoMunmap(p) ==
    /\ detaching[p] # 0
    /\ space' = [space EXCEPT ![p][detaching[p]] = -1]
    /\ detaching' = [detaching EXCEPT ![p] = 0]
    /\ UNCHANGED <<msgId, shmId, queue, keyToId, shm, attachments, history, calls, uses>>

(* sys_shmctl: IPC_SET and IPC_RMID, whatever is still attached.           *)
ShmSet(p, i, open) ==
    /\ Begin("shm")
    /\ shm' = IF shm[i] # Nothing /\ (OwnerCheck(shm[i], p) \/ CanAccess(shm[i], p))
              THEN [shm EXCEPT ![i].open = open] ELSE shm
    /\ UNCHANGED <<msgId, shmId, queue, keyToId, attachments, space, detaching, history>>
ShmRmid(p, i) ==
    /\ Begin("shm")
    /\ IF shm[i] # Nothing /\ OwnerCheck(shm[i], p)
       THEN shm' = [shm EXCEPT ![i] = Nothing] /\ shmId' = Dealloc(shmId, i)
       ELSE UNCHANGED <<shm, shmId>>
    /\ UNCHANGED <<msgId, queue, keyToId, attachments, space, detaching, history>>

-----------------------------------------------------------------------------
IpcInit ==
    /\ uses \in CallSets
    /\ msgId = [current |-> 1, recycled |-> << >>]
    /\ shmId = [current |-> 0, recycled |-> << >>]
    /\ queue = [i \in Id |-> Nothing] /\ shm = [i \in Id |-> Nothing]
    /\ keyToId = [k \in Keys \cup {Private} |-> -1]
    /\ attachments = [a \in Address |-> -1]
    /\ space = [p \in Process |-> [a \in Address |-> -1]]
    /\ detaching = [p \in Process |-> 0]
    /\ history = << >> /\ calls = 0

IpcNext ==
    \E p \in Process :
        \/ \E k \in Keys \cup {Private}, creat \in BOOLEAN : Msgget(p, k, creat) \/ Shmget(p, k, creat)
        \/ \E i \in Id :
            \/ \E t \in Types, n \in Lengths : Msgsnd(p, i, t, n)
            \/ \E t \in {0} \cup Types \cup {-u : u \in Types}, n \in Lengths, e, x \in BOOLEAN :
                Msgrcv(p, i, t, n, e, x)
            \/ \E b \in QBytes, o \in BOOLEAN : MsgSet(p, i, b, o)
            \/ MsgRmid(p, i) \/ Shmat(p, i) \/ ShmRmid(p, i)
            \/ \E o \in BOOLEAN : ShmSet(p, i, o)
        \/ \E a \in Address : Shmdt(p, a)
        \/ DoMunmap(p)

IpcSpec == IpcInit /\ [][IpcNext]_ipcVars

-----------------------------------------------------------------------------
(* The message that a receiver of type typ is owed, by the manual.         *)
Owed(s, typ, except) ==
    LET fits == {i \in DOMAIN s : CASE typ = 0 -> TRUE
                                    [] typ > 0 -> (s[i].type = typ) # except
                                    [] typ < 0 -> s[i].type <= -typ}
        best == IF typ < 0 THEN {i \in fits : \A j \in fits : s[i].type <= s[j].type} ELSE fits
    IN IF best = {} THEN 0 ELSE Min(best)

Live(T) == {i \in Id : T[i] # Nothing}
IdsExact(a, T) == Live(T) \cap Range(a.recycled) = {} /\ \A i \in Live(T) : i < a.current
KeysExact(T) == \A i, j \in Live(T) : T[i].key = T[j].key /\ T[i].key # Private => i = j

(* However identifiers are reused and queues removed and made again: a key *)
(* names exactly the live object that was made with it, no identifier in   *)
(* use can be handed out again, a queue holds exactly the messages sent to *)
(* this very queue and not yet received, in order, with an exact count of  *)
(* bytes, and a receiver finds the message it is owed.                     *)
IpcExact ==
    /\ IdsExact(msgId, queue) /\ IdsExact(shmId, shm)
    /\ KeysExact(queue) /\ KeysExact(shm)
    /\ \A k \in Keys : keyToId[k] = -1 \/ queue[keyToId[k]].key = k
    /\ \A i \in Live(queue) :
        /\ queue[i].key # Private => keyToId[queue[i].key] = i
        /\ queue[i].msgs = history[queue[i].serial]
        /\ queue[i].cbytes = Bytes(queue[i].msgs)
        /\ \A t \in {0} \cup Types \cup {-u : u \in Types}, x \in BOOLEAN :
            FindMsg(queue[i].msgs, t, x) = Owed(queue[i].msgs, t, x)
=============================================================================
