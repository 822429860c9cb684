------------------------------ MODULE PipeProofs ------------------------------
(***************************************************************************)
(* What a pipe promises, proved for any readers and writers, any ring size *)
(* and any calls.  The argument: whoever looks at the other end does so    *)
(* with the buffer locked (Local), so what it found about the ring still   *)
(* holds when it decides; the ring holds the bytes between the last one    *)
(* read and the last one written (RingExact); and the strong count of an   *)
(* end is the number of threads that have it open or have upgraded it for  *)
(* a moment (Counted), so it never leaves zero again.                      *)
(***************************************************************************)
EXTENDS Pipe, FiniteSetTheorems, TLAPS

USE ZenonT(60)

Looks == {"upgrade", "downgrade"}
Wakes == {"wake_pop", "wake_look", "wake_task"}
Conts == {"read_eof", "read_data", "read_signal", "write_byte", "write_full", "block_sleep"}
Thens == Conts \cup {"return", "write_signal", "closed"}
Alone == {"user", "closed", "again", "return", "eof", "block", "block_look", "asleep", "woken",
          "write_signal"}
PCs   == Looks \cup Wakes \cup Conts \cup Alone

RingType ==
    /\ mem \in [0 .. Size - 1 -> Nat]
    /\ head \in 0 .. Size - 1 /\ tail \in 0 .. Size - 1
    /\ status \in {"Empty", "Normal", "Full"}
    /\ sent \in 0 .. Modulus - 1 /\ got \in 0 .. Modulus - 1 /\ torn \in BOOLEAN
WakeType ==
    [queue : Ends \cup {None}, all : BOOLEAN, task : Thread \cup {None}, then : Thens \cup {None}]
Types ==
    /\ setup \in Setups /\ RingType
    /\ refs \in [Ends -> Nat]
    /\ lock \in [Ends \cup {"buffer"} -> Thread \cup {None}]
    /\ waiters \in [Ends -> Seq(Thread)] /\ asleep \subseteq Thread
    /\ pc \in [Thread -> PCs]
    /\ left \in [Thread -> Nat] /\ done \in [Thread -> Nat]
    /\ closed \in [Thread -> BOOLEAN] /\ cont \in [Thread -> Conts \cup {None}]
    /\ wake \in [Thread -> WakeType]

\* A task is queued at most once, and only while it sleeps or goes to sleep.
Queues ==
    /\ \A e \in Ends : IsInjective(waiters[e])
    /\ \A e \in Ends, t \in Thread : t \in Range(waiters[e]) => pc[t] = "asleep" /\ e = Mine(t)

\* The bytes between head and tail are the next ones to read.
Stored(i) == mem[(head + i) % Size] = (got + i) % Modulus
RingExact ==
    /\ ~torn
    /\ (status # "Normal" => head = tail) /\ (head = tail => status # "Normal")
    /\ sent = (got + AvailableRead) % Modulus
    /\ \A i \in 0 .. AvailableRead - 1 : Stored(i)

\* Where t goes on when it has looked at the other end or woken the sleepers.
At(t) == IF pc[t] \in Looks THEN cont[t] ELSE IF pc[t] \in Wakes THEN wake[t].then ELSE pc[t]

Pending(t) ==
    /\ pc[t] \in Looks => cont[t] \in Conts
    /\ pc[t] \in Wakes => wake[t].queue \in Ends /\ wake[t].then \in Thens
    /\ t \in Reader => At(t) \notin {"write_byte", "write_full", "write_signal"}
    /\ t \in Writer => At(t) \notin {"read_eof", "read_data", "read_signal", "woken", "eof"}

\* What t found out with the buffer locked.
Locked(t) == At(t) \in Conts =>
    /\ lock["buffer"] = t /\ cont[t] = At(t)
    /\ At(t) \in {"read_eof", "read_signal"} => AvailableRead = 0
    /\ At(t) = "write_byte" => status # "Full"
    /\ pc[t] = "downgrade" => ~closed[t]
    /\ pc[t] # "upgrade" /\ closed[t] => refs[Other(t)] = 0

AtEnd(t) == pc[t] = "eof" => AvailableRead = 0 /\ refs["write"] = 0

\* How much of its call t has still to move.
Amount(t) ==
    /\ t \in Writer /\ At(t) \notin {"user", "closed", "return"} => left[t] > 0
    /\ left[t] + done[t] > 0 => \E n \in setup.reads \cup setup.writes :
          left[t] <= n /\ done[t] <= n /\ (t \in Writer => left[t] + done[t] <= n)

Local(t) == Pending(t) /\ Locked(t) /\ AtEnd(t) /\ Amount(t)

\* The strong count of an end.
Open(e)  == {t \in Thread : Mine(t) = e /\ At(t) # "closed"}
Upgraded(e) == {t \in Thread : Other(t) = e /\ pc[t] = "downgrade"}
Counted == \A e \in Ends : refs[e] = Cardinality(Open(e)) + Cardinality(Upgraded(e))

Shared == Types /\ Queues /\ RingExact /\ Counted
IInv == Shared /\ \A t \in Thread : Local(t)

-----------------------------------------------------------------------------
(* Arithmetic of the ring.                                                 *)

\* A step past the end of a ring of m places wraps once.
LEMMA Wrap ==
    ASSUME NEW m \in Nat, m > 0, NEW x \in Nat, x < 2 * m
    PROVE  x % m = IF x < m THEN x ELSE x - m
<1>1. CASE x < m
  BY SMTT(60), <1>1
<1>2. CASE ~(x < m)
  BY SMTT(60), <1>2
<1> QED BY <1>1, <1>2

\* AvailableRead is the distance from head to tail.
LEMMA Distance ==
    ASSUME RingType, RingExact
    PROVE  /\ AvailableRead \in 0 .. Size
           /\ status = "Full" <=> AvailableRead = Size
           /\ status = "Empty" <=> AvailableRead = 0
           /\ tail = IF head + AvailableRead < Size THEN head + AvailableRead
                     ELSE head + AvailableRead - Size
BY SMTT(60), RingTypes DEF RingType, RingExact, AvailableRead

\* Reading n bytes takes the first n of those between head and tail.
LEMMA ReadKeeps ==
    ASSUME RingType, RingExact, NEW n \in 0 .. AvailableRead, ReadBytes(n)
    PROVE  RingType' /\ RingExact' /\ AvailableRead' = AvailableRead - n
<1> DEFINE a == AvailableRead
<1>1. /\ a \in 0 .. Size /\ n \in 0 .. Size
      /\ tail = IF head + a < Size THEN head + a ELSE head + a - Size
      /\ status = "Empty" <=> a = 0
      /\ Size \in Nat /\ Size > 0 /\ Modulus \in Nat /\ Size <= Modulus
      /\ head \in 0 .. Size - 1 /\ tail \in 0 .. Size - 1
      /\ got \in 0 .. Modulus - 1 /\ sent \in 0 .. Modulus - 1
      /\ status \in {"Empty", "Normal", "Full"}
  BY SMTT(60), Distance, RingTypes DEF RingType
<1>2. /\ head' = (IF head + n < Size THEN head + n ELSE head + n - Size)
      /\ head' \in 0 .. Size - 1
  BY SMTT(60), <1>1, Wrap DEF ReadBytes
<1>3. /\ got' = (IF got + n < Modulus THEN got + n ELSE got + n - Modulus)
      /\ got' \in 0 .. Modulus - 1
  BY SMTT(60), <1>1, Wrap DEF ReadBytes
<1>4. torn' = FALSE
  <2>1. \A i \in 0 .. n - 1 : mem[(head + i) % Size] = (got + i) % Modulus
    BY SMTT(60), <1>1 DEF RingExact, Stored
  <2> QED BY <2>1 DEF ReadBytes, RingExact
<1>5. mem' = mem /\ tail' = tail /\ sent' = sent
      /\ status' = IF n = 0 THEN status ELSE IF head' = tail THEN "Empty" ELSE "Normal"
  BY DEF ReadBytes
<1>6. AvailableRead' = a - n
  <2>1. CASE n = 0
    BY SMTT(60), <2>1, <1>1, <1>2, <1>5 DEF AvailableRead
  <2>2. CASE n > 0 /\ n = a
    BY SMTT(60), <2>2, <1>1, <1>2, <1>5 DEF AvailableRead
  <2>3. CASE n > 0 /\ n < a
    BY SMTT(60), <2>3, <1>1, <1>2, <1>5 DEF AvailableRead
  <2> QED BY SMTT(60), <2>1, <2>2, <2>3, <1>1
<1>7. RingType'
  BY <1>1, <1>2, <1>3, <1>4, <1>5 DEF RingType
<1>8. (status' # "Normal" => head' = tail') /\ (head' = tail' => status' # "Normal")
  BY SMTT(60), <1>1, <1>2, <1>5 DEF RingExact
<1>9. sent' = (got' + AvailableRead') % Modulus
  BY SMTT(60), <1>1, <1>3, <1>5, <1>6, Wrap DEF RingExact
<1>10. ASSUME NEW i \in 0 .. a - n - 1 PROVE Stored(i)'
  <2>1. mem[(head + (n + i)) % Size] = (got + (n + i)) % Modulus
    BY SMTT(60), <1>1 DEF RingExact, Stored
  <2>2. (head + (n + i)) % Size = (head' + i) % Size
    BY SMTT(60), <1>1, <1>2, Wrap
  <2>3. (got + (n + i)) % Modulus = (got' + i) % Modulus
    BY SMTT(60), <1>1, <1>3, Wrap
  <2> QED BY <2>1, <2>2, <2>3, <1>5 DEF Stored
<1> QED BY <1>4, <1>6, <1>7, <1>8, <1>9, <1>10 DEF RingExact

\* A byte that is written goes behind those between head and tail.
LEMMA WriteKeeps ==
    ASSUME RingType, RingExact, status # "Full", WriteByte
    PROVE  RingType' /\ RingExact' /\ AvailableRead' = AvailableRead + 1
<1> DEFINE a == AvailableRead
<1>1. /\ a \in 0 .. Size - 1
      /\ tail = IF head + a < Size THEN head + a ELSE head + a - Size
      /\ Size \in Nat /\ Size > 0 /\ Modulus \in Nat /\ Size <= Modulus
      /\ head \in 0 .. Size - 1 /\ tail \in 0 .. Size - 1
      /\ got \in 0 .. Modulus - 1 /\ sent \in 0 .. Modulus - 1
      /\ mem \in [0 .. Size - 1 -> Nat]
  BY SMTT(60), Distance, RingTypes DEF RingType
<1>2. /\ tail' = (IF tail + 1 < Size THEN tail + 1 ELSE 0)
      /\ tail' \in 0 .. Size - 1
  BY SMTT(60), <1>1, Wrap DEF WriteByte
<1>3. sent' = (IF sent + 1 < Modulus THEN sent + 1 ELSE 0) /\ sent' \in 0 .. Modulus - 1
  <2>1. sent + 1 \in Nat /\ sent + 1 < 2 * Modulus /\ Modulus > 0
    BY SMTT(60), <1>1
  <2>2. (sent + 1) % Modulus = IF sent + 1 < Modulus THEN sent + 1 ELSE sent + 1 - Modulus
    BY SMTT(60), <2>1, <1>1, Wrap
  <2>3. sent' = (sent + 1) % Modulus
    BY DEF WriteByte
  <2> QED BY SMTT(60), <2>2, <2>3, <1>1
<1>4. /\ head' = head /\ got' = got /\ torn' = torn /\ mem' = [mem EXCEPT ![tail] = sent]
      /\ status' = IF tail' = head THEN "Full" ELSE "Normal"
  BY DEF WriteByte
<1>5. AvailableRead' = a + 1
  BY SMTT(60), <1>1, <1>2, <1>4 DEF AvailableRead
<1>6. RingType'
  BY SMTT(60), <1>1, <1>2, <1>3, <1>4 DEF RingType
<1>7. (status' # "Normal" => head' = tail') /\ (head' = tail' => status' # "Normal")
  BY <1>4
<1>8. sent' = (got' + AvailableRead') % Modulus
  <2>1. sent = IF got + a < Modulus THEN got + a ELSE got + a - Modulus
    <3>1. got + a \in Nat /\ got + a < 2 * Modulus /\ Modulus > 0
      BY SMTT(60), <1>1
    <3>2. (got + a) % Modulus = IF got + a < Modulus THEN got + a ELSE got + a - Modulus
      BY SMTT(60), <3>1, <1>1, Wrap
    <3> QED BY <3>2 DEF RingExact
  <2>2. got + (a + 1) \in Nat /\ got + (a + 1) < 2 * Modulus /\ Modulus > 0
    BY SMTT(60), <1>1
  <2>3. (got + (a + 1)) % Modulus = IF got + (a + 1) < Modulus THEN got + (a + 1) ELSE got + (a + 1) - Modulus
    BY SMTT(60), <2>2, <1>1, Wrap
  <2>4. sent' = IF got + (a + 1) < Modulus THEN got + (a + 1) ELSE got + (a + 1) - Modulus
    BY SMTT(60), <2>1, <1>1, <1>3
  <2> QED BY <2>3, <2>4, <1>4, <1>5
<1>9. ASSUME NEW i \in 0 .. a PROVE Stored(i)'
  <2>1. CASE i < a
    <3>1. mem[(head + i) % Size] = (got + i) % Modulus
      BY SMTT(60), <2>1, <1>1 DEF RingExact, Stored
    <3>2. (head + i) % Size # tail /\ (head + i) % Size \in 0 .. Size - 1
      BY SMTT(60), <2>1, <1>1, Wrap
    <3> QED BY <3>1, <3>2, <1>1, <1>4 DEF Stored
  <2>2. CASE i = a
    <3>1. (head + i) % Size = tail
      BY SMTT(60), <2>2, <1>1, Wrap
    <3>2. (got + i) % Modulus = sent
      BY <2>2 DEF RingExact
    <3> QED BY <3>1, <3>2, <1>1, <1>4 DEF Stored
  <2> QED BY SMTT(60), <2>1, <2>2, <1>1
<1> QED BY SMTT(60), <1>1, <1>4, <1>5, <1>6, <1>7, <1>8, <1>9 DEF RingExact

-----------------------------------------------------------------------------
(* What a step of one thread leaves alone.                                 *)

\* Only t moved.
Only(t) == \A u \in Thread \ {t} :
    /\ pc'[u] = pc[u] /\ left'[u] = left[u] /\ done'[u] = done[u]
    /\ closed'[u] = closed[u] /\ cont'[u] = cont[u] /\ wake'[u] = wake[u]

\* The buffer is left to whoever has it locked, an end that is gone stays so,
\* and nothing is written behind the end of the file.
Mild(t) ==
    /\ setup' = setup
    /\ lock["buffer"] \notin {None, t} =>
          lock'["buffer"] = lock["buffer"] /\ status' = status /\ AvailableRead' = AvailableRead
    /\ \A e \in Ends : refs[e] = 0 => refs'[e] = 0
    /\ AvailableRead = 0 /\ refs["write"] = 0 => AvailableRead' = 0

LEMMA WakeTypes ==
    /\ NoWake \in WakeType
    /\ \A e \in Ends, all \in BOOLEAN, then \in Thens :
          [queue |-> e, all |-> all, task |-> None, then |-> then] \in WakeType
    /\ \A w \in WakeType : \A u \in Thread : [w EXCEPT !.task = u] \in WakeType
BY DEF NoWake, WakeType

LEMMA WakingType ==
    ASSUME Types, NEW t \in Thread, NEW e \in Ends, NEW all \in BOOLEAN, NEW then \in Thens,
           Waking(t, e, all, then)
    PROVE  wake' \in [Thread -> WakeType]
<1> DEFINE w == [queue |-> e, all |-> all, task |-> None, then |-> then]
<1>1. w \in WakeType
  BY WakeTypes
<1>2. wake' = [wake EXCEPT ![t] = w]
  BY DEF Waking
<1> HIDE DEF w
<1> QED BY <1>1, <1>2 DEF Types

LEMMA RingSame ==
    ASSUME RingType, RingExact, UNCHANGED ring
    PROVE  RingType' /\ RingExact' /\ AvailableRead' = AvailableRead /\ status' = status
<1>1. /\ mem' = mem /\ head' = head /\ tail' = tail /\ status' = status
      /\ sent' = sent /\ got' = got /\ torn' = torn
  BY DEF ring
<1>2. AvailableRead' = AvailableRead
  BY <1>1 DEF AvailableRead
<1> QED BY <1>1, <1>2 DEF RingType, RingExact, Stored

LEMMA OthersKeep ==
    ASSUME NEW t \in Thread, NEW u \in Thread \ {t}, Only(t), Mild(t), Local(u)
    PROVE  Local(u)'
<1>1. At(u)' = At(u) /\ pc'[u] = pc[u] /\ cont'[u] = cont[u] /\ closed'[u] = closed[u]
      /\ left'[u] = left[u] /\ done'[u] = done[u] /\ wake'[u] = wake[u]
  BY DEF Only, At
<1>2. Pending(u)'
  BY <1>1 DEF Local, Pending
<1>3. Locked(u)'
  <2>1. CASE At(u) \in Conts
    <3>1. lock["buffer"] = u
      BY <2>1 DEF Local, Locked
    <3>2. lock'["buffer"] = u /\ status' = status /\ AvailableRead' = AvailableRead
      BY <3>1, ThreadTypes DEF Mild
    <3>3. refs[Other(u)] = 0 => refs'[Other(u)] = 0
      BY DEF Mild, Other, Ends
    <3>4. Other(u)' = Other(u)
      BY DEF Other
    <3> QED BY <2>1, <1>1, <3>1, <3>2, <3>3, <3>4 DEF Local, Locked
  <2>2. CASE At(u) \notin Conts
    BY <2>2, <1>1 DEF Locked
  <2> QED BY <2>1, <2>2
<1>4. AtEnd(u)'
  BY <1>1 DEF Local, AtEnd, Mild, Ends
<1>5. Amount(u)'
  BY <1>1 DEF Local, Amount, Mild
<1> QED BY <1>2, <1>3, <1>4, <1>5 DEF Local

LEMMA QueuesSame ==
    ASSUME Types, Queues, NEW t \in Thread, Only(t), waiters' = waiters, pc[t] # "asleep" \/ pc'[t] = pc[t]
    PROVE  Queues'
<1>1. ASSUME NEW e \in Ends, NEW u \in Thread, u \in Range(waiters[e])
      PROVE  pc'[u] = "asleep" /\ e = Mine(u)
  BY <1>1 DEF Queues, Only
<1>2. \A u \in Thread : Mine(u)' = Mine(u)
  BY DEF Mine
<1> QED BY <1>1, <1>2 DEF Queues

LEMMA CountsSame ==
    ASSUME Counted, NEW t \in Thread, Only(t), refs' = refs,
           At(t)' = "closed" <=> At(t) = "closed", pc'[t] = "downgrade" <=> pc[t] = "downgrade"
    PROVE  Counted'
<1>1. \A u \in Thread : (At(u)' = "closed" <=> At(u) = "closed") /\ (pc'[u] = "downgrade" <=> pc[u] = "downgrade")
  BY SMTT(60) DEF Only, At
<1>2. \A u \in Thread : Mine(u)' = Mine(u) /\ Other(u)' = Other(u)
  BY DEF Mine, Other
<1>3. \A e \in Ends : Open(e)' = Open(e) /\ Upgraded(e)' = Upgraded(e)
  BY <1>1, <1>2 DEF Open, Upgraded
<1> QED BY <1>3 DEF Counted

LEMMA Assemble ==
    ASSUME IInv, NEW t \in Thread, Only(t), Mild(t), Types', Queues', RingExact', Counted', Local(t)'
    PROVE  IInv'
<1>1. ASSUME NEW u \in Thread PROVE Local(u)'
  BY OthersKeep DEF IInv
<1> QED BY <1>1 DEF IInv, Shared

\* A step that touches neither the ring nor the counts.
LEMMA Calm ==
    ASSUME IInv, NEW t \in Thread, Only(t), setup' = setup, UNCHANGED ring, refs' = refs,
           lock["buffer"] \notin {None, t} => lock'["buffer"] = lock["buffer"],
           At(t)' = "closed" <=> At(t) = "closed", pc'[t] = "downgrade" <=> pc[t] = "downgrade",
           Types', Queues', Local(t)'
    PROVE  IInv'
<1>1. RingType /\ RingExact /\ Counted
  BY DEF IInv, Shared, Types
<1>2. RingExact' /\ AvailableRead' = AvailableRead /\ status' = status
  BY <1>1, RingSame
<1>3. Counted'
  BY <1>1, CountsSame
<1>4. Mild(t)
  BY <1>2 DEF Mild
<1> QED BY <1>2, <1>3, <1>4, Assemble

-----------------------------------------------------------------------------
(* The steps, one by one.                                                  *)

LEMMA WakeLookStep ==
    ASSUME IInv, NEW t \in Thread, WakeLook(t)
    PROVE  IInv'
<1>1. Types /\ Queues /\ RingType /\ RingExact /\ Local(t)
  BY DEF IInv, Shared, Types
<1>2. Only(t) /\ setup' = setup /\ UNCHANGED ring /\ refs' = refs /\ waiters' = waiters
  <2>1. setup' = setup /\ UNCHANGED ring /\ refs' = refs /\ waiters' = waiters
    BY DEF WakeLook, Goto, sig, local
  <2>2. Only(t)
    BY <1>1 DEF Types, Only, WakeLook, Goto, sig, local
  <2> QED BY <2>1, <2>2
<1>3. RingType' /\ AvailableRead' = AvailableRead /\ status' = status
  BY <1>1, <1>2, RingSame
<1>4. Types'
  BY <1>1, <1>2, <1>3, WakeTypes, SetupTypes, ThreadTypes DEF Types, PCs, Looks, Wakes, Conts, Alone, Ends, Thens, Pending, Local, WakeLook, Goto, local
<1>5. Local(t)'
  <2>1. Pending(t)'
    BY <1>1, SetupTypes, ThreadTypes DEF Types, Pending, Local, At, Looks, Wakes, Conts, Thens, Ends, WakeLook, Goto, local
  <2>2. Locked(t)'
    BY <1>1, <1>2, <1>3, SetupTypes, ThreadTypes DEF Types, Pending, Locked, Local, Other, Thread, At, Looks, Wakes, Conts, Thens, Ends, WakeLook, Goto, local
  <2>3. AtEnd(t)'
    BY <1>1, <1>2, <1>3 DEF Types, Pending, Locked, AtEnd, Local, Other, Thread, At, Looks, Wakes, Conts, Thens, WakeLook, Goto, local
  <2>4. Amount(t)'
    BY <1>1, <1>2, SetupTypes, ThreadTypes DEF Types, Pending, Amount, Local, At, Looks, Wakes, Conts, Thens, WakeLook, Goto, local
  <2> QED BY <2>1, <2>2, <2>3, <2>4 DEF Local
<1>6. lock["buffer"] \notin {None, t} => lock'["buffer"] = lock["buffer"]
  BY <1>1 DEF Types, Locked, Local, At, Looks, Wakes, Conts, Ends, WakeLook, Goto, local
<1>7. /\ At(t)' = "closed" <=> At(t) = "closed"
      /\ pc'[t] = "downgrade" <=> pc[t] = "downgrade"
      /\ pc[t] # "asleep" \/ pc'[t] = pc[t]
  BY <1>1 DEF Types, Pending, Local, At, Looks, Wakes, Conts, Thens, WakeLook, Goto, local
<1>8. Queues'
  BY <1>1, <1>2, <1>7, QueuesSame
<1> QED BY <1>2, <1>4, <1>5, <1>6, <1>7, <1>8, Calm

LEMMA WakeTaskStep ==
    ASSUME IInv, NEW t \in Thread, WakeTask(t)
    PROVE  IInv'
<1>1. Types /\ Queues /\ RingType /\ RingExact /\ Local(t)
  BY DEF IInv, Shared, Types
<1>2. Only(t) /\ setup' = setup /\ UNCHANGED ring /\ refs' = refs /\ waiters' = waiters
  <2>1. setup' = setup /\ UNCHANGED ring /\ refs' = refs /\ waiters' = waiters
    BY DEF WakeTask, Goto, sig, local
  <2>2. Only(t)
    <3>1. CASE wake[t].all
      BY <1>1, <3>1 DEF Types, Only, WakeTask, Goto, sig, local
    <3>2. CASE ~(wake[t].all)
      BY <1>1, <3>2 DEF Types, Only, WakeTask, Goto, sig, local
    <3> QED BY <3>1, <3>2
  <2> QED BY <2>1, <2>2
<1>3. RingType' /\ AvailableRead' = AvailableRead /\ status' = status
  BY <1>1, <1>2, RingSame
<1>4. Types'
  <2>1. CASE wake[t].all
    <3>1. wake' \in [Thread -> WakeType]
      BY <1>1, <2>1, WakeTypes DEF Types, Pending, Local, Wakes, Conts, Thens, Ends, WakeTask, Goto, local
    <3>2. pc' \in [Thread -> PCs]
      BY <1>1, <2>1 DEF Types, PCs, Looks, Wakes, Conts, Alone, Ends, Thens, Pending, Local, WakeTask, Goto, local
    <3>3. lock' \in [Ends \cup {"buffer"} -> Thread \cup {None}]
      BY <1>1, <2>1 DEF Types, WakeTask, Goto, local
    <3>4. /\ left' \in [Thread -> Nat] /\ done' \in [Thread -> Nat] /\ asleep' \subseteq Thread
          /\ closed' \in [Thread -> BOOLEAN] /\ cont' \in [Thread -> Conts \cup {None}]
      BY <1>1, <2>1 DEF Types, Conts, WakeTask, Goto, local
    <3> QED BY <1>1, <1>2, <1>3, <3>1, <3>2, <3>3, <3>4 DEF Types
  <2>2. CASE ~(wake[t].all)
    <3>1. wake' \in [Thread -> WakeType]
      BY <1>1, <2>2, WakeTypes DEF Types, Pending, Local, Wakes, Conts, Thens, Ends, WakeTask, Goto, local
    <3>2. pc' \in [Thread -> PCs]
      BY <1>1, <2>2 DEF Types, PCs, Looks, Wakes, Conts, Alone, Ends, Thens, Pending, Local, WakeTask, Goto, local
    <3>3. lock' \in [Ends \cup {"buffer"} -> Thread \cup {None}]
      BY <1>1, <2>2 DEF Types, WakeTask, Goto, local
    <3>4. /\ left' \in [Thread -> Nat] /\ done' \in [Thread -> Nat] /\ asleep' \subseteq Thread
          /\ closed' \in [Thread -> BOOLEAN] /\ cont' \in [Thread -> Conts \cup {None}]
      BY <1>1, <2>2 DEF Types, Conts, WakeTask, Goto, local
    <3> QED BY <1>1, <1>2, <1>3, <3>1, <3>2, <3>3, <3>4 DEF Types
  <2> QED BY <2>1, <2>2
<1>5. Local(t)'
  <2>1. Pending(t)'
    BY SMTT(60), <1>1, SetupTypes, ThreadTypes DEF Types, Pending, Local, At, Looks, Wakes, Conts, Thens, Ends, WakeTask, Goto, local
  <2>2. Locked(t)'
    <3>1. CASE wake[t].all
      BY SMTT(60), <1>1, <1>2, <1>3, SetupTypes, ThreadTypes, <3>1 DEF Types, Pending, Locked, Local, Other, Thread, At, Looks, Wakes, Conts, Thens, Ends, WakeTask, Goto, local
    <3>2. CASE ~(wake[t].all)
      BY SMTT(60), <1>1, <1>2, <1>3, SetupTypes, ThreadTypes, <3>2 DEF Types, Pending, Locked, Local, Other, Thread, At, Looks, Wakes, Conts, Thens, Ends, WakeTask, Goto, local
    <3> QED BY <3>1, <3>2
  <2>3. AtEnd(t)'
    BY <1>1, <1>2, <1>3 DEF Types, Pending, Locked, AtEnd, Local, Other, Thread, At, Looks, Wakes, Conts, Thens, WakeTask, Goto, local
  <2>4. Amount(t)'
    BY SMTT(60), <1>1, <1>2, SetupTypes, ThreadTypes DEF Types, Pending, Amount, Local, At, Looks, Wakes, Conts, Thens, WakeTask, Goto, local
  <2> QED BY <2>1, <2>2, <2>3, <2>4 DEF Local
<1>6. lock["buffer"] \notin {None, t} => lock'["buffer"] = lock["buffer"]
  BY <1>1 DEF Types, Locked, Local, At, Looks, Wakes, Conts, Ends, WakeTask, Goto, local
<1>7. /\ At(t)' = "closed" <=> At(t) = "closed"
      /\ pc'[t] = "downgrade" <=> pc[t] = "downgrade"
      /\ pc[t] # "asleep" \/ pc'[t] = pc[t]
  <2>1. CASE wake[t].all
    BY <1>1, <2>1 DEF Types, Pending, Local, At, Looks, Wakes, Conts, Thens, WakeTask, Goto, local
  <2>2. CASE ~(wake[t].all)
    BY <1>1, <2>2 DEF Types, Pending, Local, At, Looks, Wakes, Conts, Thens, WakeTask, Goto, local
  <2> QED BY <2>1, <2>2
<1>8. Queues'
  BY <1>1, <1>2, <1>7, QueuesSame
<1> QED BY <1>2, <1>4, <1>5, <1>6, <1>7, <1>8, Calm

LEMMA BlockLockStep ==
    ASSUME IInv, NEW t \in Thread, BlockLock(t)
    PROVE  IInv'
<1>1. Types /\ Queues /\ RingType /\ RingExact /\ Local(t)
  BY DEF IInv, Shared, Types
<1>2. Only(t) /\ setup' = setup /\ UNCHANGED ring /\ refs' = refs /\ waiters' = waiters
  <2>1. setup' = setup /\ UNCHANGED ring /\ refs' = refs /\ waiters' = waiters
    BY DEF BlockLock, Goto, sig, local
  <2>2. Only(t)
    BY <1>1 DEF Types, Only, BlockLock, Goto, sig, local
  <2> QED BY <2>1, <2>2
<1>3. RingType' /\ AvailableRead' = AvailableRead /\ status' = status
  BY <1>1, <1>2, RingSame
<1>4. Types'
  BY <1>1, <1>2, <1>3, WakeTypes, SetupTypes, ThreadTypes DEF Types, PCs, Looks, Wakes, Conts, Alone, Ends, Thens, Pending, Local, BlockLock, Goto, Mine, local
<1>5. Local(t)'
  <2>1. Pending(t)'
    BY <1>1, SetupTypes, ThreadTypes DEF Types, Pending, Local, At, Looks, Wakes, Conts, Thens, Ends, BlockLock, Goto, Mine, local
  <2>2. Locked(t)'
    BY <1>1, <1>2, <1>3, SetupTypes, ThreadTypes DEF Types, Pending, Locked, Local, Other, Thread, At, Looks, Wakes, Conts, Thens, Ends, BlockLock, Goto, Mine, local
  <2>3. AtEnd(t)'
    BY <1>1, <1>2, <1>3 DEF Types, Pending, Locked, AtEnd, Local, Other, Thread, At, Looks, Wakes, Conts, Thens, BlockLock, Goto, Mine, local
  <2>4. Amount(t)'
    BY <1>1, <1>2, SetupTypes, ThreadTypes DEF Types, Pending, Amount, Local, At, Looks, Wakes, Conts, Thens, BlockLock, Goto, Mine, local
  <2> QED BY <2>1, <2>2, <2>3, <2>4 DEF Local
<1>6. lock["buffer"] \notin {None, t} => lock'["buffer"] = lock["buffer"]
  BY <1>1 DEF Types, Locked, Local, At, Looks, Wakes, Conts, Ends, BlockLock, Goto, Mine, local
<1>7. /\ At(t)' = "closed" <=> At(t) = "closed"
      /\ pc'[t] = "downgrade" <=> pc[t] = "downgrade"
      /\ pc[t] # "asleep" \/ pc'[t] = pc[t]
  BY <1>1 DEF Types, Pending, Local, At, Looks, Wakes, Conts, Thens, BlockLock, Goto, Mine, local
<1>8. Queues'
  BY <1>1, <1>2, <1>7, QueuesSame
<1> QED BY <1>2, <1>4, <1>5, <1>6, <1>7, <1>8, Calm

LEMMA BlockLookStep ==
    ASSUME IInv, NEW t \in Thread, BlockLook(t)
    PROVE  IInv'
<1>1. Types /\ Queues /\ RingType /\ RingExact /\ Local(t)
  BY DEF IInv, Shared, Types
<1>2. Only(t) /\ setup' = setup /\ UNCHANGED ring /\ refs' = refs /\ waiters' = waiters
  <2>1. setup' = setup /\ UNCHANGED ring /\ refs' = refs /\ waiters' = waiters
    BY DEF BlockLook, Goto, sig, local
  <2>2. Only(t)
    <3>1. CASE Stuck(t)
      BY <1>1, <3>1 DEF Types, Only, BlockLook, Goto, sig, local
    <3>2. CASE ~(Stuck(t))
      BY <1>1, <3>2 DEF Types, Only, BlockLook, Goto, sig, local
    <3> QED BY <3>1, <3>2
  <2> QED BY <2>1, <2>2
<1>3. RingType' /\ AvailableRead' = AvailableRead /\ status' = status
  BY <1>1, <1>2, RingSame
<1>4. Types'
  <2>1. CASE Stuck(t)
    <3>1. wake' \in [Thread -> WakeType]
      BY <1>1, <2>1, WakeTypes DEF Types, Pending, Local, Wakes, Conts, Thens, Ends, BlockLook, Goto, Mine, local
    <3>2. pc' \in [Thread -> PCs]
      BY <1>1, <2>1 DEF Types, PCs, Looks, Wakes, Conts, Alone, Ends, Thens, Pending, Local, BlockLook, Goto, Mine, local
    <3>3. lock' \in [Ends \cup {"buffer"} -> Thread \cup {None}]
      BY SMTT(60), <1>1, <2>1 DEF Types, BlockLook, Goto, Mine, local
    <3>4. /\ left' \in [Thread -> Nat] /\ done' \in [Thread -> Nat] /\ asleep' \subseteq Thread
          /\ closed' \in [Thread -> BOOLEAN] /\ cont' \in [Thread -> Conts \cup {None}]
      BY <1>1, <2>1 DEF Types, Conts, BlockLook, Goto, Mine, local
    <3> QED BY <1>1, <1>2, <1>3, <3>1, <3>2, <3>3, <3>4 DEF Types
  <2>2. CASE ~(Stuck(t))
    <3>1. wake' \in [Thread -> WakeType]
      BY <1>1, <2>2, WakeTypes DEF Types, Pending, Local, Wakes, Conts, Thens, Ends, BlockLook, Goto, Mine, local
    <3>2. pc' \in [Thread -> PCs]
      BY <1>1, <2>2 DEF Types, PCs, Looks, Wakes, Conts, Alone, Ends, Thens, Pending, Local, BlockLook, Goto, Mine, local
    <3>3. lock' \in [Ends \cup {"buffer"} -> Thread \cup {None}]
      BY <1>1, <2>2 DEF Types, BlockLook, Goto, Mine, local
    <3>4. /\ left' \in [Thread -> Nat] /\ done' \in [Thread -> Nat] /\ asleep' \subseteq Thread
          /\ closed' \in [Thread -> BOOLEAN] /\ cont' \in [Thread -> Conts \cup {None}]
      BY <1>1, <2>2 DEF Types, Conts, BlockLook, Goto, Mine, local
    <3> QED BY <1>1, <1>2, <1>3, <3>1, <3>2, <3>3, <3>4 DEF Types
  <2> QED BY <2>1, <2>2
<1>5. Local(t)'
  <2>1. Pending(t)'
    BY SMTT(60), <1>1, SetupTypes, ThreadTypes DEF Types, Pending, Local, At, Looks, Wakes, Conts, Thens, Ends, BlockLook, Goto, Mine, Stuck, Free, local
  <2>2. Locked(t)'
    <3>1. CASE Stuck(t)
      BY SMTT(60), <1>1, <1>2, <1>3, SetupTypes, ThreadTypes, <3>1 DEF Types, Pending, Locked, Local, Other, Thread, At, Looks, Wakes, Conts, Thens, Ends, BlockLook, Goto, Mine, Stuck, Free, local
    <3>2. CASE ~(Stuck(t))
      BY SMTT(60), <1>1, <1>2, <1>3, SetupTypes, ThreadTypes, <3>2 DEF Types, Pending, Locked, Local, Other, Thread, At, Looks, Wakes, Conts, Thens, Ends, BlockLook, Goto, Mine, Stuck, Free, local
    <3> QED BY <3>1, <3>2
  <2>3. AtEnd(t)'
    BY <1>1, <1>2, <1>3 DEF Types, Pending, Locked, AtEnd, Local, Other, Thread, At, Looks, Wakes, Conts, Thens, BlockLook, Goto, Mine, Stuck, Free, local
  <2>4. Amount(t)'
    BY <1>1, <1>2, SetupTypes, ThreadTypes DEF Types, Pending, Amount, Local, At, Looks, Wakes, Conts, Thens, BlockLook, Goto, Mine, Stuck, Free, local
  <2> QED BY <2>1, <2>2, <2>3, <2>4 DEF Local
<1>6. lock["buffer"] \notin {None, t} => lock'["buffer"] = lock["buffer"]
  BY <1>1 DEF Types, Locked, Local, At, Looks, Wakes, Conts, Ends, BlockLook, Goto, Mine, Stuck, Free, local
<1>7. /\ At(t)' = "closed" <=> At(t) = "closed"
      /\ pc'[t] = "downgrade" <=> pc[t] = "downgrade"
      /\ pc[t] # "asleep" \/ pc'[t] = pc[t]
  <2>1. CASE Stuck(t)
    BY <1>1, <2>1 DEF Types, Pending, Local, At, Looks, Wakes, Conts, Thens, BlockLook, Goto, Mine, Stuck, Free, local
  <2>2. CASE ~(Stuck(t))
    BY SMTT(60), <1>1, <2>2 DEF Types, Pending, Local, At, Looks, Wakes, Conts, Thens, BlockLook, Goto, Mine, Stuck, Free, local
  <2> QED BY <2>1, <2>2
<1>8. Queues'
  BY <1>1, <1>2, <1>7, QueuesSame
<1> QED BY <1>2, <1>4, <1>5, <1>6, <1>7, <1>8, Calm

LEMMA ReadCallStep ==
    ASSUME IInv, NEW t \in Thread, t \in Reader, NEW n \in setup.reads, ReadCall(t, n)
    PROVE  IInv'
<1>1. Types /\ Queues /\ RingType /\ RingExact /\ Local(t)
  BY DEF IInv, Shared, Types
<1>2. Only(t) /\ setup' = setup /\ UNCHANGED ring /\ refs' = refs /\ waiters' = waiters
  <2>1. setup' = setup /\ UNCHANGED ring /\ refs' = refs /\ waiters' = waiters
    BY DEF ReadCall, Goto, sig, local
  <2>2. Only(t)
    BY <1>1 DEF Types, Only, ReadCall, Goto, sig, local
  <2> QED BY <2>1, <2>2
<1>3. RingType' /\ AvailableRead' = AvailableRead /\ status' = status
  BY <1>1, <1>2, RingSame
<1>4. Types'
  BY <1>1, <1>2, <1>3, WakeTypes, SetupTypes, ThreadTypes DEF Types, PCs, Looks, Wakes, Conts, Alone, Ends, Thens, Pending, Local, ReadCall, Goto, local
<1>5. Local(t)'
  <2>1. Pending(t)'
    BY <1>1, SetupTypes, ThreadTypes DEF Types, Pending, Local, At, Looks, Wakes, Conts, Thens, Ends, ReadCall, Goto, local
  <2>2. Locked(t)'
    BY <1>1, <1>2, <1>3, SetupTypes, ThreadTypes DEF Types, Pending, Locked, Local, Other, Thread, At, Looks, Wakes, Conts, Thens, Ends, ReadCall, Goto, local
  <2>3. AtEnd(t)'
    BY <1>1, <1>2, <1>3 DEF Types, Pending, Locked, AtEnd, Local, Other, Thread, At, Looks, Wakes, Conts, Thens, ReadCall, Goto, local
  <2>4. Amount(t)'
    BY SMTT(60), <1>1, <1>2, SetupTypes, ThreadTypes DEF Types, Pending, Amount, Local, At, Looks, Wakes, Conts, Thens, ReadCall, Goto, local
  <2> QED BY <2>1, <2>2, <2>3, <2>4 DEF Local
<1>6. lock["buffer"] \notin {None, t} => lock'["buffer"] = lock["buffer"]
  BY <1>1 DEF Types, Locked, Local, At, Looks, Wakes, Conts, Ends, ReadCall, Goto, local
<1>7. /\ At(t)' = "closed" <=> At(t) = "closed"
      /\ pc'[t] = "downgrade" <=> pc[t] = "downgrade"
      /\ pc[t] # "asleep" \/ pc'[t] = pc[t]
  BY <1>1 DEF Types, Pending, Local, At, Looks, Wakes, Conts, Thens, ReadCall, Goto, local
<1>8. Queues'
  BY <1>1, <1>2, <1>7, QueuesSame
<1> QED BY <1>2, <1>4, <1>5, <1>6, <1>7, <1>8, Calm

LEMMA ReadEmptyStep ==
    ASSUME IInv, NEW t \in Thread, ReadEmpty(t)
    PROVE  IInv'
<1>1. Types /\ Queues /\ RingType /\ RingExact /\ Local(t)
  BY DEF IInv, Shared, Types
<1>2. Only(t) /\ setup' = setup /\ UNCHANGED ring /\ refs' = refs /\ waiters' = waiters
  <2>1. setup' = setup /\ UNCHANGED ring /\ refs' = refs /\ waiters' = waiters
    BY DEF ReadEmpty, Goto, sig, local
  <2>2. Only(t)
    BY <1>1 DEF Types, Only, ReadEmpty, Goto, sig, local
  <2> QED BY <2>1, <2>2
<1>3. RingType' /\ AvailableRead' = AvailableRead /\ status' = status
  BY <1>1, <1>2, RingSame
<1>4. Types'
  BY <1>1, <1>2, <1>3, WakeTypes, SetupTypes, ThreadTypes DEF Types, PCs, Looks, Wakes, Conts, Alone, Ends, Thens, Pending, Local, ReadEmpty, Goto, local
<1>5. Local(t)'
  <2>1. Pending(t)'
    BY <1>1, SetupTypes, ThreadTypes DEF Types, Pending, Local, At, Looks, Wakes, Conts, Thens, Ends, ReadEmpty, Goto, Stuck, Free, local
  <2>2. Locked(t)'
    BY <1>1, <1>2, <1>3, SetupTypes, ThreadTypes DEF Types, Pending, Locked, Local, Other, Thread, At, Looks, Wakes, Conts, Thens, Ends, ReadEmpty, Goto, Stuck, Free, local
  <2>3. AtEnd(t)'
    BY <1>1, <1>2, <1>3 DEF Types, Pending, Locked, AtEnd, Local, Other, Thread, At, Looks, Wakes, Conts, Thens, ReadEmpty, Goto, Stuck, Free, local
  <2>4. Amount(t)'
    BY <1>1, <1>2, SetupTypes, ThreadTypes DEF Types, Pending, Amount, Local, At, Looks, Wakes, Conts, Thens, ReadEmpty, Goto, Stuck, Free, local
  <2> QED BY <2>1, <2>2, <2>3, <2>4 DEF Local
<1>6. lock["buffer"] \notin {None, t} => lock'["buffer"] = lock["buffer"]
  BY <1>1 DEF Types, Locked, Local, At, Looks, Wakes, Conts, Ends, ReadEmpty, Goto, Stuck, Free, local
<1>7. /\ At(t)' = "closed" <=> At(t) = "closed"
      /\ pc'[t] = "downgrade" <=> pc[t] = "downgrade"
      /\ pc[t] # "asleep" \/ pc'[t] = pc[t]
  BY <1>1 DEF Types, Pending, Local, At, Looks, Wakes, Conts, Thens, ReadEmpty, Goto, Stuck, Free, local
<1>8. Queues'
  BY <1>1, <1>2, <1>7, QueuesSame
<1> QED BY <1>2, <1>4, <1>5, <1>6, <1>7, <1>8, Calm

LEMMA ReadEofStep ==
    ASSUME IInv, NEW t \in Thread, ReadEof(t)
    PROVE  IInv'
<1>1. Types /\ Queues /\ RingType /\ RingExact /\ Local(t)
  BY DEF IInv, Shared, Types
<1>2. Only(t) /\ setup' = setup /\ UNCHANGED ring /\ refs' = refs /\ waiters' = waiters
  <2>1. setup' = setup /\ UNCHANGED ring /\ refs' = refs /\ waiters' = waiters
    BY DEF ReadEof, Goto, sig, local
  <2>2. Only(t)
    BY <1>1 DEF Types, Only, ReadEof, Goto, sig, local
  <2> QED BY <2>1, <2>2
<1>3. RingType' /\ AvailableRead' = AvailableRead /\ status' = status
  BY <1>1, <1>2, RingSame
<1>4. Types'
  BY <1>1, <1>2, <1>3, WakeTypes, SetupTypes, ThreadTypes DEF Types, PCs, Looks, Wakes, Conts, Alone, Ends, Thens, Pending, Local, ReadEof, Goto, local
<1>5. Local(t)'
  <2>1. Pending(t)'
    BY <1>1, SetupTypes, ThreadTypes DEF Types, Pending, Local, At, Looks, Wakes, Conts, Thens, Ends, ReadEof, Goto, local
  <2>2. Locked(t)'
    BY <1>1, <1>2, <1>3, SetupTypes, ThreadTypes DEF Types, Pending, Locked, Local, Other, Thread, At, Looks, Wakes, Conts, Thens, Ends, ReadEof, Goto, local
  <2>3. AtEnd(t)'
    BY <1>1, <1>2, <1>3 DEF Types, Pending, Locked, AtEnd, Local, Other, Thread, At, Looks, Wakes, Conts, Thens, ReadEof, Goto, local
  <2>4. Amount(t)'
    BY <1>1, <1>2, SetupTypes, ThreadTypes DEF Types, Pending, Amount, Local, At, Looks, Wakes, Conts, Thens, ReadEof, Goto, local
  <2> QED BY <2>1, <2>2, <2>3, <2>4 DEF Local
<1>6. lock["buffer"] \notin {None, t} => lock'["buffer"] = lock["buffer"]
  BY <1>1 DEF Types, Locked, Local, At, Looks, Wakes, Conts, Ends, ReadEof, Goto, local
<1>7. /\ At(t)' = "closed" <=> At(t) = "closed"
      /\ pc'[t] = "downgrade" <=> pc[t] = "downgrade"
      /\ pc[t] # "asleep" \/ pc'[t] = pc[t]
  BY <1>1 DEF Types, Pending, Local, At, Looks, Wakes, Conts, Thens, ReadEof, Goto, local
<1>8. Queues'
  BY <1>1, <1>2, <1>7, QueuesSame
<1> QED BY <1>2, <1>4, <1>5, <1>6, <1>7, <1>8, Calm

LEMMA ReadWokenStep ==
    ASSUME IInv, NEW t \in Thread, ReadWoken(t)
    PROVE  IInv'
<1>1. Types /\ Queues /\ RingType /\ RingExact /\ Local(t)
  BY DEF IInv, Shared, Types
<1>2. Only(t) /\ setup' = setup /\ UNCHANGED ring /\ refs' = refs /\ waiters' = waiters
  <2>1. setup' = setup /\ UNCHANGED ring /\ refs' = refs /\ waiters' = waiters
    BY DEF ReadWoken, Goto, sig, local
  <2>2. Only(t)
    BY <1>1 DEF Types, Only, ReadWoken, Goto, sig, local
  <2> QED BY <2>1, <2>2
<1>3. RingType' /\ AvailableRead' = AvailableRead /\ status' = status
  BY <1>1, <1>2, RingSame
<1>4. Types'
  BY <1>1, <1>2, <1>3, WakeTypes, SetupTypes, ThreadTypes DEF Types, PCs, Looks, Wakes, Conts, Alone, Ends, Thens, Pending, Local, ReadWoken, Goto, local
<1>5. Local(t)'
  <2>1. Pending(t)'
    BY <1>1, SetupTypes, ThreadTypes DEF Types, Pending, Local, At, Looks, Wakes, Conts, Thens, Ends, ReadWoken, Goto, Stuck, Free, local
  <2>2. Locked(t)'
    BY <1>1, <1>2, <1>3, SetupTypes, ThreadTypes DEF Types, Pending, Locked, Local, Other, Thread, At, Looks, Wakes, Conts, Thens, Ends, ReadWoken, Goto, Stuck, Free, local
  <2>3. AtEnd(t)'
    BY <1>1, <1>2, <1>3 DEF Types, Pending, Locked, AtEnd, Local, Other, Thread, At, Looks, Wakes, Conts, Thens, ReadWoken, Goto, Stuck, Free, local
  <2>4. Amount(t)'
    BY <1>1, <1>2, SetupTypes, ThreadTypes DEF Types, Pending, Amount, Local, At, Looks, Wakes, Conts, Thens, ReadWoken, Goto, Stuck, Free, local
  <2> QED BY <2>1, <2>2, <2>3, <2>4 DEF Local
<1>6. lock["buffer"] \notin {None, t} => lock'["buffer"] = lock["buffer"]
  BY <1>1 DEF Types, Locked, Local, At, Looks, Wakes, Conts, Ends, ReadWoken, Goto, Stuck, Free, local
<1>7. /\ At(t)' = "closed" <=> At(t) = "closed"
      /\ pc'[t] = "downgrade" <=> pc[t] = "downgrade"
      /\ pc[t] # "asleep" \/ pc'[t] = pc[t]
  BY <1>1 DEF Types, Pending, Local, At, Looks, Wakes, Conts, Thens, ReadWoken, Goto, Stuck, Free, local
<1>8. Queues'
  BY <1>1, <1>2, <1>7, QueuesSame
<1> QED BY <1>2, <1>4, <1>5, <1>6, <1>7, <1>8, Calm

LEMMA ReadDecideStep ==
    ASSUME IInv, NEW t \in Thread, ReadDecide(t)
    PROVE  IInv'
<1>1. Types /\ Queues /\ RingType /\ RingExact /\ Local(t)
  BY DEF IInv, Shared, Types
<1>2. Only(t) /\ setup' = setup /\ UNCHANGED ring /\ refs' = refs /\ waiters' = waiters
  <2>1. setup' = setup /\ UNCHANGED ring /\ refs' = refs /\ waiters' = waiters
    BY DEF ReadDecide, Goto, sig, local
  <2>2. Only(t)
    BY <1>1 DEF Types, Only, ReadDecide, Goto, sig, local
  <2> QED BY <2>1, <2>2
<1>3. RingType' /\ AvailableRead' = AvailableRead /\ status' = status
  BY <1>1, <1>2, RingSame
<1>4. Types'
  BY <1>1, <1>2, <1>3, WakeTypes, SetupTypes, ThreadTypes DEF Types, PCs, Looks, Wakes, Conts, Alone, Ends, Thens, Pending, Local, ReadDecide, Goto, local
<1>5. Local(t)'
  <2>1. Pending(t)'
    BY <1>1, SetupTypes, ThreadTypes DEF Types, Pending, Local, At, Looks, Wakes, Conts, Thens, Ends, ReadDecide, Goto, local
  <2>2. Locked(t)'
    BY <1>1, <1>2, <1>3, SetupTypes, ThreadTypes DEF Types, Pending, Locked, Local, Other, Thread, At, Looks, Wakes, Conts, Thens, Ends, ReadDecide, Goto, local
  <2>3. AtEnd(t)'
    BY <1>1, <1>2, <1>3 DEF Types, Pending, Locked, AtEnd, Local, Other, Thread, At, Looks, Wakes, Conts, Thens, ReadDecide, Goto, local
  <2>4. Amount(t)'
    BY <1>1, <1>2, SetupTypes, ThreadTypes DEF Types, Pending, Amount, Local, At, Looks, Wakes, Conts, Thens, ReadDecide, Goto, local
  <2> QED BY <2>1, <2>2, <2>3, <2>4 DEF Local
<1>6. lock["buffer"] \notin {None, t} => lock'["buffer"] = lock["buffer"]
  BY <1>1 DEF Types, Locked, Local, At, Looks, Wakes, Conts, Ends, ReadDecide, Goto, local
<1>7. /\ At(t)' = "closed" <=> At(t) = "closed"
      /\ pc'[t] = "downgrade" <=> pc[t] = "downgrade"
      /\ pc[t] # "asleep" \/ pc'[t] = pc[t]
  BY <1>1 DEF Types, Pending, Local, At, Looks, Wakes, Conts, Thens, ReadDecide, Goto, local
<1>8. Queues'
  BY <1>1, <1>2, <1>7, QueuesSame
<1> QED BY <1>2, <1>4, <1>5, <1>6, <1>7, <1>8, Calm

LEMMA WriteCallStep ==
    ASSUME IInv, NEW t \in Thread, t \in Writer, NEW n \in setup.writes, WriteCall(t, n)
    PROVE  IInv'
<1>1. Types /\ Queues /\ RingType /\ RingExact /\ Local(t)
  BY DEF IInv, Shared, Types
<1>2. Only(t) /\ setup' = setup /\ UNCHANGED ring /\ refs' = refs /\ waiters' = waiters
  <2>1. setup' = setup /\ UNCHANGED ring /\ refs' = refs /\ waiters' = waiters
    BY DEF WriteCall, Goto, sig, local
  <2>2. Only(t)
    BY <1>1 DEF Types, Only, WriteCall, Goto, sig, local
  <2> QED BY <2>1, <2>2
<1>3. RingType' /\ AvailableRead' = AvailableRead /\ status' = status
  BY <1>1, <1>2, RingSame
<1>4. Types'
  BY <1>1, <1>2, <1>3, WakeTypes, SetupTypes, ThreadTypes DEF Types, PCs, Looks, Wakes, Conts, Alone, Ends, Thens, Pending, Local, WriteCall, Goto, local
<1>5. Local(t)'
  <2>1. Pending(t)'
    BY <1>1, SetupTypes, ThreadTypes DEF Types, Pending, Local, At, Looks, Wakes, Conts, Thens, Ends, WriteCall, Goto, local
  <2>2. Locked(t)'
    BY <1>1, <1>2, <1>3, SetupTypes, ThreadTypes DEF Types, Pending, Locked, Local, Other, Thread, At, Looks, Wakes, Conts, Thens, Ends, WriteCall, Goto, local
  <2>3. AtEnd(t)'
    BY <1>1, <1>2, <1>3 DEF Types, Pending, Locked, AtEnd, Local, Other, Thread, At, Looks, Wakes, Conts, Thens, WriteCall, Goto, local
  <2>4. Amount(t)'
    BY SMTT(60), <1>1, <1>2, SetupTypes, ThreadTypes DEF Types, Pending, Amount, Local, At, Looks, Wakes, Conts, Thens, WriteCall, Goto, local
  <2> QED BY <2>1, <2>2, <2>3, <2>4 DEF Local
<1>6. lock["buffer"] \notin {None, t} => lock'["buffer"] = lock["buffer"]
  BY <1>1 DEF Types, Locked, Local, At, Looks, Wakes, Conts, Ends, WriteCall, Goto, local
<1>7. /\ At(t)' = "closed" <=> At(t) = "closed"
      /\ pc'[t] = "downgrade" <=> pc[t] = "downgrade"
      /\ pc[t] # "asleep" \/ pc'[t] = pc[t]
  BY <1>1 DEF Types, Pending, Local, At, Looks, Wakes, Conts, Thens, WriteCall, Goto, local
<1>8. Queues'
  BY <1>1, <1>2, <1>7, QueuesSame
<1> QED BY <1>2, <1>4, <1>5, <1>6, <1>7, <1>8, Calm

LEMMA WriteLockStep ==
    ASSUME IInv, NEW t \in Thread, WriteLock(t)
    PROVE  IInv'
<1>1. Types /\ Queues /\ RingType /\ RingExact /\ Local(t)
  BY DEF IInv, Shared, Types
<1>2. Only(t) /\ setup' = setup /\ UNCHANGED ring /\ refs' = refs /\ waiters' = waiters
  <2>1. setup' = setup /\ UNCHANGED ring /\ refs' = refs /\ waiters' = waiters
    BY DEF WriteLock, Goto, sig, local
  <2>2. Only(t)
    BY <1>1 DEF Types, Only, WriteLock, Goto, sig, local
  <2> QED BY <2>1, <2>2
<1>3. RingType' /\ AvailableRead' = AvailableRead /\ status' = status
  BY <1>1, <1>2, RingSame
<1>4. Types'
  BY <1>1, <1>2, <1>3, WakeTypes, SetupTypes, ThreadTypes DEF Types, PCs, Looks, Wakes, Conts, Alone, Ends, Thens, Pending, Local, WriteLock, Goto, local
<1>5. Local(t)'
  <2>1. Pending(t)'
    BY <1>1, SetupTypes, ThreadTypes DEF Types, Pending, Local, At, Looks, Wakes, Conts, Thens, Ends, WriteLock, Goto, Stuck, Free, AvailableWrite, local
  <2>2. Locked(t)'
    BY <1>1, <1>2, <1>3, SetupTypes, ThreadTypes DEF Types, Pending, Locked, Local, Other, Thread, At, Looks, Wakes, Conts, Thens, Ends, WriteLock, Goto, Stuck, Free, AvailableWrite, local
  <2>3. AtEnd(t)'
    BY <1>1, <1>2, <1>3 DEF Types, Pending, Locked, AtEnd, Local, Other, Thread, At, Looks, Wakes, Conts, Thens, WriteLock, Goto, Stuck, Free, AvailableWrite, local
  <2>4. Amount(t)'
    BY <1>1, <1>2, SetupTypes, ThreadTypes DEF Types, Pending, Amount, Local, At, Looks, Wakes, Conts, Thens, WriteLock, Goto, Stuck, Free, AvailableWrite, local
  <2> QED BY <2>1, <2>2, <2>3, <2>4 DEF Local
<1>6. lock["buffer"] \notin {None, t} => lock'["buffer"] = lock["buffer"]
  BY <1>1 DEF Types, Locked, Local, At, Looks, Wakes, Conts, Ends, WriteLock, Goto, Stuck, Free, AvailableWrite, local
<1>7. /\ At(t)' = "closed" <=> At(t) = "closed"
      /\ pc'[t] = "downgrade" <=> pc[t] = "downgrade"
      /\ pc[t] # "asleep" \/ pc'[t] = pc[t]
  BY <1>1 DEF Types, Pending, Local, At, Looks, Wakes, Conts, Thens, WriteLock, Goto, Stuck, Free, AvailableWrite, local
<1>8. Queues'
  BY <1>1, <1>2, <1>7, QueuesSame
<1> QED BY <1>2, <1>4, <1>5, <1>6, <1>7, <1>8, Calm

LEMMA WriteBrokenStep ==
    ASSUME IInv, NEW t \in Thread, WriteBroken(t)
    PROVE  IInv'
<1>1. Types /\ Queues /\ RingType /\ RingExact /\ Local(t)
  BY DEF IInv, Shared, Types
<1>2. Only(t) /\ setup' = setup /\ UNCHANGED ring /\ refs' = refs /\ waiters' = waiters
  <2>1. setup' = setup /\ UNCHANGED ring /\ refs' = refs /\ waiters' = waiters
    BY DEF WriteBroken, Goto, sig, local
  <2>2. Only(t)
    BY <1>1 DEF Types, Only, WriteBroken, Goto, sig, local
  <2> QED BY <2>1, <2>2
<1>3. RingType' /\ AvailableRead' = AvailableRead /\ status' = status
  BY <1>1, <1>2, RingSame
<1>4. Types'
  BY <1>1, <1>2, <1>3, WakeTypes, SetupTypes, ThreadTypes DEF Types, PCs, Looks, Wakes, Conts, Alone, Ends, Thens, Pending, Local, WriteBroken, Goto, local
<1>5. Local(t)'
  <2>1. Pending(t)'
    BY <1>1, SetupTypes, ThreadTypes DEF Types, Pending, Local, At, Looks, Wakes, Conts, Thens, Ends, WriteBroken, Goto, local
  <2>2. Locked(t)'
    BY <1>1, <1>2, <1>3, SetupTypes, ThreadTypes DEF Types, Pending, Locked, Local, Other, Thread, At, Looks, Wakes, Conts, Thens, Ends, WriteBroken, Goto, local
  <2>3. AtEnd(t)'
    BY <1>1, <1>2, <1>3 DEF Types, Pending, Locked, AtEnd, Local, Other, Thread, At, Looks, Wakes, Conts, Thens, WriteBroken, Goto, local
  <2>4. Amount(t)'
    BY <1>1, <1>2, SetupTypes, ThreadTypes DEF Types, Pending, Amount, Local, At, Looks, Wakes, Conts, Thens, WriteBroken, Goto, local
  <2> QED BY <2>1, <2>2, <2>3, <2>4 DEF Local
<1>6. lock["buffer"] \notin {None, t} => lock'["buffer"] = lock["buffer"]
  BY <1>1 DEF Types, Locked, Local, At, Looks, Wakes, Conts, Ends, WriteBroken, Goto, local
<1>7. /\ At(t)' = "closed" <=> At(t) = "closed"
      /\ pc'[t] = "downgrade" <=> pc[t] = "downgrade"
      /\ pc[t] # "asleep" \/ pc'[t] = pc[t]
  BY <1>1 DEF Types, Pending, Local, At, Looks, Wakes, Conts, Thens, WriteBroken, Goto, local
<1>8. Queues'
  BY <1>1, <1>2, <1>7, QueuesSame
<1> QED BY <1>2, <1>4, <1>5, <1>6, <1>7, <1>8, Calm

LEMMA WriteFullStep ==
    ASSUME IInv, NEW t \in Thread, WriteFull(t)
    PROVE  IInv'
<1>1. Types /\ Queues /\ RingType /\ RingExact /\ Local(t)
  BY DEF IInv, Shared, Types
<1>2. Only(t) /\ setup' = setup /\ UNCHANGED ring /\ refs' = refs /\ waiters' = waiters
  <2>1. setup' = setup /\ UNCHANGED ring /\ refs' = refs /\ waiters' = waiters
    BY DEF WriteFull, Goto, Waking, sig, local
  <2>2. Only(t)
    <3>1. CASE done[t] > 0
      BY <1>1, <3>1 DEF Types, Only, WriteFull, Goto, Waking, sig, local
    <3>2. CASE ~(done[t] > 0)
      BY <1>1, <3>2 DEF Types, Only, WriteFull, Goto, Waking, sig, local
    <3> QED BY <3>1, <3>2
  <2> QED BY <2>1, <2>2
<1>3. RingType' /\ AvailableRead' = AvailableRead /\ status' = status
  BY <1>1, <1>2, RingSame
<1>4. Types'
  <2>1. CASE done[t] > 0
    <3>1. wake' \in [Thread -> WakeType]
      <4>1. Waking(t, "read", FALSE, "write_signal")
        BY <2>1 DEF WriteFull
      <4> QED BY <1>1, <4>1, WakingType DEF Ends, Thens
    <3>2. pc' \in [Thread -> PCs]
      BY <1>1, <2>1 DEF Types, PCs, Looks, Wakes, Conts, Alone, Ends, Thens, Pending, Local, WriteFull, Goto, Waking, local
    <3>3. lock' \in [Ends \cup {"buffer"} -> Thread \cup {None}]
      BY <1>1, <2>1 DEF Types, WriteFull, Goto, Waking, local
    <3>4. /\ left' \in [Thread -> Nat] /\ done' \in [Thread -> Nat] /\ asleep' \subseteq Thread
          /\ closed' \in [Thread -> BOOLEAN] /\ cont' \in [Thread -> Conts \cup {None}]
      BY <1>1, <2>1 DEF Types, Conts, WriteFull, Goto, Waking, local
    <3> QED BY <1>1, <1>2, <1>3, <3>1, <3>2, <3>3, <3>4 DEF Types
  <2>2. CASE ~(done[t] > 0)
    <3>1. wake' \in [Thread -> WakeType]
      BY <1>1, <2>2, WakeTypes DEF Types, Pending, Local, Wakes, Conts, Thens, Ends, WriteFull, Goto, Waking, local
    <3>2. pc' \in [Thread -> PCs]
      BY <1>1, <2>2 DEF Types, PCs, Looks, Wakes, Conts, Alone, Ends, Thens, Pending, Local, WriteFull, Goto, Waking, local
    <3>3. lock' \in [Ends \cup {"buffer"} -> Thread \cup {None}]
      BY <1>1, <2>2 DEF Types, WriteFull, Goto, Waking, local
    <3>4. /\ left' \in [Thread -> Nat] /\ done' \in [Thread -> Nat] /\ asleep' \subseteq Thread
          /\ closed' \in [Thread -> BOOLEAN] /\ cont' \in [Thread -> Conts \cup {None}]
      BY <1>1, <2>2 DEF Types, Conts, WriteFull, Goto, Waking, local
    <3> QED BY <1>1, <1>2, <1>3, <3>1, <3>2, <3>3, <3>4 DEF Types
  <2> QED BY <2>1, <2>2
<1>5. Local(t)'
  <2>1. Pending(t)'
    BY SMTT(60), <1>1, SetupTypes, ThreadTypes DEF Types, Pending, Local, At, Looks, Wakes, Conts, Thens, Ends, WriteFull, Goto, Waking, local
  <2>2. Locked(t)'
    <3>1. CASE done[t] > 0
      BY SMTT(60), <1>1, <1>2, <1>3, SetupTypes, ThreadTypes, <3>1 DEF Types, Pending, Locked, Local, Other, Thread, At, Looks, Wakes, Conts, Thens, Ends, WriteFull, Goto, Waking, local
    <3>2. CASE ~(done[t] > 0)
      BY SMTT(60), <1>1, <1>2, <1>3, SetupTypes, ThreadTypes, <3>2 DEF Types, Pending, Locked, Local, Other, Thread, At, Looks, Wakes, Conts, Thens, Ends, WriteFull, Goto, Waking, local
    <3> QED BY <3>1, <3>2
  <2>3. AtEnd(t)'
    BY <1>1, <1>2, <1>3 DEF Types, Pending, Locked, AtEnd, Local, Other, Thread, At, Looks, Wakes, Conts, Thens, WriteFull, Goto, Waking, local
  <2>4. Amount(t)'
    BY <1>1, <1>2, SetupTypes, ThreadTypes DEF Types, Pending, Amount, Local, At, Looks, Wakes, Conts, Thens, WriteFull, Goto, Waking, local
  <2> QED BY <2>1, <2>2, <2>3, <2>4 DEF Local
<1>6. lock["buffer"] \notin {None, t} => lock'["buffer"] = lock["buffer"]
  BY <1>1 DEF Types, Locked, Local, At, Looks, Wakes, Conts, Ends, WriteFull, Goto, Waking, local
<1>7. /\ At(t)' = "closed" <=> At(t) = "closed"
      /\ pc'[t] = "downgrade" <=> pc[t] = "downgrade"
      /\ pc[t] # "asleep" \/ pc'[t] = pc[t]
  <2>1. CASE done[t] > 0
    BY SMTT(60), <1>1, <2>1 DEF Types, Pending, Local, At, Looks, Wakes, Conts, Thens, WriteFull, Goto, Waking, local
  <2>2. CASE ~(done[t] > 0)
    BY SMTT(60), <1>1, <2>2 DEF Types, Pending, Local, At, Looks, Wakes, Conts, Thens, WriteFull, Goto, Waking, local
  <2> QED BY <2>1, <2>2
<1>8. Queues'
  BY <1>1, <1>2, <1>7, QueuesSame
<1> QED BY <1>2, <1>4, <1>5, <1>6, <1>7, <1>8, Calm

LEMMA WriteSignalStep ==
    ASSUME IInv, NEW t \in Thread, WriteSignal(t)
    PROVE  IInv'
<1>1. Types /\ Queues /\ RingType /\ RingExact /\ Local(t)
  BY DEF IInv, Shared, Types
<1>2. Only(t) /\ setup' = setup /\ UNCHANGED ring /\ refs' = refs /\ waiters' = waiters
  <2>1. setup' = setup /\ UNCHANGED ring /\ refs' = refs /\ waiters' = waiters
    BY DEF WriteSignal, Goto, sig, local
  <2>2. Only(t)
    BY <1>1 DEF Types, Only, WriteSignal, Goto, sig, local
  <2> QED BY <2>1, <2>2
<1>3. RingType' /\ AvailableRead' = AvailableRead /\ status' = status
  BY <1>1, <1>2, RingSame
<1>4. Types'
  BY <1>1, <1>2, <1>3, WakeTypes, SetupTypes, ThreadTypes DEF Types, PCs, Looks, Wakes, Conts, Alone, Ends, Thens, Pending, Local, WriteSignal, Goto, local
<1>5. Local(t)'
  <2>1. Pending(t)'
    BY <1>1, SetupTypes, ThreadTypes DEF Types, Pending, Local, At, Looks, Wakes, Conts, Thens, Ends, WriteSignal, Goto, local
  <2>2. Locked(t)'
    BY <1>1, <1>2, <1>3, SetupTypes, ThreadTypes DEF Types, Pending, Locked, Local, Other, Thread, At, Looks, Wakes, Conts, Thens, Ends, WriteSignal, Goto, local
  <2>3. AtEnd(t)'
    BY <1>1, <1>2, <1>3 DEF Types, Pending, Locked, AtEnd, Local, Other, Thread, At, Looks, Wakes, Conts, Thens, WriteSignal, Goto, local
  <2>4. Amount(t)'
    BY <1>1, <1>2, SetupTypes, ThreadTypes DEF Types, Pending, Amount, Local, At, Looks, Wakes, Conts, Thens, WriteSignal, Goto, local
  <2> QED BY <2>1, <2>2, <2>3, <2>4 DEF Local
<1>6. lock["buffer"] \notin {None, t} => lock'["buffer"] = lock["buffer"]
  BY <1>1 DEF Types, Locked, Local, At, Looks, Wakes, Conts, Ends, WriteSignal, Goto, local
<1>7. /\ At(t)' = "closed" <=> At(t) = "closed"
      /\ pc'[t] = "downgrade" <=> pc[t] = "downgrade"
      /\ pc[t] # "asleep" \/ pc'[t] = pc[t]
  BY <1>1 DEF Types, Pending, Local, At, Looks, Wakes, Conts, Thens, WriteSignal, Goto, local
<1>8. Queues'
  BY <1>1, <1>2, <1>7, QueuesSame
<1> QED BY <1>2, <1>4, <1>5, <1>6, <1>7, <1>8, Calm

LEMMA ReturnStep ==
    ASSUME IInv, NEW t \in Thread, Return(t)
    PROVE  IInv'
<1>1. Types /\ Queues /\ RingType /\ RingExact /\ Local(t)
  BY DEF IInv, Shared, Types
<1>2. Only(t) /\ setup' = setup /\ UNCHANGED ring /\ refs' = refs /\ waiters' = waiters
  <2>1. setup' = setup /\ UNCHANGED ring /\ refs' = refs /\ waiters' = waiters
    BY DEF Return, Goto, sig, local
  <2>2. Only(t)
    BY <1>1 DEF Types, Only, Return, Goto, sig, local
  <2> QED BY <2>1, <2>2
<1>3. RingType' /\ AvailableRead' = AvailableRead /\ status' = status
  BY <1>1, <1>2, RingSame
<1>4. Types'
  BY <1>1, <1>2, <1>3, WakeTypes, SetupTypes, ThreadTypes DEF Types, PCs, Looks, Wakes, Conts, Alone, Ends, Thens, Pending, Local, Return, Goto, local
<1>5. Local(t)'
  <2>1. Pending(t)'
    BY <1>1, SetupTypes, ThreadTypes DEF Types, Pending, Local, At, Looks, Wakes, Conts, Thens, Ends, Return, Goto, local
  <2>2. Locked(t)'
    BY <1>1, <1>2, <1>3, SetupTypes, ThreadTypes DEF Types, Pending, Locked, Local, Other, Thread, At, Looks, Wakes, Conts, Thens, Ends, Return, Goto, local
  <2>3. AtEnd(t)'
    BY <1>1, <1>2, <1>3 DEF Types, Pending, Locked, AtEnd, Local, Other, Thread, At, Looks, Wakes, Conts, Thens, Return, Goto, local
  <2>4. Amount(t)'
    BY SMTT(60), <1>1, <1>2, SetupTypes, ThreadTypes DEF Types, Pending, Amount, Local, At, Looks, Wakes, Conts, Thens, Return, Goto, local
  <2> QED BY <2>1, <2>2, <2>3, <2>4 DEF Local
<1>6. lock["buffer"] \notin {None, t} => lock'["buffer"] = lock["buffer"]
  BY <1>1 DEF Types, Locked, Local, At, Looks, Wakes, Conts, Ends, Return, Goto, local
<1>7. /\ At(t)' = "closed" <=> At(t) = "closed"
      /\ pc'[t] = "downgrade" <=> pc[t] = "downgrade"
      /\ pc[t] # "asleep" \/ pc'[t] = pc[t]
  BY <1>1 DEF Types, Pending, Local, At, Looks, Wakes, Conts, Thens, Return, Goto, local
<1>8. Queues'
  BY <1>1, <1>2, <1>7, QueuesSame
<1> QED BY <1>2, <1>4, <1>5, <1>6, <1>7, <1>8, Calm

LEMMA SignalStep ==
    ASSUME IInv, NEW t \in Thread, Signal(t)
    PROVE  IInv'
<1>1. Types /\ Queues /\ RingType /\ RingExact /\ Local(t)
  BY DEF IInv, Shared, Types
<1>2. Only(t) /\ setup' = setup /\ UNCHANGED ring /\ refs' = refs /\ waiters' = waiters
  <2>1. setup' = setup /\ UNCHANGED ring /\ refs' = refs /\ waiters' = waiters
    BY DEF Signal, Goto, sig, local
  <2>2. Only(t)
    BY <1>1 DEF Types, Only, Signal, Goto, sig, local
  <2> QED BY <2>1, <2>2
<1>3. RingType' /\ AvailableRead' = AvailableRead /\ status' = status
  BY <1>1, <1>2, RingSame
<1>4. Types'
  BY <1>1, <1>2, <1>3, WakeTypes, SetupTypes, ThreadTypes DEF Types, PCs, Looks, Wakes, Conts, Alone, Ends, Thens, Pending, Local, Signal, Goto, local
<1>5. Local(t)'
  <2>1. Pending(t)'
    BY SMTT(60), <1>1, SetupTypes, ThreadTypes DEF Types, Pending, Local, At, Looks, Wakes, Conts, Thens, Ends, Signal, Goto, local
  <2>2. Locked(t)'
    BY SMTT(60), <1>1, <1>2, <1>3, SetupTypes, ThreadTypes DEF Types, Pending, Locked, Local, Other, Thread, At, Looks, Wakes, Conts, Thens, Ends, Signal, Goto, local
  <2>3. AtEnd(t)'
    BY <1>1, <1>2, <1>3 DEF Types, Pending, Locked, AtEnd, Local, Other, Thread, At, Looks, Wakes, Conts, Thens, Signal, Goto, local
  <2>4. Amount(t)'
    BY <1>1, <1>2, SetupTypes, ThreadTypes DEF Types, Pending, Amount, Local, At, Looks, Wakes, Conts, Thens, Signal, Goto, local
  <2> QED BY <2>1, <2>2, <2>3, <2>4 DEF Local
<1>6. lock["buffer"] \notin {None, t} => lock'["buffer"] = lock["buffer"]
  BY <1>1 DEF Types, Locked, Local, At, Looks, Wakes, Conts, Ends, Signal, Goto, local
<1>7. /\ At(t)' = "closed" <=> At(t) = "closed"
      /\ pc'[t] = "downgrade" <=> pc[t] = "downgrade"
      /\ pc[t] # "asleep" \/ pc'[t] = pc[t]
  BY <1>1 DEF Types, Pending, Local, At, Looks, Wakes, Conts, Thens, Signal, Goto, local
<1>8. Queues'
  BY <1>1, <1>2, <1>7, QueuesSame
<1> QED BY <1>2, <1>4, <1>5, <1>6, <1>7, <1>8, Calm

LEMMA KickStep ==
    ASSUME IInv, NEW t \in Thread, Kick(t)
    PROVE  IInv'
<1>1. Types /\ Queues /\ RingType /\ RingExact /\ Local(t)
  BY DEF IInv, Shared, Types
<1>2. Only(t) /\ setup' = setup /\ UNCHANGED ring /\ refs' = refs /\ waiters' = waiters
  <2>1. setup' = setup /\ UNCHANGED ring /\ refs' = refs /\ waiters' = waiters
    BY DEF Kick, Goto, sig, local
  <2>2. Only(t)
    BY <1>1 DEF Types, Only, Kick, Goto, sig, local
  <2> QED BY <2>1, <2>2
<1>3. RingType' /\ AvailableRead' = AvailableRead /\ status' = status
  BY <1>1, <1>2, RingSame
<1>4. Types'
  BY <1>1, <1>2, <1>3, WakeTypes, SetupTypes, ThreadTypes DEF Types, PCs, Looks, Wakes, Conts, Alone, Ends, Thens, Pending, Local, Kick, Goto, local
<1>5. Local(t)'
  <2>1. Pending(t)'
    BY <1>1, SetupTypes, ThreadTypes DEF Types, Pending, Local, At, Looks, Wakes, Conts, Thens, Ends, Kick, Goto, local
  <2>2. Locked(t)'
    BY SMTT(60), <1>1, <1>2, <1>3, SetupTypes, ThreadTypes DEF Types, Pending, Locked, Local, Other, Thread, At, Looks, Wakes, Conts, Thens, Ends, Kick, Goto, local
  <2>3. AtEnd(t)'
    BY <1>1, <1>2, <1>3 DEF Types, Pending, Locked, AtEnd, Local, Other, Thread, At, Looks, Wakes, Conts, Thens, Kick, Goto, local
  <2>4. Amount(t)'
    BY <1>1, <1>2, SetupTypes, ThreadTypes DEF Types, Pending, Amount, Local, At, Looks, Wakes, Conts, Thens, Kick, Goto, local
  <2> QED BY <2>1, <2>2, <2>3, <2>4 DEF Local
<1>6. lock["buffer"] \notin {None, t} => lock'["buffer"] = lock["buffer"]
  BY <1>1 DEF Types, Locked, Local, At, Looks, Wakes, Conts, Ends, Kick, Goto, local
<1>7. /\ At(t)' = "closed" <=> At(t) = "closed"
      /\ pc'[t] = "downgrade" <=> pc[t] = "downgrade"
      /\ pc[t] # "asleep" \/ pc'[t] = pc[t]
  BY <1>1 DEF Types, Pending, Local, At, Looks, Wakes, Conts, Thens, Kick, Goto, local
<1>8. Queues'
  BY <1>1, <1>2, <1>7, QueuesSame
<1> QED BY <1>2, <1>4, <1>5, <1>6, <1>7, <1>8, Calm

-----------------------------------------------------------------------------
(* The wait queues.                                                        *)

LEMMA TailQueue ==
    ASSUME NEW s \in Seq(Thread), s # << >>, IsInjective(s)
    PROVE  /\ Tail(s) \in Seq(Thread) /\ IsInjective(Tail(s)) /\ Head(s) \in Thread
           /\ Range(Tail(s)) \subseteq Range(s)
<1>1. /\ Len(Tail(s)) = Len(s) - 1 /\ Len(s) \in Nat /\ Len(s) > 0
      /\ \A i \in 1 .. Len(s) - 1 : Tail(s)[i] = s[i + 1]
      /\ DOMAIN Tail(s) = 1 .. Len(s) - 1 /\ DOMAIN s = 1 .. Len(s)
  BY SMTT(60)
<1>2. Tail(s) \in Seq(Thread) /\ Head(s) \in Thread
  BY SMTT(60)
<1>3. IsInjective(Tail(s))
  BY SMTT(60), <1>1 DEF IsInjective
<1>4. Range(Tail(s)) \subseteq Range(s)
  BY SMTT(60), <1>1 DEF Range
<1> QED BY <1>2, <1>3, <1>4

LEMMA AppendQueue ==
    ASSUME NEW s \in Seq(Thread), NEW t \in Thread, IsInjective(s), t \notin Range(s)
    PROVE  /\ Append(s, t) \in Seq(Thread) /\ IsInjective(Append(s, t))
           /\ Range(Append(s, t)) \subseteq Range(s) \cup {t}
<1>1. /\ Len(s) \in Nat /\ DOMAIN s = 1 .. Len(s) /\ DOMAIN Append(s, t) = 1 .. Len(s) + 1
      /\ \A i \in 1 .. Len(s) : Append(s, t)[i] = s[i]
      /\ Append(s, t)[Len(s) + 1] = t
  BY SMTT(60)
<1>2. \A i \in 1 .. Len(s) : s[i] # t
  BY <1>1 DEF Range
<1>3. IsInjective(Append(s, t))
  BY SMTT(60), <1>1, <1>2 DEF IsInjective
<1>4. Range(Append(s, t)) \subseteq Range(s) \cup {t}
  BY SMTT(60), <1>1 DEF Range
<1> QED BY SMTT(60), <1>3, <1>4

LEMMA WithoutQueue ==
    ASSUME NEW s \in Seq(Thread), NEW t \in Thread, IsInjective(s)
    PROVE  /\ Without(s, t) \in Seq(Thread) /\ IsInjective(Without(s, t))
           /\ Range(Without(s, t)) \subseteq Range(s) \ {t}
<1>1. CASE t \notin Range(s)
  BY <1>1 DEF Without
<1>2. CASE t \in Range(s)
  <2> DEFINE at == CHOOSE i \in DOMAIN s : s[i] = t
             q  == [i \in 1 .. Len(s) - 1 |-> s[IF i < at THEN i ELSE i + 1]]
  <2>1. at \in DOMAIN s /\ s[at] = t
    BY <1>2 DEF Range
  <2>2. Without(s, t) = q
    BY <1>2 DEF Without
  <2> HIDE DEF at
  <2>3. Len(s) \in Nat /\ DOMAIN s = 1 .. Len(s) /\ \A i \in 1 .. Len(s) : s[i] \in Thread
    BY SMTT(60)
  <2>4. q \in [1 .. Len(s) - 1 -> Thread] /\ DOMAIN q = 1 .. Len(s) - 1
    BY SMTT(60), <2>1, <2>3
  <2>5. q \in Seq(Thread)
    BY SMTT(60), <2>1, <2>3, <2>4
  <2>6. \A i \in 1 .. Len(s) - 1 : q[i] = s[IF i < at THEN i ELSE i + 1]
    OBVIOUS
  <2> HIDE DEF q
  <2>7. IsInjective(q)
    BY SMTT(60), <2>1, <2>3, <2>4, <2>6 DEF IsInjective
  <2>8. Range(q) \subseteq Range(s) \ {t}
    BY SMTT(60), <2>1, <2>3, <2>4, <2>6 DEF IsInjective, Range
  <2> QED BY <2>2, <2>5, <2>7, <2>8
<1> QED BY <1>1, <1>2

\* One queue changed, by a step of t that was not in it or has left it.
LEMMA QueuesStep ==
    ASSUME Types, Queues, NEW t \in Thread, Only(t), NEW d \in Ends, NEW q \in Seq(Thread),
           waiters' = [waiters EXCEPT ![d] = q], IsInjective(q),
           \/ Range(q) \subseteq Range(waiters[d]) /\ pc[t] # "asleep"
           \/ Range(q) \subseteq Range(waiters[d]) \ {t} /\ d = Mine(t)
           \/ Range(q) \subseteq Range(waiters[d]) \cup {t} /\ d = Mine(t) /\ pc'[t] = "asleep"
                /\ pc[t] # "asleep"
    PROVE  Queues'
<1>1. \A e \in Ends : waiters'[e] = IF e = d THEN q ELSE waiters[e]
  BY DEF Types
<1>2. \A u \in Thread : Mine(u)' = Mine(u)
  BY DEF Mine
<1>3. \A e \in Ends : IsInjective(waiters'[e])
  BY <1>1 DEF Queues
<1>4. ASSUME NEW e \in Ends, NEW u \in Thread, u \in Range(waiters'[e])
      PROVE  pc'[u] = "asleep" /\ e = Mine(u)
  <2>1. CASE u = t
    BY <1>1, <1>4, <2>1 DEF Queues
  <2>2. CASE u # t
    BY SMTT(60), <1>1, <1>4, <2>2 DEF Queues, Only
  <2> QED BY <2>1, <2>2
<1> QED BY <1>2, <1>3, <1>4 DEF Queues

-----------------------------------------------------------------------------
(* The strong counts.                                                      *)

LEMMA CountFinite ==
    ASSUME NEW e \in Ends
    PROVE  /\ IsFiniteSet(Open(e)) /\ IsFiniteSet(Upgraded(e))
           /\ Cardinality(Open(e)) \in Nat /\ Cardinality(Upgraded(e)) \in Nat
           /\ Cardinality(Open(e)) <= Cardinality(Thread)
           /\ Cardinality(Upgraded(e)) <= Cardinality(Thread)
           /\ Cardinality(Thread) \in Nat
<1>1. IsFiniteSet(Thread)
  BY ThreadTypes, FS_Union DEF Thread
<1>2. Open(e) \subseteq Thread /\ Upgraded(e) \subseteq Thread
  BY DEF Open, Upgraded
<1>3. IsFiniteSet(Open(e)) /\ Cardinality(Open(e)) <= Cardinality(Thread)
  BY <1>1, <1>2, FS_Subset
<1>4. IsFiniteSet(Upgraded(e)) /\ Cardinality(Upgraded(e)) <= Cardinality(Thread)
  BY <1>1, <1>2, FS_Subset
<1> QED BY <1>1, <1>3, <1>4, FS_CardinalityType

\* A thread that has an end open, or has upgraded it, is counted.
LEMMA IsCounted ==
    ASSUME Types, Counted, NEW t \in Thread
    PROVE  /\ At(t) # "closed" => refs[Mine(t)] > 0
           /\ pc[t] = "downgrade" => refs[Other(t)] > 0
<1>1. Mine(t) \in Ends /\ Other(t) \in Ends
  BY DEF Mine, Other, Ends
<1>2. ASSUME NEW S, NEW x \in S, IsFiniteSet(S) PROVE Cardinality(S) > 0
  <2>1. Cardinality(S) # 0
    BY <1>2, FS_EmptySet
  <2> QED BY SMTT(60), <1>2, <2>1, FS_CardinalityType
<1>3. At(t) # "closed" => refs[Mine(t)] > 0
  <2>1. At(t) # "closed" => t \in Open(Mine(t))
    BY DEF Open
  <2> QED BY SMTT(60), <1>1, <1>2, <2>1, CountFinite DEF Counted
<1>4. pc[t] = "downgrade" => refs[Other(t)] > 0
  <2>1. pc[t] = "downgrade" => t \in Upgraded(Other(t))
    BY DEF Upgraded
  <2> QED BY SMTT(60), <1>1, <1>2, <2>1, CountFinite DEF Counted
<1> QED BY <1>3, <1>4

LEMMA SetsSame ==
    ASSUME NEW t \in Thread, Only(t)
    PROVE  /\ \A e \in Ends : Open(e)' \ {t} = Open(e) \ {t} /\ Upgraded(e)' \ {t} = Upgraded(e) \ {t}
           /\ \A e \in Ends : t \in Open(e)' <=> Mine(t) = e /\ At(t)' # "closed"
           /\ \A e \in Ends : t \in Upgraded(e)' <=> Other(t) = e /\ pc'[t] = "downgrade"
<1>1. \A u \in Thread : Mine(u)' = Mine(u) /\ Other(u)' = Other(u)
  BY DEF Mine, Other
<1>2. \A u \in Thread \ {t} : At(u)' = At(u) /\ pc'[u] = pc[u]
  BY DEF Only, At
<1> QED BY SMTT(60), <1>1, <1>2 DEF Open, Upgraded

\* Weak::upgrade found the other end.
LEMMA CountUpgrade ==
    ASSUME Types, Counted, NEW t \in Thread, Only(t), refs' = [refs EXCEPT ![Other(t)] = @ + 1],
           At(t)' = "closed" <=> At(t) = "closed", pc'[t] = "downgrade", pc[t] # "downgrade"
    PROVE  Counted'
<1>1. \A e \in Ends : Open(e)' = Open(e)
  BY SMTT(60), SetsSame DEF Open
<1>2. \A e \in Ends : Upgraded(e)' = IF e = Other(t) THEN Upgraded(e) \cup {t} ELSE Upgraded(e)
  BY SMTT(60), SetsSame DEF Upgraded
<1>3. t \notin Upgraded(Other(t)) /\ Other(t) \in Ends
  BY DEF Upgraded, Other, Ends
<1>4. Cardinality(Upgraded(Other(t)) \cup {t}) = Cardinality(Upgraded(Other(t))) + 1
  BY <1>3, CountFinite, FS_AddElement
<1>5. ASSUME NEW e \in Ends PROVE refs'[e] = Cardinality(Open(e)') + Cardinality(Upgraded(e)')
  <2>1. refs[e] = Cardinality(Open(e)) + Cardinality(Upgraded(e)) /\ refs[e] \in Nat
    BY DEF Counted, Types
  <2>2. Cardinality(Open(e)) \in Nat /\ Cardinality(Upgraded(e)) \in Nat
    BY CountFinite
  <2>3. CASE e = Other(t)
    <3>1. refs'[e] = refs[e] + 1
      BY <2>3, <1>3 DEF Types
    <3> QED BY SMTT(60), <3>1, <2>1, <2>2, <2>3, <1>1, <1>2, <1>4
  <2>4. CASE e # Other(t)
    <3>1. refs'[e] = refs[e]
      BY <2>4 DEF Types
    <3> QED BY <3>1, <2>1, <2>4, <1>1, <1>2
  <2> QED BY <2>3, <2>4
<1> QED BY <1>5 DEF Counted

\* The temporary reference ends.
LEMMA CountDowngrade ==
    ASSUME Types, Counted, NEW t \in Thread, Only(t), refs' = [refs EXCEPT ![Other(t)] = @ - 1],
           At(t)' = "closed" <=> At(t) = "closed", pc[t] = "downgrade", pc'[t] # "downgrade"
    PROVE  Counted'
<1>1. \A e \in Ends : Open(e)' = Open(e)
  BY SMTT(60), SetsSame DEF Open
<1>2. \A e \in Ends : Upgraded(e)' = IF e = Other(t) THEN Upgraded(e) \ {t} ELSE Upgraded(e)
  BY SMTT(60), SetsSame DEF Upgraded
<1>3. t \in Upgraded(Other(t)) /\ Other(t) \in Ends
  BY DEF Upgraded, Other, Ends
<1>4. Cardinality(Upgraded(Other(t)) \ {t}) = Cardinality(Upgraded(Other(t))) - 1
  BY <1>3, CountFinite, FS_RemoveElement
<1>5. ASSUME NEW e \in Ends PROVE refs'[e] = Cardinality(Open(e)') + Cardinality(Upgraded(e)')
  <2>1. refs[e] = Cardinality(Open(e)) + Cardinality(Upgraded(e)) /\ refs[e] \in Nat
    BY DEF Counted, Types
  <2>2. Cardinality(Open(e)) \in Nat /\ Cardinality(Upgraded(e)) \in Nat
    BY CountFinite
  <2>3. CASE e = Other(t)
    <3>1. refs'[e] = refs[e] - 1
      BY <2>3, <1>3 DEF Types
    <3> QED BY SMTT(60), <3>1, <2>1, <2>2, <2>3, <1>1, <1>2, <1>4
  <2>4. CASE e # Other(t)
    <3>1. refs'[e] = refs[e]
      BY <2>4 DEF Types
    <3> QED BY <3>1, <2>1, <2>4, <1>1, <1>2
  <2> QED BY <2>3, <2>4
<1> QED BY <1>5 DEF Counted

\* A thread gives up its end.
LEMMA CountClose ==
    ASSUME Types, Counted, NEW t \in Thread, Only(t), refs' = [refs EXCEPT ![Mine(t)] = @ - 1],
           At(t)' = "closed", At(t) # "closed", pc[t] # "downgrade", pc'[t] # "downgrade"
    PROVE  Counted'
<1>1. \A e \in Ends : Upgraded(e)' = Upgraded(e)
  BY SMTT(60), SetsSame DEF Upgraded
<1>2. \A e \in Ends : Open(e)' = IF e = Mine(t) THEN Open(e) \ {t} ELSE Open(e)
  BY SMTT(60), SetsSame DEF Open
<1>3. t \in Open(Mine(t)) /\ Mine(t) \in Ends
  BY DEF Open, Mine, Ends
<1>4. Cardinality(Open(Mine(t)) \ {t}) = Cardinality(Open(Mine(t))) - 1
  BY <1>3, CountFinite, FS_RemoveElement
<1>5. ASSUME NEW e \in Ends PROVE refs'[e] = Cardinality(Open(e)') + Cardinality(Upgraded(e)')
  <2>1. refs[e] = Cardinality(Open(e)) + Cardinality(Upgraded(e)) /\ refs[e] \in Nat
    BY DEF Counted, Types
  <2>2. Cardinality(Open(e)) \in Nat /\ Cardinality(Upgraded(e)) \in Nat
    BY CountFinite
  <2>3. CASE e = Mine(t)
    <3>1. refs'[e] = refs[e] - 1
      BY <2>3, <1>3 DEF Types
    <3>2. Cardinality(Open(e)') = Cardinality(Open(e)) - 1
      BY <2>3, <1>2, <1>4
    <3>3. Cardinality(Upgraded(e)') = Cardinality(Upgraded(e))
      BY <1>1
    <3> QED BY SMTT(60), <3>1, <3>2, <3>3, <2>1, <2>2
  <2>4. CASE e # Mine(t)
    <3>1. refs'[e] = refs[e]
      BY <2>4 DEF Types
    <3> QED BY <3>1, <2>1, <2>4, <1>1, <1>2
  <2> QED BY <2>3, <2>4
<1> QED BY <1>5 DEF Counted

-----------------------------------------------------------------------------
(* The steps that move a queue, a count or the ring.                       *)

LEMMA WakePopStep ==
    ASSUME IInv, NEW t \in Thread, WakePop(t)
    PROVE  IInv'
<1> DEFINE e == wake[t].queue
<1>1. Types /\ Queues /\ RingType /\ RingExact /\ Local(t)
  BY DEF IInv, Shared, Types
<1>2. /\ pc[t] = "wake_pop" /\ e \in Ends /\ wake[t].then \in Thens /\ At(t) = wake[t].then
      /\ wake[t] \in WakeType
  BY <1>1 DEF WakePop, Local, Pending, Wakes, Looks, At, Types
<1>3. /\ setup' = setup /\ UNCHANGED ring /\ refs' = refs /\ lock' = lock /\ left' = left /\ done' = done
      /\ asleep' = asleep /\ closed' = closed /\ cont' = cont
  BY DEF WakePop
<1>4. RingType' /\ AvailableRead' = AvailableRead /\ status' = status
  BY <1>1, <1>3, RingSame
<1>5. CASE waiters[e] = << >>
  <2>1. /\ pc' = [pc EXCEPT ![t] = wake[t].then] /\ wake' = [wake EXCEPT ![t] = NoWake]
        /\ waiters' = waiters
    BY <1>5 DEF WakePop, Goto
  <2>2. Only(t) /\ pc'[t] = At(t)
    BY <1>1, <1>2, <1>3, <2>1 DEF Only, Types
  <2>3. Types'
    <3>1. wake' \in [Thread -> WakeType]
      BY <1>1, <2>1, WakeTypes DEF Types
    <3>2. pc' \in [Thread -> PCs]
      BY <1>1, <1>2, <2>1 DEF Types, PCs, Thens, Conts, Alone
    <3> QED BY <1>1, <1>3, <1>4, <2>1, <3>1, <3>2 DEF Types
  <2>4. At(t)' = At(t) /\ pc'[t] \in Thens /\ pc'[t] \notin Looks \cup Wakes /\ pc'[t] # "eof"
    BY <1>2, <2>2 DEF At, Thens, Conts, Looks, Wakes
  <2>5. Local(t)'
    <3>1. Pending(t)'
      BY <1>1, <2>4 DEF Local, Pending
    <3>2. Locked(t)'
      BY <1>1, <1>2, <1>3, <1>4, <2>4 DEF Local, Locked, Looks, Other
    <3>3. AtEnd(t)'
      BY <2>4 DEF AtEnd
    <3>4. Amount(t)'
      BY <1>1, <1>3, <2>4 DEF Local, Amount
    <3> QED BY <3>1, <3>2, <3>3, <3>4 DEF Local
  <2>6. Queues'
    BY <1>1, <1>2, <2>1, <2>2, QueuesSame
  <2> QED BY <1>2, <1>3, <2>2, <2>3, <2>4, <2>5, <2>6, Calm DEF Looks
<1>6. CASE waiters[e] # << >>
  <2>1. /\ pc' = [pc EXCEPT ![t] = "wake_look"]
        /\ wake' = [wake EXCEPT ![t] = [wake[t] EXCEPT !.task = Head(waiters[e])]]
        /\ waiters' = [waiters EXCEPT ![e] = Tail(waiters[e])]
    BY <1>1, <1>2, <1>6 DEF WakePop, Goto, Types
  <2>2. waiters[e] \in Seq(Thread) /\ IsInjective(waiters[e])
    BY <1>1, <1>2 DEF Types, Queues
  <2>3. /\ Tail(waiters[e]) \in Seq(Thread) /\ IsInjective(Tail(waiters[e]))
        /\ Range(Tail(waiters[e])) \subseteq Range(waiters[e]) /\ Head(waiters[e]) \in Thread
    BY <1>6, <2>2, TailQueue
  <2>4. Only(t)
    BY <1>1, <1>3, <2>1 DEF Only, Types
  <2>5. Types'
    <3>1. wake' \in [Thread -> WakeType]
      BY <1>1, <1>2, <2>1, <2>3, WakeTypes DEF Types
    <3>2. pc' \in [Thread -> PCs] /\ waiters' \in [Ends -> Seq(Thread)]
      BY <1>1, <1>2, <2>1, <2>3 DEF Types, PCs, Wakes
    <3> QED BY <1>1, <1>3, <1>4, <3>1, <3>2 DEF Types
  <2>6. /\ pc'[t] = "wake_look" /\ wake'[t].then = wake[t].then /\ wake'[t].queue = e
        /\ At(t)' = At(t)
    BY <1>1, <1>2, <2>1 DEF Types, WakeType, At, Looks, Wakes
  <2>7. Local(t)'
    <3>1. Pending(t)'
      BY <1>1, <1>2, <2>6 DEF Local, Pending, Looks
    <3>2. Locked(t)'
      BY <1>1, <1>2, <1>3, <1>4, <2>6 DEF Local, Locked, Looks, Other
    <3>3. AtEnd(t)'
      BY <2>6 DEF AtEnd
    <3>4. Amount(t)'
      BY <1>1, <1>3, <2>6 DEF Local, Amount
    <3> QED BY <3>1, <3>2, <3>3, <3>4 DEF Local
  <2>8. Queues'
    BY <1>1, <1>2, <2>1, <2>3, <2>4, QueuesStep
  <2> QED BY <1>2, <1>3, <2>4, <2>5, <2>6, <2>7, <2>8, Calm
<1> QED BY <1>5, <1>6

LEMMA BlockSleepStep ==
    ASSUME IInv, NEW t \in Thread, BlockSleep(t)
    PROVE  IInv'
<1>1. Types /\ Queues /\ RingType /\ RingExact /\ Local(t)
  BY DEF IInv, Shared, Types
<1>2. /\ pc[t] = "block_sleep" /\ Mine(t) \in Ends /\ At(t) = "block_sleep"
      /\ t \in Writer => left[t] > 0
  BY <1>1 DEF BlockSleep, Local, Amount, Wakes, Looks, At, Mine, Ends
<1>3. /\ setup' = setup /\ UNCHANGED ring /\ refs' = refs /\ left' = left /\ done' = done
      /\ closed' = closed /\ cont' = cont /\ wake' = wake
      /\ lock' = [lock EXCEPT !["buffer"] = None, ![Mine(t)] = None]
  BY DEF BlockSleep, local
<1>4. RingType' /\ AvailableRead' = AvailableRead /\ status' = status
  BY <1>1, <1>3, RingSame
<1>5. \E l \in {"again", "asleep"} : pc' = [pc EXCEPT ![t] = l]
  BY DEF BlockSleep, Goto
<1>6. Only(t) /\ pc'[t] \in {"again", "asleep"} /\ At(t)' = pc'[t]
  BY <1>1, <1>3, <1>5 DEF Only, Types, At, Looks, Wakes
<1>7. lock' \in [Ends \cup {"buffer"} -> Thread \cup {None}]
  BY <1>1, <1>3 DEF Types
<1>8. pc' \in [Thread -> PCs]
  BY <1>1, <1>5 DEF Types, PCs, Alone
<1>9. Local(t)'
  BY <1>1, <1>2, <1>3, <1>6 DEF Local, Pending, Locked, AtEnd, Amount, Looks, Wakes, Conts
<1>10. lock["buffer"] = t
  BY <1>1, <1>2 DEF Local, Locked, Conts
<1>11. CASE closed[t]
  <2>1. waiters' = waiters /\ asleep' = asleep
    BY <1>11 DEF BlockSleep
  <2>2. Types'
    BY <1>1, <1>3, <1>4, <1>7, <1>8, <2>1 DEF Types
  <2>3. Queues'
    BY <1>1, <1>2, <1>6, <2>1, QueuesSame
  <2> QED BY <1>2, <1>3, <1>6, <1>9, <1>10, <2>2, <2>3, Calm
<1>12. CASE ~closed[t]
  <2>1. /\ waiters' = [waiters EXCEPT ![Mine(t)] = Append(waiters[Mine(t)], t)]
        /\ asleep' = asleep \cup {t} /\ pc'[t] = "asleep"
    BY <1>1, <1>12 DEF BlockSleep, Goto, Types
  <2>2. waiters[Mine(t)] \in Seq(Thread) /\ IsInjective(waiters[Mine(t)]) /\ t \notin Range(waiters[Mine(t)])
    BY <1>1, <1>2 DEF Types, Queues
  <2>3. /\ Append(waiters[Mine(t)], t) \in Seq(Thread) /\ IsInjective(Append(waiters[Mine(t)], t))
        /\ Range(Append(waiters[Mine(t)], t)) \subseteq Range(waiters[Mine(t)]) \cup {t}
    BY <2>2, AppendQueue
  <2>4. waiters' \in [Ends -> Seq(Thread)]
    BY <1>1, <1>2, <2>1, <2>3 DEF Types
  <2>5. Types'
    BY <1>1, <1>3, <1>4, <1>7, <1>8, <2>1, <2>4 DEF Types
  <2>6. Queues'
    BY <1>1, <1>2, <1>6, <2>1, <2>3, QueuesStep
  <2> QED BY <1>2, <1>3, <1>6, <1>9, <1>10, <2>5, <2>6, Calm
<1> QED BY <1>11, <1>12

LEMMA BlockEndStep ==
    ASSUME IInv, NEW t \in Thread, BlockEnd(t)
    PROVE  IInv'
<1>1. Types /\ Queues /\ RingType /\ RingExact /\ Local(t)
  BY DEF IInv, Shared, Types
<1>2. /\ pc[t] = "asleep" /\ Mine(t) \in Ends /\ At(t) = "asleep"
      /\ t \in Writer => left[t] > 0
  BY <1>1 DEF BlockEnd, Local, Amount, Wakes, Looks, At, Mine, Ends
<1>3. /\ setup' = setup /\ UNCHANGED ring /\ refs' = refs /\ left' = left /\ done' = done
      /\ closed' = closed /\ cont' = cont /\ wake' = wake /\ lock' = lock /\ asleep' = asleep
      /\ waiters' = [waiters EXCEPT ![Mine(t)] = Without(waiters[Mine(t)], t)]
  BY <1>1, <1>2 DEF BlockEnd, local, Types
<1>4. RingType' /\ AvailableRead' = AvailableRead /\ status' = status
  BY <1>1, <1>3, RingSame
<1>5. pc' = [pc EXCEPT ![t] = IF t \in Reader THEN "woken" ELSE "again"]
  BY DEF BlockEnd, Goto
<1>6. /\ Only(t) /\ pc'[t] \in {"again", "woken"} /\ At(t)' = pc'[t]
      /\ t \in Writer => pc'[t] # "woken"
  BY <1>1, <1>3, <1>5, ThreadTypes DEF Only, Types, At, Looks, Wakes
<1>7. pc' \in [Thread -> PCs]
  BY <1>1, <1>5 DEF Types, PCs, Alone
<1>8. Local(t)'
  BY <1>1, <1>2, <1>3, <1>6 DEF Local, Pending, Locked, AtEnd, Amount, Looks, Wakes, Conts
<1>9. waiters[Mine(t)] \in Seq(Thread) /\ IsInjective(waiters[Mine(t)])
  BY <1>1, <1>2 DEF Types, Queues
<1>10. /\ Without(waiters[Mine(t)], t) \in Seq(Thread) /\ IsInjective(Without(waiters[Mine(t)], t))
       /\ Range(Without(waiters[Mine(t)], t)) \subseteq Range(waiters[Mine(t)]) \ {t}
  BY <1>9, WithoutQueue
<1>11. waiters' \in [Ends -> Seq(Thread)]
  BY <1>1, <1>2, <1>3, <1>10 DEF Types
<1>12. Types'
  BY <1>1, <1>3, <1>4, <1>7, <1>11 DEF Types
<1>13. Queues'
  BY <1>1, <1>2, <1>3, <1>6, <1>10, QueuesStep
<1> QED BY <1>2, <1>3, <1>6, <1>8, <1>12, <1>13, Calm

\* What DropEnd leaves: the thread goes on, or wakes the sleepers first.
LEMMA Dropped ==
    ASSUME Types, NEW t \in Thread, NEW e \in Ends, NEW l \in Thens, DropEnd(t, e, l), refs[e] > 0
    PROVE  /\ refs' = [refs EXCEPT ![e] = @ - 1] /\ refs' \in [Ends -> Nat]
           /\ pc' \in [Thread -> PCs] /\ wake' \in [Thread -> WakeType]
           /\ \A u \in Thread \ {t} : pc'[u] = pc[u] /\ wake'[u] = wake[u]
           /\ \/ pc'[t] = l
              \/ pc'[t] = "wake_pop" /\ wake'[t].queue \in Ends /\ wake'[t].then = l
<1>1. refs' = [refs EXCEPT ![e] = @ - 1] /\ refs' \in [Ends -> Nat]
  BY SMTT(60) DEF DropEnd, Types
<1>2. CASE refs[e] = 1
  <2> DEFINE d == IF e = "read" THEN "write" ELSE "read"
             w == [queue |-> d, all |-> TRUE, task |-> None, then |-> l]
  <2>1. d \in Ends
    BY DEF Ends
  <2>2. Waking(t, d, TRUE, l)
    BY <1>2 DEF DropEnd
  <2>3. w \in WakeType /\ w.queue = d /\ w.then = l
    BY <2>1, WakeTypes
  <2>4. wake' = [wake EXCEPT ![t] = w] /\ pc' = [pc EXCEPT ![t] = "wake_pop"]
    BY <2>2 DEF Waking, Goto
  <2> HIDE DEF w, d
  <2>5. wake' \in [Thread -> WakeType] /\ pc' \in [Thread -> PCs]
    BY <2>3, <2>4 DEF Types, PCs, Wakes
  <2> QED BY <1>1, <2>1, <2>3, <2>4, <2>5 DEF Types
<1>3. CASE refs[e] # 1
  <2>1. wake' = wake /\ pc' = [pc EXCEPT ![t] = l]
    BY <1>3 DEF DropEnd, Goto
  <2> QED BY <1>1, <2>1 DEF Types, PCs, Thens, Conts, Alone
<1> QED BY <1>2, <1>3

LEMMA UpgradeStep ==
    ASSUME IInv, NEW t \in Thread, Upgrade(t)
    PROVE  IInv'
<1>1. Types /\ Queues /\ RingType /\ RingExact /\ Counted /\ Local(t)
  BY DEF IInv, Shared, Types
<1>2. /\ pc[t] = "upgrade" /\ Other(t) \in Ends /\ cont[t] \in Conts /\ At(t) = cont[t]
      /\ lock["buffer"] = t
  BY <1>1 DEF Upgrade, Local, Locked, Pending, Wakes, Looks, At, Other, Ends
<1>3. /\ setup' = setup /\ UNCHANGED ring /\ left' = left /\ done' = done /\ cont' = cont
      /\ wake' = wake /\ lock' = lock /\ waiters' = waiters /\ asleep' = asleep
      /\ closed' = [closed EXCEPT ![t] = refs[Other(t)] = 0]
  BY DEF Upgrade
<1>4. RingType' /\ RingExact' /\ AvailableRead' = AvailableRead /\ status' = status
  BY <1>1, <1>3, RingSame
<1>5. closed' \in [Thread -> BOOLEAN] /\ (closed'[t] <=> refs[Other(t)] = 0)
  BY <1>1, <1>3 DEF Types
<1>6. CASE refs[Other(t)] = 0
  <2>1. pc' = [pc EXCEPT ![t] = cont[t]] /\ refs' = refs
    BY <1>6 DEF Upgrade, Goto
  <2>2. Only(t) /\ pc'[t] = cont[t]
    BY <1>1, <1>3, <2>1 DEF Only, Types
  <2>3. At(t)' = At(t) /\ pc'[t] \notin Looks \cup Wakes \cup {"eof", "asleep"}
    BY <1>2, <2>2 DEF At, Conts, Looks, Wakes
  <2>4. pc' \in [Thread -> PCs]
    BY <1>1, <1>2, <2>1 DEF Types, PCs
  <2>5. Types'
    BY <1>1, <1>3, <1>4, <1>5, <2>1, <2>4 DEF Types
  <2>6. Local(t)'
    <3>1. Pending(t)'
      BY <1>1, <2>3 DEF Local, Pending
    <3>2. Locked(t)'
      BY <1>1, <1>2, <1>3, <1>4, <1>6, <2>1, <2>3 DEF Local, Locked, Looks, Other
    <3>3. AtEnd(t)'
      BY <2>3 DEF AtEnd
    <3>4. Amount(t)'
      BY <1>1, <1>3, <2>3 DEF Local, Amount
    <3> QED BY <3>1, <3>2, <3>3, <3>4 DEF Local
  <2>7. Queues'
    BY <1>1, <1>2, <1>3, <2>2, QueuesSame
  <2> QED BY <1>2, <1>3, <2>1, <2>2, <2>3, <2>5, <2>6, <2>7, Calm DEF Looks
<1>7. CASE refs[Other(t)] # 0
  <2>1. pc' = [pc EXCEPT ![t] = "downgrade"] /\ refs' = [refs EXCEPT ![Other(t)] = @ + 1]
    BY <1>7 DEF Upgrade, Goto
  <2>2. Only(t) /\ pc'[t] = "downgrade"
    BY <1>1, <1>3, <2>1 DEF Only, Types
  <2>3. At(t)' = At(t)
    BY <1>2, <1>3, <2>2 DEF At, Looks
  <2>4. pc' \in [Thread -> PCs] /\ refs' \in [Ends -> Nat]
    BY SMTT(60), <1>1, <1>2, <2>1 DEF Types, PCs, Looks
  <2>5. Types'
    BY <1>1, <1>3, <1>4, <1>5, <2>4 DEF Types
  <2>6. Local(t)'
    <3>1. Pending(t)'
      BY <1>1, <1>2, <1>3, <2>2, <2>3 DEF Local, Pending, Wakes
    <3>2. Locked(t)'
      BY <1>1, <1>2, <1>3, <1>4, <1>5, <1>7, <2>2, <2>3 DEF Local, Locked, Other
    <3>3. AtEnd(t)'
      BY <2>2 DEF AtEnd
    <3>4. Amount(t)'
      BY <1>1, <1>3, <2>3 DEF Local, Amount
    <3> QED BY <3>1, <3>2, <3>3, <3>4 DEF Local
  <2>7. Queues'
    BY <1>1, <1>2, <1>3, <2>2, QueuesSame
  <2>8. Counted'
    BY <1>1, <1>2, <2>1, <2>2, <2>3, CountUpgrade
  <2>9. Mild(t)
    <3>1. \A e \in Ends : refs[e] = 0 => refs'[e] = 0
      BY <1>1, <1>2, <1>7, <2>1 DEF Types
    <3> QED BY <1>2, <1>3, <1>4, <3>1 DEF Mild
  <2> QED BY <1>4, <2>2, <2>5, <2>6, <2>7, <2>8, <2>9, Assemble
<1> QED BY <1>6, <1>7

LEMMA DowngradeStep ==
    ASSUME IInv, NEW t \in Thread, Downgrade(t)
    PROVE  IInv'
<1>1. Types /\ Queues /\ RingType /\ RingExact /\ Counted /\ Local(t)
  BY DEF IInv, Shared, Types
<1>2. /\ pc[t] = "downgrade" /\ Other(t) \in Ends /\ cont[t] \in Conts /\ At(t) = cont[t]
      /\ lock["buffer"] = t /\ ~closed[t]
  BY <1>1 DEF Downgrade, Local, Locked, Pending, Wakes, Looks, At, Other, Ends
<1>3. /\ setup' = setup /\ UNCHANGED ring /\ left' = left /\ done' = done /\ cont' = cont
      /\ closed' = closed /\ lock' = lock /\ waiters' = waiters /\ asleep' = asleep
  BY DEF Downgrade
<1>4. RingType' /\ RingExact' /\ AvailableRead' = AvailableRead /\ status' = status
  BY <1>1, <1>3, RingSame
<1>5. DropEnd(t, Other(t), cont[t]) /\ cont[t] \in Thens /\ refs[Other(t)] > 0
  BY <1>1, <1>2, IsCounted DEF Downgrade, Thens
<1>6. /\ refs' = [refs EXCEPT ![Other(t)] = @ - 1] /\ refs' \in [Ends -> Nat]
      /\ pc' \in [Thread -> PCs] /\ wake' \in [Thread -> WakeType]
      /\ \A u \in Thread \ {t} : pc'[u] = pc[u] /\ wake'[u] = wake[u]
      /\ \/ pc'[t] = cont[t]
         \/ pc'[t] = "wake_pop" /\ wake'[t].queue \in Ends /\ wake'[t].then = cont[t]
  BY SMTT(60), <1>1, <1>2, <1>5, Dropped
<1>7. Only(t)
  BY <1>3, <1>6 DEF Only
<1>8. At(t)' = At(t) /\ pc'[t] \notin Looks \cup {"eof", "asleep"}
  BY <1>2, <1>6 DEF At, Conts, Looks, Wakes
<1>9. Types'
  BY <1>1, <1>3, <1>4, <1>6 DEF Types
<1>10. Local(t)'
  <2>1. Pending(t)'
    <3>1. pc'[t] \in Wakes => pc'[t] # cont[t]
      BY <1>2 DEF Wakes, Conts
    <3> QED BY <1>1, <1>5, <1>6, <1>8, <3>1 DEF Local, Pending
  <2>2. Locked(t)'
    BY <1>1, <1>2, <1>3, <1>4, <1>8 DEF Local, Locked, Looks
  <2>3. AtEnd(t)'
    BY <1>8 DEF AtEnd
  <2>4. Amount(t)'
    BY <1>1, <1>3, <1>8 DEF Local, Amount
  <2> QED BY <2>1, <2>2, <2>3, <2>4 DEF Local
<1>11. Queues'
  BY <1>1, <1>2, <1>3, <1>7, QueuesSame
<1>12. Counted'
  BY <1>1, <1>2, <1>6, <1>7, <1>8, CountDowngrade DEF Looks
<1>13. Mild(t)
  <2>1. \A e \in Ends : refs[e] = 0 => refs'[e] = 0
    BY SMTT(60), <1>1, <1>2, <1>5, <1>6 DEF Types
  <2> QED BY <1>2, <1>3, <1>4, <2>1 DEF Mild
<1> QED BY <1>4, <1>7, <1>9, <1>10, <1>11, <1>12, <1>13, Assemble

LEMMA CloseStep ==
    ASSUME IInv, NEW t \in Thread, Close(t)
    PROVE  IInv'
<1>1. Types /\ Queues /\ RingType /\ RingExact /\ Counted /\ Local(t)
  BY DEF IInv, Shared, Types
<1>2. pc[t] = "user" /\ Mine(t) \in Ends /\ At(t) = "user" /\ "closed" \in Thens
  BY DEF Close, Wakes, Looks, At, Mine, Ends, Thens
<1>3. /\ setup' = setup /\ UNCHANGED ring /\ left' = left /\ done' = done /\ cont' = cont
      /\ closed' = closed /\ lock' = lock /\ waiters' = waiters /\ asleep' = asleep
  BY DEF Close
<1>4. RingType' /\ RingExact' /\ AvailableRead' = AvailableRead /\ status' = status
  BY <1>1, <1>3, RingSame
<1>5. DropEnd(t, Mine(t), "closed") /\ refs[Mine(t)] > 0
  BY <1>1, <1>2, IsCounted DEF Close
<1>6. /\ refs' = [refs EXCEPT ![Mine(t)] = @ - 1] /\ refs' \in [Ends -> Nat]
      /\ pc' \in [Thread -> PCs] /\ wake' \in [Thread -> WakeType]
      /\ \A u \in Thread \ {t} : pc'[u] = pc[u] /\ wake'[u] = wake[u]
      /\ \/ pc'[t] = "closed"
         \/ pc'[t] = "wake_pop" /\ wake'[t].queue \in Ends /\ wake'[t].then = "closed"
  BY <1>1, <1>2, <1>5, Dropped
<1>7. Only(t)
  BY <1>3, <1>6 DEF Only
<1>8. At(t)' = "closed" /\ pc'[t] \notin Looks \cup {"eof", "asleep"}
  BY <1>6 DEF At, Looks, Wakes
<1>9. Types'
  BY <1>1, <1>3, <1>4, <1>6 DEF Types
<1>10. Local(t)'
  <2>1. Pending(t)'
    <3>1. pc'[t] \in Wakes => pc'[t] # "closed"
      BY DEF Wakes
    <3> QED BY <1>2, <1>6, <1>8, <3>1 DEF Pending
  <2>2. Locked(t)'
    BY <1>8 DEF Locked, Conts
  <2>3. AtEnd(t)'
    BY <1>8 DEF AtEnd
  <2>4. Amount(t)'
    BY <1>1, <1>3, <1>8 DEF Local, Amount
  <2> QED BY <2>1, <2>2, <2>3, <2>4 DEF Local
<1>11. Queues'
  BY <1>1, <1>2, <1>3, <1>7, QueuesSame
<1>12. Counted'
  BY <1>1, <1>2, <1>6, <1>7, <1>8, CountClose DEF Looks
<1>13. Mild(t)
  <2>1. \A e \in Ends : refs[e] = 0 => refs'[e] = 0
    BY SMTT(60), <1>1, <1>2, <1>5, <1>6 DEF Types
  <2> QED BY <1>3, <1>4, <2>1 DEF Mild
<1> QED BY <1>4, <1>7, <1>9, <1>10, <1>11, <1>12, <1>13, Assemble

LEMMA ReadStep ==
    ASSUME IInv, NEW t \in Thread, Read(t)
    PROVE  IInv'
<1> DEFINE n == Smaller(left[t], AvailableRead)
<1>1. Types /\ Queues /\ RingType /\ RingExact /\ Counted /\ Local(t)
  BY DEF IInv, Shared, Types
<1>2. /\ pc[t] = "again" /\ At(t) = "again" /\ t \in Reader /\ lock["buffer"] = None
      /\ AvailableRead # 0
  BY DEF Read, Wakes, Looks, At, Free, Stuck
<1>3. n \in 0 .. AvailableRead /\ n <= left[t] /\ n \in Nat
  BY SMTT(60), <1>1, Distance, RingTypes DEF Smaller, Types
<1>4. ReadBytes(n) /\ done' = [done EXCEPT ![t] = n] /\ Waking(t, "write", FALSE, "return")
  BY DEF Read
<1>5. /\ setup' = setup /\ refs' = refs /\ lock' = lock /\ waiters' = waiters /\ asleep' = asleep
      /\ left' = left /\ closed' = closed /\ cont' = cont
  BY DEF Read
<1> HIDE DEF n
<1>6. RingType' /\ RingExact'
  BY <1>1, <1>3, <1>4, ReadKeeps
<1>7. wake' \in [Thread -> WakeType]
  BY <1>1, <1>4, WakingType DEF Ends, Thens
<1>8. /\ pc' = [pc EXCEPT ![t] = "wake_pop"]
      /\ wake' = [wake EXCEPT ![t] = [queue |-> "write", all |-> FALSE, task |-> None, then |-> "return"]]
  BY <1>4 DEF Waking, Goto
<1>9. /\ Only(t) /\ pc'[t] = "wake_pop" /\ wake'[t].queue = "write" /\ wake'[t].then = "return"
      /\ At(t)' = "return" /\ done'[t] = n /\ left'[t] = left[t]
  BY <1>1, <1>4, <1>5, <1>8 DEF Only, Types, At, Looks, Wakes
<1>10. pc' \in [Thread -> PCs] /\ done' \in [Thread -> Nat]
  BY <1>1, <1>3, <1>4, <1>8 DEF Types, PCs, Wakes
<1>11. Types'
  BY <1>1, <1>5, <1>6, <1>7, <1>10 DEF Types
<1>12. Local(t)'
  <2>1. Pending(t)'
    BY <1>9 DEF Pending, Looks, Ends, Thens
  <2>2. Locked(t)'
    BY <1>9 DEF Locked, Conts
  <2>3. AtEnd(t)'
    BY <1>9 DEF AtEnd
  <2>4. Amount(t)'
    <3>1. left[t] \in Nat /\ done[t] \in Nat
      BY <1>1 DEF Types
    <3>2. left[t] + n > 0 => left[t] > 0
      BY SMTT(60), <1>3, <3>1
    <3>3. left[t] > 0 => \E m \in setup.reads \cup setup.writes : m \in Nat /\ left[t] <= m
      BY SMTT(60), <1>1, <3>1, SetupTypes DEF Local, Amount, Types
    <3>4. t \notin Writer
      BY <1>2, ThreadTypes
    <3> QED BY SMTT(60), <1>3, <1>5, <1>9, <3>1, <3>2, <3>3, <3>4 DEF Amount
  <2> QED BY <2>1, <2>2, <2>3, <2>4 DEF Local
<1>13. Queues'
  BY <1>1, <1>2, <1>5, <1>9, QueuesSame
<1>14. Counted'
  BY <1>1, <1>2, <1>5, <1>9, CountsSame
<1>15. Mild(t)
  BY <1>2, <1>5 DEF Mild
<1> QED BY <1>6, <1>9, <1>11, <1>12, <1>13, <1>14, <1>15, Assemble

LEMMA WriteStep ==
    ASSUME IInv, NEW t \in Thread, Write(t)
    PROVE  IInv'
<1>1. Types /\ Queues /\ RingType /\ RingExact /\ Counted /\ Local(t)
  BY DEF IInv, Shared, Types
<1>2. /\ pc[t] = "write_byte" /\ At(t) = "write_byte" /\ ~closed[t] /\ WriteByte
  BY DEF Write, Wakes, Looks, At
<1>3. /\ t \in Writer /\ t \notin Reader /\ lock["buffer"] = t /\ status # "Full" /\ left[t] > 0
      /\ cont[t] = "write_byte"
  BY <1>1, <1>2, ThreadTypes DEF Local, Pending, Locked, Amount, Conts, Thread
<1>4. RingType' /\ RingExact' /\ AvailableRead' = AvailableRead + 1
  BY <1>1, <1>2, <1>3, WriteKeeps
<1>5. /\ setup' = setup /\ refs' = refs /\ waiters' = waiters /\ asleep' = asleep
      /\ closed' = closed /\ cont' = cont
      /\ left' = [left EXCEPT ![t] = @ - 1] /\ done' = [done EXCEPT ![t] = @ + 1]
  BY DEF Write
<1>6. refs["write"] > 0
  BY <1>1, <1>2, <1>3, IsCounted DEF Mine
<1>7. /\ left' \in [Thread -> Nat] /\ done' \in [Thread -> Nat]
      /\ left'[t] = left[t] - 1 /\ done'[t] = done[t] + 1 /\ left[t] \in Nat /\ done[t] \in Nat
      /\ \A u \in Thread \ {t} : left'[u] = left[u] /\ done'[u] = done[u]
  BY SMTT(60), <1>1, <1>3, <1>5 DEF Types
<1>8. \E m \in setup.reads \cup setup.writes : left'[t] <= m /\ done'[t] <= m /\ left'[t] + done'[t] <= m
  <2>1. PICK m \in setup.reads \cup setup.writes : left[t] + done[t] <= m
    BY SMTT(60), <1>1, <1>3, <1>7 DEF Local, Amount
  <2>2. m \in Nat
    BY <1>1, SetupTypes DEF Types
  <2>3. left'[t] <= m /\ done'[t] <= m /\ left'[t] + done'[t] <= m
    BY SMTT(60), <1>3, <1>7, <2>1, <2>2
  <2> QED BY <2>3
<1>9. Mild(t)
  BY SMTT(60), <1>3, <1>5, <1>6 DEF Mild
<1>10. ASSUME Only(t), Types', Local(t)', At(t)' # "closed", pc'[t] # "downgrade" PROVE IInv'
  <2>1. Queues'
    BY <1>1, <1>2, <1>5, <1>10, QueuesSame
  <2>2. Counted'
    BY <1>1, <1>2, <1>5, <1>10, CountsSame
  <2> QED BY <1>4, <1>9, <1>10, <2>1, <2>2, Assemble
<1>11. CASE left[t] = 1
  <2>1. lock' = [lock EXCEPT !["buffer"] = None] /\ Waking(t, "read", FALSE, "return")
    BY <1>11 DEF Write
  <2>2. /\ pc' = [pc EXCEPT ![t] = "wake_pop"] /\ wake' \in [Thread -> WakeType]
        /\ wake' = [wake EXCEPT ![t] = [queue |-> "read", all |-> FALSE, task |-> None, then |-> "return"]]
    BY <1>1, <2>1, WakingType DEF Waking, Goto, Ends, Thens
  <2>3. /\ Only(t) /\ pc'[t] = "wake_pop" /\ wake'[t].queue = "read" /\ wake'[t].then = "return"
        /\ At(t)' = "return"
    BY <1>1, <1>5, <1>7, <2>2 DEF Only, Types, At, Looks, Wakes
  <2>4. pc' \in [Thread -> PCs] /\ lock' \in [Ends \cup {"buffer"} -> Thread \cup {None}]
    BY <1>1, <2>1, <2>2 DEF Types, PCs, Wakes
  <2>5. Types'
    BY <1>1, <1>4, <1>5, <1>7, <2>2, <2>4 DEF Types
  <2>6. Local(t)'
    <3>1. Pending(t)'
      BY <2>3 DEF Pending, Looks, Ends, Thens
    <3>2. Locked(t)'
      BY <2>3 DEF Locked, Conts
    <3>3. AtEnd(t)'
      BY <2>3 DEF AtEnd
    <3>4. Amount(t)'
      BY <1>5, <1>8, <2>3 DEF Amount
    <3> QED BY <3>1, <3>2, <3>3, <3>4 DEF Local
  <2> QED BY <1>10, <2>3, <2>5, <2>6
<1>12. CASE left[t] # 1
  <2>1. left'[t] > 0
    BY SMTT(60), <1>3, <1>7, <1>12
  <2>2. wake' = wake
    BY <1>12 DEF Write
  <2>3. CASE status' = "Full"
    <3>1. lock' = [lock EXCEPT !["buffer"] = None] /\ pc' = [pc EXCEPT ![t] = "again"]
      BY <1>12, <2>3 DEF Write, Goto
    <3>2. Only(t) /\ pc'[t] = "again" /\ At(t)' = "again"
      BY <1>1, <1>5, <1>7, <2>2, <3>1 DEF Only, Types, At, Looks, Wakes
    <3>3. pc' \in [Thread -> PCs] /\ lock' \in [Ends \cup {"buffer"} -> Thread \cup {None}]
      BY <1>1, <3>1 DEF Types, PCs, Alone
    <3>4. Types'
      BY <1>1, <1>4, <1>5, <1>7, <2>2, <3>3 DEF Types
    <3>5. Local(t)'
      <4>1. Pending(t)'
        BY <3>2 DEF Pending, Looks, Wakes
      <4>2. Locked(t)'
        BY <3>2 DEF Locked, Conts
      <4>3. AtEnd(t)'
        BY <3>2 DEF AtEnd
      <4>4. Amount(t)'
        BY <1>5, <1>8, <2>1, <3>2 DEF Amount
      <4> QED BY <4>1, <4>2, <4>3, <4>4 DEF Local
    <3> QED BY <1>10, <3>2, <3>4, <3>5
  <2>4. CASE status' # "Full"
    <3>1. lock' = lock /\ pc' = [pc EXCEPT ![t] = "upgrade"]
      BY <1>12, <2>4 DEF Write, Goto
    <3>2. Only(t) /\ pc'[t] = "upgrade" /\ At(t)' = "write_byte" /\ cont'[t] = "write_byte"
      BY SMTT(60), <1>1, <1>3, <1>5, <1>7, <2>2, <3>1 DEF Only, Types, At, Looks, Wakes
    <3>3. pc' \in [Thread -> PCs]
      BY <1>1, <3>1 DEF Types, PCs, Looks
    <3>4. Types'
      BY <1>1, <1>4, <1>5, <1>7, <2>2, <3>1, <3>3 DEF Types
    <3>5. Local(t)'
      <4>1. Pending(t)'
        BY <1>3, <3>2 DEF Pending, Looks, Wakes, Conts
      <4>2. Locked(t)'
        BY <1>3, <2>4, <3>1, <3>2 DEF Locked
      <4>3. AtEnd(t)'
        BY <3>2 DEF AtEnd
      <4>4. Amount(t)'
        BY <1>5, <1>8, <2>1, <3>2 DEF Amount
      <4> QED BY <4>1, <4>2, <4>3, <4>4 DEF Local
    <3> QED BY <1>10, <3>2, <3>4, <3>5
  <2> QED BY <2>3, <2>4
<1> QED BY <1>11, <1>12

-----------------------------------------------------------------------------
(* The invariant, and what follows from it.                                *)

LEMMA InitInv == Init => IInv
<1> SUFFICES ASSUME Init PROVE IInv
  OBVIOUS
<1>1. AvailableRead = 0 /\ head = 0 /\ tail = 0 /\ status = "Empty" /\ got = 0 /\ sent = 0 /\ torn = FALSE
  BY DEF Init, AvailableRead
<1>2. Size \in Nat /\ Size > 0 /\ Modulus \in Nat /\ Modulus > 0
  BY SMTT(60), RingTypes
<1>3. RingType
  <2>1. mem \in [0 .. Size - 1 -> Nat]
    BY DEF Init
  <2>2. torn \in BOOLEAN
    BY <1>1
  <2>3. 0 \in 0 .. Size - 1 /\ 0 \in 0 .. Modulus - 1
    BY SMTT(60), <1>2
  <2>4. head \in 0 .. Size - 1 /\ tail \in 0 .. Size - 1 /\ sent \in 0 .. Modulus - 1 /\ got \in 0 .. Modulus - 1
    BY <1>1, <2>3
  <2>5. status \in {"Empty", "Normal", "Full"}
    BY <1>1
  <2> QED BY <2>1, <2>2, <2>4, <2>5 DEF RingType
<1>4. RingExact
  <2>1. sent = (got + AvailableRead) % Modulus
    BY SMTT(60), <1>1, <1>2, Wrap
  <2> QED BY SMTT(60), <1>1, <2>1 DEF RingExact
<1>5. setup \in Setups /\ setup.threads \subseteq Thread
  BY SetupTypes DEF Init
<1>6. \A t \in Thread : At(t) = pc[t] /\ pc[t] = IF t \in setup.threads THEN "user" ELSE "closed"
  BY DEF Init, At, Looks, Wakes
<1>7. \A e \in Ends : /\ Open(e) = setup.threads \cap (IF e = "read" THEN Reader ELSE Writer)
                      /\ Upgraded(e) = {}
  BY <1>5, <1>6, ThreadTypes DEF Open, Upgraded, Mine, Ends, Thread
<1>8. \A e \in Ends : refs[e] = Cardinality(Open(e))
  BY <1>7 DEF Init
<1>9. Counted
  <2>1. \A e \in Ends : Cardinality(Upgraded(e)) = 0
    BY <1>7, FS_EmptySet
  <2> QED BY SMTT(60), <1>8, <2>1, CountFinite DEF Counted
<1>10. refs \in [Ends -> Nat]
  <2>1. DOMAIN refs = Ends /\ refs = [e \in Ends |-> refs[e]]
    BY DEF Init
  <2> QED BY <1>8, <2>1, CountFinite
<1>11. Types
  <2>1. wake \in [Thread -> WakeType]
    BY WakeTypes DEF Init
  <2>2. lock \in [Ends \cup {"buffer"} -> Thread \cup {None}] /\ waiters \in [Ends -> Seq(Thread)]
        /\ asleep \subseteq Thread
    BY SMTT(60) DEF Init
  <2>3. pc \in [Thread -> PCs] /\ cont \in [Thread -> Conts \cup {None}] /\ closed \in [Thread -> BOOLEAN]
    BY DEF Init, PCs, Alone
  <2>4. left \in [Thread -> Nat] /\ done \in [Thread -> Nat]
    BY DEF Init
  <2> QED BY <1>3, <1>5, <1>10, <2>1, <2>2, <2>3, <2>4 DEF Types
<1>12. Queues
  <2>1. \A e \in Ends : waiters[e] = << >>
    BY DEF Init
  <2>2. DOMAIN << >> = {}
    BY SMTT(60)
  <2> QED BY <2>1, <2>2 DEF Queues, IsInjective, Range
<1>13. ASSUME NEW t \in Thread PROVE Local(t)
  <2>1. left[t] = 0 /\ done[t] = 0 /\ pc[t] \in {"user", "closed"} /\ At(t) = pc[t]
    BY <1>6 DEF Init
  <2> QED BY SMTT(60), <2>1 DEF Local, Pending, Locked, AtEnd, Amount, Looks, Wakes, Conts
<1> QED BY <1>4, <1>9, <1>11, <1>12, <1>13 DEF IInv, Shared

LEMMA StutterInv ==
    ASSUME IInv, UNCHANGED vars
    PROVE  IInv'
<1>1. /\ UNCHANGED <<setup, ring, sig, refs, lock, waiters, asleep, pc, local>>
  BY DEF vars
<1>2. /\ UNCHANGED <<left, done, closed, cont, wake>> /\ setup' = setup /\ refs' = refs /\ pc' = pc
      /\ lock' = lock /\ waiters' = waiters /\ asleep' = asleep /\ UNCHANGED ring
  BY <1>1 DEF local
<1>3. RingType /\ RingExact /\ Types /\ Queues /\ Counted
  BY DEF IInv, Shared, Types
<1>4. RingType' /\ RingExact' /\ AvailableRead' = AvailableRead /\ status' = status
  BY <1>2, <1>3, RingSame
<1>5. \A t \in Thread : At(t)' = At(t) /\ Mine(t)' = Mine(t) /\ Other(t)' = Other(t)
  BY <1>2 DEF At, Mine, Other
<1>6. Types'
  BY <1>2, <1>3, <1>4 DEF Types
<1>7. Queues'
  BY <1>2, <1>3, <1>5 DEF Queues
<1>8. Counted'
  BY <1>2, <1>3, <1>5 DEF Counted, Open, Upgraded
<1>9. ASSUME NEW t \in Thread PROVE Local(t)'
  <2>1. Local(t)
    BY DEF IInv
  <2> QED BY SMTT(60), <1>2, <1>4, <1>5, <2>1 DEF Local, Pending, Locked, AtEnd, Amount
<1> QED BY <1>4, <1>6, <1>7, <1>8, <1>9 DEF IInv, Shared

LEMMA NextInv == IInv /\ [Next]_vars => IInv'
<1> SUFFICES ASSUME IInv, [Next]_vars PROVE IInv'
  OBVIOUS
<1>1. CASE UNCHANGED vars
  BY <1>1, StutterInv
<1>2. ASSUME NEW t \in Thread, Step(t) PROVE IInv'
  BY <1>2, WakePopStep, WakeLookStep, WakeTaskStep, UpgradeStep, DowngradeStep, BlockLockStep,
     BlockLookStep, BlockSleepStep, BlockEndStep, ReadStep, ReadEmptyStep, ReadEofStep, ReadWokenStep,
     ReadDecideStep, WriteLockStep, WriteStep, WriteBrokenStep, WriteFullStep, WriteSignalStep,
     ReturnStep DEF Step
<1>3. ASSUME NEW t \in Thread, Call(t) \/ Close(t) \/ Signal(t) \/ Kick(t) PROVE IInv'
  BY <1>3, ReadCallStep, WriteCallStep, CloseStep, SignalStep, KickStep DEF Call
<1> QED BY <1>1, <1>2, <1>3 DEF Next

\* The lock of the buffer, the contents of the ring and the strong counts stay
\* together: the inductive invariant of the pipe.
THEOREM PipeInvariant == Spec => []IInv
BY InitInv, NextInv, PTL DEF Spec

LEMMA Consequences == IInv => PipeExact
<1> SUFFICES ASSUME IInv PROVE PipeExact
  OBVIOUS
<1>1. Types /\ RingType /\ Queues /\ RingExact /\ Counted /\ \A t \in Thread : Local(t)
  BY DEF IInv, Shared, Types
<1>2. refs \in [Ends -> 0 .. 2 * Cardinality(Thread)]
  <2>1. \A e \in Ends : refs[e] \in 0 .. 2 * Cardinality(Thread)
    BY SMTT(60), <1>1, CountFinite DEF Counted
  <2> QED BY <1>1, <2>1 DEF Types
<1>3. \A e \in Ends : IsInjective(waiters[e]) /\ Range(waiters[e]) \subseteq Thread
  BY SMTT(60), <1>1 DEF Types, Queues, Range
<1>4. TypeOK
  BY <1>1, <1>2, <1>3 DEF Types, RingType, TypeOK, Local, Amount
<1>5. InOrder
  BY <1>1, <1>4 DEF RingExact, InOrder
<1>6. EofExact
  BY <1>1 DEF EofExact, Local, AtEnd
<1> QED BY <1>5, <1>6 DEF PipeExact

\* Every byte that a read returns is the next one written, whatever calls,
\* signals and closes interleave, and a read returns 0 only when nothing is
\* buffered and the write end has no reference left.
THEOREM BytesInOrder == Spec => []PipeExact
BY PipeInvariant, Consequences, PTL
=============================================================================
