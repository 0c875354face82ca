---------------------------- MODULE SdDriverProof ----------------------------
(***************************************************************************)
(* Proofs about SdDriver.                                                  *)
(*                                                                         *)
(* For any number of threads on any number of CPUs, as long as nothing has *)
(* overtaken sdrw between its look at the queue and its sleep: the card    *)
(* gets one request at a time, and the interrupt handler completes the     *)
(* request that the card answers.  The invariant says that what a thread   *)
(* saw of the queue still holds when it links its buffer and when it       *)
(* starts its request, and that the card has the request at the front.     *)
(*                                                                         *)
(* For every kind of card, every controller and any number of faults: what *)
(* sdInit and sd_init have found out about the card is true, the register  *)
(* of interrupt flags is empty when sd_start asserts it, and the clock is  *)
(* within its limit.  The invariant says, stage by stage, what driver and  *)
(* card know of each other.                                                *)
(***************************************************************************)
EXTENDS SdDriver, TLAPS

\* The thread has looked at the queue and not linked its buffer yet.
Links(t) == pc[t] \in {"push", "link"}

\* The types of the variables of SdQueue.
QueueType ==
    /\ sdque \in Seq(Thread)
    /\ pc \in [Thread -> {"idle", "push", "link", "lock", "sleep", "test"}]
    /\ flag \in [Thread -> BOOLEAN]
    /\ tail \in [Thread -> Thread \cup {None}]
    /\ done \in [Thread -> BOOLEAN]
    /\ active \in Thread \cup {None}

\* One thread at most is between its look at the queue and the link.
OneLinks == \A t, u \in Thread : Links(t) /\ Links(u) => t = u

\* The buffers of the queue are those of threads that wait, each once.
Queued ==
    /\ \A i \in 1 .. Len(sdque) : pc[sdque[i]] \in {"lock", "sleep"}
    /\ \A i, j \in 1 .. Len(sdque) : sdque[i] = sdque[j] => i = j
    /\ \A t \in Thread : pc[t] = "test" => done[t]

\* What a thread in sdrw has seen of the queue is still so, and one that is
\* to start its request has it at the front.
Seen ==
    /\ \A t \in Thread : Links(t) => (flag[t] <=> sdque = <<>>)
    /\ \A t \in Thread : pc[t] = "link" => tail[t] = IF sdque = <<>> THEN None ELSE sdque[Len(sdque)]
    /\ \A t \in Thread : pc[t] = "lock" /\ flag[t] => sdque # <<>> /\ sdque[1] = t

\* A request that its thread is about to start.
Starting == \E t \in Thread : pc[t] = "lock" /\ flag[t]

\* The card has the request at the front, unless its thread is about to start
\* it or sd_start stopped the kernel.
CardHasFront ==
    /\ active # None => sdque # <<>> /\ active = sdque[1]
    /\ active = None => sdque = <<>> \/ Starting \/ stopped
    /\ active # None => ~Starting
    /\ intr # "none" => active # None

\* The queue as long as nothing has overtaken sdrw.
Calm == QueueType /\ OneLinks /\ Queued /\ Seen /\ CardHasFront /\ ~clash

\* The inductive invariant of the queue.
QueueInv == ~raced => Calm

\* The cards, and the descriptors that the driver has of them.
CardRec ==
    [kind : Kind, widths : {{1}, {1, 4}}, state : {"idle", "ready", "ident", "stby", "tran"},
     app : BOOLEAN, rca : {0, 1}, width : {1, 4}]

SdCardRec ==
    [type : {"Unknown", "SD_TYPE_1", "SD_TYPE_2_SC", "SD_TYPE_2_HC"}, rca : {0, 1},
     ocr : SUBSET {"COMPLETE", "CCS"}, status : SUBSET {"APP_CMD"}, support : {{}, {1}, {1, 4}},
     init : BOOLEAN]

\* The interrupt flags that concern data, and a controller, whatever its
\* version and clock divider.
Flag == {"READ_RDY", "DATA_DONE"}

HostRec(V, D) == [version : V, inhibit : BOOLEAN, width : {1, 4}, cdiv : D, intr : SUBSET Flag]

IsHost(h) == h \in HostRec({h.version}, {h.cdiv})

\* The types of card, descriptor and controller.
CardType == card \in CardRec /\ sdCard \in SdCardRec /\ IsHost(host)

\* The stages up to the answer of the card that it is ready, those once it is
\* selected, and those after sdInit.
Reset == {"sdGetBaseClock", "sdResetCard", "GO_IDLE_STATE", "SEND_IF_COND", "APP_SEND_OP_COND"}
Selected == {"SEND_SCR", "sdReadSCR", "SET_BUS_WIDTH", "SET_BLOCKLEN"}
Done == {"READ_SINGLE", "sd_init", "ready", "late"}

\* The driver knows whether the card counts in blocks.
TypeKnown == sdCard.type = "SD_TYPE_2_HC" <=> card.kind = "v2_hc"

\* What driver and card know of each other at each stage.
Dialogue ==
    /\ stage \in Reset => "COMPLETE" \notin sdCard.ocr /\ card.width = 1 /\ host.width = 1
    /\ stage = "ALL_SEND_CID" => card.state = "ready"
    /\ stage = "SEND_REL_ADDR" => card.state = "ident"
    /\ stage \in {"SEND_CSD", "sdSetClock", "CARD_SELECT"} => card.state = "stby" /\ sdCard.rca = card.rca
    /\ stage \in Selected \cup Done => card.state = "tran" /\ sdCard.rca = card.rca
    /\ stage # "failed" => host.width = card.width
    /\ stage \notin Reset \cup {"failed"} => TypeKnown
    /\ stage \in {"READ_SINGLE", "ready"} => host.intr = {}
    /\ sdCard.init => stage \in Done \cup {"failed"}

\* The clock divider is the slow one of either version of the controller, until
\* the card has an address.
ClockSetting ==
    \/ host.cdiv \in {0, 64 * 256, 104 * 256}
    \/ /\ host.cdiv = 2 * 256
       /\ stage \in {"CARD_SELECT", "failed"} \cup Selected \cup Done
       /\ card.state \in {"stby", "tran"}

\* The inductive invariant of the dialogue with the card.
CardInv == CardType /\ Dialogue /\ DriverKnowsCard /\ ClockSetting
-----------------------------------------------------------------------------
\* sdrw enters, when no other thread is linking its buffer.
LEMMA EnterKeeps ==
    ASSUME Calm, NEW t \in Thread, NEW c \in Cpu, sdrw(t, c), ~raced'
    PROVE  Calm'
<1>1. /\ pc[t] = "idle" /\ pc' = [pc EXCEPT ![t] = "push"]
      /\ done' = [done EXCEPT ![t] = FALSE] /\ flag' = [flag EXCEPT ![t] = (sdque = <<>>)]
      /\ UNCHANGED <<sdque, tail, active, intr, stopped, clash>>
  BY DEF sdrw, goto
<1>2. \A u \in Thread : ~Links(u)
  BY DEF sdrw, Linking, Links
<1>3. QueueType'
  <2>1. flag' \in [Thread -> BOOLEAN] /\ done' \in [Thread -> BOOLEAN]
    BY <1>1, Zenon DEF Calm, QueueType
  <2> QED
    BY <1>1, <2>1 DEF Calm, QueueType
<1>4. \A u \in Thread : /\ u # t => pc'[u] = pc[u] /\ flag'[u] = flag[u] /\ done'[u] = done[u]
                        /\ u = t => pc'[u] = "push"
  BY <1>1 DEF Calm, QueueType
<1>5. OneLinks'
  BY <1>2, <1>4 DEF OneLinks, Links
<1>6. Queued'
  <2>1. \A i \in 1 .. Len(sdque) : sdque[i] \in Thread /\ sdque[i] # t
    BY <1>1 DEF Calm, QueueType, Queued
  <2> QED
    BY <1>1, <1>4, <2>1 DEF Calm, Queued
<1>7. Seen'
  <2>1. flag'[t] <=> sdque = <<>>
    BY <1>1, Zenon DEF Calm, QueueType
  <2> QED
    BY <1>1, <1>2, <1>4, <2>1 DEF Calm, Seen, Links
<1>8. CardHasFront'
  <2>1. Starting' <=> Starting
    BY <1>1, <1>4 DEF Starting
  <2> QED
    BY <1>1, <2>1 DEF Calm, CardHasFront
<1> QED
  BY <1>1, <1>3, <1>5, <1>6, <1>7, <1>8 DEF Calm

\* Without anything happening meanwhile, the node buflist_push found is the
\* last one, and the buffer goes to the end of the queue.
LEMMA LinkedLast ==
    ASSUME Calm, NEW t \in Thread, pc[t] = "link"
    PROVE  /\ linked(t) \in Seq(Thread) /\ Len(linked(t)) = Len(sdque) + 1
           /\ \A i \in 1 .. Len(sdque) : linked(t)[i] = sdque[i]
           /\ linked(t)[Len(sdque) + 1] = t
<1>1. sdque \in Seq(Thread) /\ Len(sdque) \in Nat
  BY DEF Calm, QueueType
<1>2. CASE sdque = <<>>
  <2>1. tail[t] = None
    BY <1>2 DEF Calm, Seen
  <2>2. linked(t) = <<t>>
    BY <2>1 DEF linked
  <2> QED
    BY <1>2, <2>2
<1>3. CASE sdque # <<>>
  <2> DEFINE n == Len(sdque)
             k == CHOOSE k \in DOMAIN sdque : sdque[k] = tail[t]
  <2>1. tail[t] = sdque[n] /\ n \in 1 .. n /\ DOMAIN sdque = 1 .. n
    BY <1>1, <1>3 DEF Calm, Seen
  <2>2. tail[t] \in Thread /\ tail[t] # None
    BY <1>1, <2>1, SdAssumption
  <2>3. tail[t] \in Range(sdque)
    BY <2>1 DEF Range
  <2>4. k \in DOMAIN sdque /\ sdque[k] = tail[t]
    BY <2>1, Zenon
  <2> HIDE DEF k
  <2>5. k = n
    BY <2>1, <2>4 DEF Calm, Queued
  <2>6. linked(t) = SubSeq(sdque, 1, k) \o <<t>>
    BY <2>2, <2>3 DEF linked, k
  <2>7. SubSeq(sdque, 1, n) = sdque
    BY <1>1
  <2>8. linked(t) = sdque \o <<t>>
    BY <2>5, <2>6, <2>7
  <2>9. sdque \o <<t>> \in Seq(Thread) /\ Len(sdque \o <<t>>) = n + 1
        /\ (\A i \in 1 .. n : (sdque \o <<t>>)[i] = sdque[i]) /\ (sdque \o <<t>>)[n + 1] = t
    BY <1>1
  <2> QED
    BY <2>8, <2>9
<1> QED
  BY <1>2, <1>3

\* buflist_push walks to the last node.
LEMMA TailKeeps ==
    ASSUME Calm, NEW t \in Thread, find_tail(t)
    PROVE  Calm'
<1>1. /\ pc[t] = "push" /\ pc' = [pc EXCEPT ![t] = "link"]
      /\ tail' = [tail EXCEPT ![t] = IF sdque = <<>> THEN None ELSE sdque[Len(sdque)]]
      /\ UNCHANGED <<sdque, flag, done, active, intr, stopped, clash>>
  BY DEF find_tail, goto
<1>2. QueueType'
  BY <1>1 DEF Calm, QueueType
<1>3. \A u \in Thread : IF u = t THEN pc'[u] = "link" ELSE pc'[u] = pc[u] /\ tail'[u] = tail[u]
  BY <1>1 DEF Calm, QueueType
<1>4. OneLinks'
  BY <1>1, <1>3 DEF Calm, OneLinks, Links
<1>5. Queued'
  <2>1. \A i \in 1 .. Len(sdque) : sdque[i] \in Thread /\ sdque[i] # t
    BY <1>1 DEF Calm, QueueType, Queued
  <2> QED
    BY <1>1, <1>3, <2>1 DEF Calm, Queued
<1>6. Seen'
  <2>1. tail'[t] = IF sdque = <<>> THEN None ELSE sdque[Len(sdque)]
    BY <1>1 DEF Calm, QueueType
  <2> QED
    BY <1>1, <1>3, <2>1 DEF Calm, Seen, Links
<1>7. CardHasFront'
  <2>1. Starting' <=> Starting
    BY <1>1, <1>3 DEF Starting
  <2> QED
    BY <1>1, <2>1 DEF Calm, CardHasFront
<1> QED
  BY <1>1, <1>2, <1>4, <1>5, <1>6, <1>7 DEF Calm

\* buflist_push links the buffer.
LEMMA PushKeeps ==
    ASSUME Calm, ~stopped, NEW t \in Thread, buflist_push(t)
    PROVE  Calm'
<1>1. /\ pc[t] = "link" /\ pc' = [pc EXCEPT ![t] = "lock"] /\ sdque' = linked(t)
      /\ tail' = [tail EXCEPT ![t] = None]
      /\ UNCHANGED <<flag, done, active, intr, stopped, clash>>
  BY DEF buflist_push, goto
<1> DEFINE n == Len(sdque)
<1>2. /\ sdque' \in Seq(Thread) /\ Len(sdque') = n + 1 /\ n \in Nat
      /\ (\A i \in 1 .. n : sdque'[i] = sdque[i]) /\ sdque'[n + 1] = t
  BY <1>1, LinkedLast DEF Calm, QueueType
<1>3. QueueType'
  BY <1>1, <1>2 DEF Calm, QueueType
<1>4. \A u \in Thread : IF u = t THEN pc'[u] = "lock" ELSE pc'[u] = pc[u] /\ ~Links(u)
  BY <1>1 DEF Calm, QueueType, OneLinks, Links
<1>5. OneLinks'
  BY <1>4 DEF OneLinks, Links
<1>6. Queued'
  <2>1. \A i \in 1 .. n : sdque[i] \in Thread /\ sdque[i] # t /\ pc[sdque[i]] \in {"lock", "sleep"}
    BY <1>1 DEF Calm, QueueType, Queued
  <2>2. \A i \in 1 .. n + 1 : pc'[sdque'[i]] \in {"lock", "sleep"}
    BY <1>2, <1>4, <2>1
  <2>3. \A i, j \in 1 .. n + 1 : sdque'[i] = sdque'[j] => i = j
    BY <1>2, <2>1 DEF Calm, Queued
  <2>4. \A u \in Thread : pc'[u] = "test" => done'[u]
    BY <1>1, <1>4 DEF Calm, Queued
  <2> QED
    BY <1>2, <2>2, <2>3, <2>4 DEF Queued
<1>7. sdque' # <<>> /\ (n = 0 <=> sdque = <<>>) /\ (flag[t] <=> n = 0) /\ (n # 0 => sdque'[1] = sdque[1])
  BY <1>1, <1>2 DEF Calm, QueueType, Seen, Links
<1>8. n = 0 => sdque'[1] = t
  BY <1>2
<1>9. Seen'
  BY <1>1, <1>4, <1>7, <1>8 DEF Calm, Seen, Links
<1>10. CardHasFront'
  <2>1. Starting' <=> Starting \/ flag[t]
    BY <1>1, <1>4 DEF Starting
  <2>2. Starting => n # 0
    BY <1>7 DEF Starting, Calm, Seen
  <2> QED
    BY <1>1, <1>7, <2>1, <2>2 DEF Calm, CardHasFront
<1> QED
  BY <1>1, <1>3, <1>5, <1>6, <1>9, <1>10 DEF Calm

\* sdrw goes to sleep, and starts its request if the queue was empty.
LEMMA SleepKeeps ==
    ASSUME Calm, ~stopped, NEW t \in Thread, sdrw_sleep(t)
    PROVE  Calm'
<1>1. /\ pc[t] = "lock" /\ pc' = [pc EXCEPT ![t] = "sleep"] /\ flag' = [flag EXCEPT ![t] = FALSE]
      /\ UNCHANGED <<sdque, tail, done, intr>>
  BY DEF sdrw_sleep, goto
<1>2. \A u \in Thread : IF u = t THEN pc'[u] = "sleep" ELSE pc'[u] = pc[u] /\ flag'[u] = flag[u]
  BY <1>1 DEF Calm, QueueType
<1>3. flag' \in [Thread -> BOOLEAN] /\ pc' \in [Thread -> {"idle", "push", "link", "lock", "sleep", "test"}]
  <2>1. flag' \in [Thread -> BOOLEAN]
    BY <1>1, Zenon DEF Calm, QueueType
  <2> QED
    BY <1>1, <2>1 DEF Calm, QueueType
<1>4. Queued'
  <2>1. \A i \in 1 .. Len(sdque) : sdque[i] \in Thread
    BY DEF Calm, QueueType
  <2> QED
    BY <1>1, <1>2, <2>1 DEF Calm, Queued
<1>5. OneLinks'
  BY <1>2 DEF Calm, OneLinks, Links
<1>6. Seen'
  BY <1>1, <1>2 DEF Calm, Seen, Links
<1>7. CASE flag[t]
  <2>1. sdque # <<>> /\ sdque[1] = t /\ buflist_front = t /\ t # None
    BY <1>1, <1>7, SdAssumption DEF Calm, QueueType, Seen, buflist_front
  <2>2. Starting /\ active = None
    BY <1>1, <1>7 DEF Calm, Starting, CardHasFront
  <2>3. ~Starting'
    BY <1>2, <2>1 DEF Calm, Starting, Seen
  <2>4. ~clash' /\ (active' = t \/ (active' = None /\ stopped'))
    BY <1>7, <2>1, <2>2 DEF Calm, sdrw_sleep, starts, sd_start
  <2>5. CardHasFront'
    BY <1>1, <2>1, <2>2, <2>3, <2>4 DEF Calm, CardHasFront
  <2>6. QueueType'
    BY <1>1, <1>3, <2>4 DEF Calm, QueueType
  <2> QED
    BY <1>4, <1>5, <1>6, <2>4, <2>5, <2>6 DEF Calm
<1>8. CASE ~flag[t]
  <2>1. UNCHANGED <<active, stopped, clash>>
    BY <1>8 DEF sdrw_sleep, starts
  <2>2. Starting' <=> Starting
    BY <1>1, <1>2, <1>8 DEF Starting
  <2>3. CardHasFront'
    BY <1>1, <2>1, <2>2 DEF Calm, CardHasFront
  <2>4. QueueType'
    BY <1>1, <1>3, <2>1 DEF Calm, QueueType
  <2> QED
    BY <1>4, <1>5, <1>6, <2>1, <2>3, <2>4 DEF Calm
<1> QED
  BY <1>7, <1>8

\* The loop of sdrw.
LEMMA TestKeeps ==
    ASSUME Calm, NEW t \in Thread, sdrw_test(t)
    PROVE  Calm'
<1>1. /\ pc[t] = "test" /\ pc' = [pc EXCEPT ![t] = "idle"] /\ done' = [done EXCEPT ![t] = FALSE]
      /\ UNCHANGED <<sdque, flag, tail, active, intr, stopped, clash>>
  BY DEF sdrw_test, goto, Calm, Queued
<1>2. \A u \in Thread : IF u = t THEN pc'[u] = "idle" ELSE pc'[u] = pc[u] /\ done'[u] = done[u]
  BY <1>1 DEF Calm, QueueType
<1>3. QueueType'
  <2>1. done' \in [Thread -> BOOLEAN]
    BY <1>1, Zenon DEF Calm, QueueType
  <2> QED
    BY <1>1, <2>1 DEF Calm, QueueType
<1>4. OneLinks'
  BY <1>2 DEF Calm, OneLinks, Links
<1>5. Queued'
  <2>1. \A i \in 1 .. Len(sdque) : sdque[i] \in Thread /\ sdque[i] # t
    BY <1>1 DEF Calm, QueueType, Queued
  <2> QED
    BY <1>1, <1>2, <2>1 DEF Calm, Queued
<1>6. Seen'
  BY <1>1, <1>2 DEF Calm, Seen, Links
<1>7. CardHasFront'
  <2>1. Starting' <=> Starting
    BY <1>1, <1>2 DEF Starting
  <2> QED
    BY <1>1, <2>1 DEF Calm, CardHasFront
<1> QED
  BY <1>1, <1>3, <1>4, <1>5, <1>6, <1>7 DEF Calm

\* The card.
LEMMA CardKeeps ==
    ASSUME Calm, card_done
    PROVE  Calm'
<1>1. active # None /\ UNCHANGED <<sdque, pc, flag, tail, done, active, stopped, clash>>
  BY DEF card_done
<1>2. QueueType' /\ OneLinks' /\ Queued' /\ Seen'
  BY <1>1 DEF Calm, QueueType, OneLinks, Links, Queued, Seen
<1>3. CardHasFront'
  BY <1>1 DEF Calm, CardHasFront, Starting
<1> QED
  BY <1>1, <1>2, <1>3 DEF Calm

\* The interrupt handler answers the request at the front, whose thread
\* sleeps, when no thread is linking its buffer.
LEMMA FinishedKeeps ==
    ASSUME Calm, ~stopped, sdque # <<>>, intr = "done", intr' = "none", UNCHANGED <<flag, tail>>,
           finished(Head(sdque)), ~raced'
    PROVE  Calm'
<1> DEFINE t == sdque[1]
           n == Len(sdque)
<1>1. sdque \in Seq(Thread) /\ Head(sdque) = t /\ t \in Thread /\ n \in Nat /\ n >= 1
  BY DEF Calm, QueueType
<1> HIDE DEF t
<1>2. /\ done' = [done EXCEPT ![t] = TRUE]
      /\ pc' = [pc EXCEPT ![t] = IF @ = "sleep" THEN "test" ELSE @]
      /\ sdque' = Tail(sdque)
      /\ ~Linking /\ pc[t] # "lock"
  BY <1>1 DEF finished, popped
<1>3. pc[t] = "sleep" /\ pc' = [pc EXCEPT ![t] = "test"]
  <2>1. pc[t] \in {"lock", "sleep"}
    BY <1>1 DEF Calm, Queued, t
  <2> QED
    BY <1>2, <2>1
<1>4. \A u \in Thread : IF u = t THEN pc'[u] = "test" ELSE pc'[u] = pc[u]
  BY <1>3 DEF Calm, QueueType
<1>5. /\ sdque' \in Seq(Thread) /\ Len(sdque') = n - 1
      /\ \A i \in 1 .. Len(sdque') : sdque'[i] = sdque[i + 1]
  BY <1>1, <1>2
<1>6. done' \in [Thread -> BOOLEAN] /\ done'[t] /\ (\A u \in Thread : u # t => done'[u] = done[u])
  BY <1>1, <1>2, Zenon DEF Calm, QueueType
<1>7. OneLinks'
  BY <1>2, <1>4 DEF OneLinks, Links, Linking
<1>8. ~Starting /\ ~Starting'
  <2>1. ~Starting
    BY DEF Calm, CardHasFront
  <2> QED
    BY <1>4, <2>1 DEF Starting
<1>9. Seen'
  BY <1>2, <1>4, <1>8 DEF Seen, Links, Linking, Starting
<1>10. Queued'
  <2>1. \A i \in 2 .. n : sdque[i] # t /\ sdque[i] \in Thread
    BY <1>1 DEF Calm, Queued, t
  <2>2. \A i \in 1 .. Len(sdque') : pc'[sdque'[i]] \in {"lock", "sleep"}
    BY <1>1, <1>4, <1>5, <2>1 DEF Calm, Queued
  <2>3. \A i, j \in 1 .. Len(sdque') : sdque'[i] = sdque'[j] => i = j
    <3> SUFFICES ASSUME NEW i \in 1 .. n - 1, NEW j \in 1 .. n - 1, sdque[i + 1] = sdque[j + 1] PROVE i = j
      BY <1>5
    <3>1. i + 1 \in 1 .. n /\ j + 1 \in 1 .. n
      BY <1>1
    <3>2. i + 1 = j + 1
      BY <3>1 DEF Calm, Queued
    <3> QED
      BY <3>2
  <2>4. \A u \in Thread : pc'[u] = "test" => done'[u]
    BY <1>4, <1>6 DEF Calm, Queued
  <2> QED
    BY <2>2, <2>3, <2>4 DEF Queued
<1>11. ~clash' /\ active' \in Thread \cup {None} /\ CardHasFront'
  <2>1. CASE sdque' = <<>>
    <3>1. active' = None /\ UNCHANGED <<stopped, clash>>
      BY <1>2, <2>1 DEF finished, popped
    <3> QED
      BY <1>8, <2>1, <3>1 DEF Calm, CardHasFront
  <2>2. CASE sdque' # <<>>
    <3>1. Head(sdque') = sdque'[1] /\ sdque'[1] \in Thread /\ sdque'[1] # None
      BY <1>5, <2>2, SdAssumption
    <3>2. ~clash' /\ (active' = sdque'[1] \/ (active' = None /\ stopped'))
      BY <1>2, <2>2, <3>1 DEF Calm, finished, popped, sd_start
    <3> QED
      BY <1>8, <2>2, <3>1, <3>2 DEF CardHasFront
  <2> QED
    BY <2>1, <2>2
<1>12. QueueType'
  BY <1>3, <1>5, <1>6, <1>11 DEF Calm, QueueType
<1> QED
  BY <1>7, <1>9, <1>10, <1>11, <1>12 DEF Calm

\* The interrupt handler: also a request that is started again, and an
\* interrupt that stops the kernel.
LEMMA IntrKeeps ==
    ASSUME Calm, ~stopped, sd_intr, ~raced'
    PROVE  Calm'
<1>1. sdque # <<>> /\ UNCHANGED <<flag, tail>>
  BY DEF sd_intr
<1>2. CASE intr = "done"
  BY <1>1, <1>2, FinishedKeeps DEF sd_intr
<1>3. CASE intr = "odd"
  <2>1. Head(sdque) = sdque[1] /\ sdque[1] \in Thread /\ sdque[1] # None
    BY <1>1, SdAssumption DEF Calm, QueueType
  <2>2. /\ intr' = "none" /\ UNCHANGED <<sdque, pc, done>> /\ ~clash'
        /\ active' = sdque[1] \/ (active' = None /\ stopped')
    BY <1>3, <2>1 DEF Calm, sd_intr, sd_start
  <2>3. QueueType' /\ OneLinks' /\ Queued' /\ Seen'
    BY <1>1, <2>1, <2>2 DEF Calm, QueueType, OneLinks, Links, Queued, Seen
  <2>4. ~Starting'
    BY <1>1, <1>3, <2>2 DEF Calm, CardHasFront, Starting
  <2> QED
    BY <1>1, <2>1, <2>2, <2>3, <2>4 DEF Calm, CardHasFront
<1>4. CASE intr = "error"
  <2>1. UNCHANGED <<sdque, pc, done, active, intr, clash>> /\ stopped'
    BY <1>4 DEF sd_intr
  <2>2. QueueType' /\ OneLinks' /\ Queued' /\ Seen'
    BY <1>1, <2>1 DEF Calm, QueueType, OneLinks, Links, Queued, Seen
  <2>3. CardHasFront'
    BY <1>1, <2>1 DEF Calm, CardHasFront, Starting
  <2> QED
    BY <2>1, <2>2, <2>3 DEF Calm
<1> QED
  BY <1>2, <1>3, <1>4 DEF sd_intr

\* Every step of the driver keeps the invariant of the queue.
LEMMA QueueInductive == QueueInv /\ [DNext]_<<vars, cardvars>> => QueueInv'
<1> SUFFICES ASSUME QueueInv, [DNext]_<<vars, cardvars>>, ~raced' PROVE Calm'
  BY DEF QueueInv
<1>1. CASE UNCHANGED vars
  <2>1. Calm
    BY <1>1 DEF QueueInv, vars
  <2>2. QueueType' /\ OneLinks' /\ Queued' /\ Seen' /\ ~clash'
    BY <1>1, <2>1 DEF vars, Calm, QueueType, OneLinks, Links, Queued, Seen
  <2>3. CardHasFront'
    BY <1>1, <2>1 DEF vars, Calm, CardHasFront, Starting
  <2> QED
    BY <2>2, <2>3 DEF Calm
<1>2. CASE Next
  <2>1. ~stopped
    BY <1>2 DEF Next
  <2>2. ASSUME NEW t \in Thread, NEW c \in Cpu, sdrw(t, c) PROVE Calm'
    <3>1. ~raced
      BY <2>2 DEF sdrw
    <3> QED
      BY <2>2, <3>1, EnterKeeps DEF QueueInv
  <2>3. ASSUME NEW t \in Thread, Step(t) PROVE Calm'
    <3>1. ~raced
      BY <2>3 DEF Step, find_tail, buflist_push, sdrw_sleep, sdrw_test
    <3> QED
      BY <2>1, <2>3, <3>1, TailKeeps, PushKeeps, SleepKeeps, TestKeeps DEF QueueInv, Step
  <2>4. ASSUME card_done PROVE Calm'
    <3>1. ~raced
      BY <2>4 DEF card_done
    <3> QED
      BY <2>4, <3>1, CardKeeps DEF QueueInv
  <2>5. ASSUME sd_intr PROVE Calm'
    <3>1. ~raced
      BY <2>5 DEF sd_intr, finished
    <3> QED
      BY <2>1, <2>5, <3>1, IntrKeeps DEF QueueInv
  <2> QED
    BY <1>2, <2>2, <2>3, <2>4, <2>5 DEF Next
<1> QED
  BY <1>1, <1>2 DEF DNext

\* On any number of CPUs: as long as nothing has overtaken sdrw, at most one
\* thread links its buffer, and the card has the request at the front.
THEOREM QueueInvariance == DSpec => []QueueInv
<1>1. DInit => QueueInv
  <2> SUFFICES ASSUME Init PROVE Calm
    BY DEF DInit, QueueInv
  <2>1. QueueType
    BY DEF Init, QueueType
  <2>2. OneLinks /\ Queued /\ Seen /\ ~clash
    BY DEF Init, OneLinks, Links, Queued, Seen
  <2>3. CardHasFront
    BY DEF Init, CardHasFront
  <2> QED
    BY <2>1, <2>2, <2>3 DEF Calm
<1> QED
  BY <1>1, QueueInductive, PTL DEF DSpec

\* For any number of threads on any number of CPUs: the card is given a
\* request only when it has answered the one before, unless another CPU has
\* overtaken sdrw between its look at the queue and its sleep.
THEOREM CardBusyOnce == DSpec => []OneRequestAtATime
<1>1. QueueInv => OneRequestAtATime
  BY DEF QueueInv, Calm, OneRequestAtATime
<1> QED
  BY <1>1, QueueInvariance, PTL

\* Under the same condition the request that the interrupt handler takes from
\* the queue is the one that the card answers.
THEOREM AnswerMatches == DSpec => []AnswerIsForFront
<1>1. QueueInv => AnswerIsForFront
  <2> SUFFICES ASSUME Calm, active # None PROVE active = buflist_front
    BY DEF QueueInv, AnswerIsForFront
  <2>1. sdque # <<>> /\ active = sdque[1] /\ sdque \in Seq(Thread)
    BY DEF Calm, QueueType, CardHasFront
  <2> QED
    BY <2>1 DEF buflist_front
<1> QED
  BY <1>1, QueueInvariance, PTL
-----------------------------------------------------------------------------
\* A card that accepts a command: what changes of it.
LEMMA AcceptsCard ==
    ASSUME CardType, NEW cmd \in DOMAIN sdCommandTable, NEW c \in Accepts(cmd)
    PROVE  /\ c \in CardRec /\ c.kind = card.kind
           /\ cmd \notin {"GO_IDLE_STATE", "SEND_REL_ADDR"} => c.rca = card.rca
           /\ cmd \notin {"GO_IDLE_STATE", "SET_BUS_WIDTH"} => c.width = card.width
           /\ cmd = "GO_IDLE_STATE" => c.width = 1
           /\ cmd = "SET_BUS_WIDTH" => c.width = 4
           /\ cmd = "APP_CMD" => c.state = card.state
           /\ cmd = "APP_SEND_OP_COND" => (c.state = "ready" /\ card.kind = "v2_hc" => arg = "HC")
           /\ cmd = "ALL_SEND_CID" => c.state = "ident"
           /\ cmd \in {"SEND_REL_ADDR", "SEND_CSD"} => c.state = "stby"
           /\ cmd \in {"CARD_SELECT", "SEND_SCR", "SET_BUS_WIDTH", "SET_BLOCKLEN", "READ_SINGLE"} => c.state = "tran"
<1> USE DEF only
<1>0. card \in CardRec
  BY DEF CardType
<1> DEFINE to(s) == [card EXCEPT !.state = s, !.app = FALSE]
<1>1. ASSUME NEW s \in {"idle", "ready", "ident", "stby", "tran"}
      PROVE  /\ to(s) \in CardRec /\ to(s).kind = card.kind /\ to(s).rca = card.rca /\ to(s).width = card.width
             /\ to(s).state = s
  BY <1>0 DEF CardRec
<1>2. CASE cmd = "GO_IDLE_STATE"
  <2>1. c = [card EXCEPT !.state = "idle", !.app = FALSE, !.rca = 0, !.width = 1]
    BY <1>2 DEF Accepts
  <2> QED
    BY <1>0, <1>2, <2>1 DEF CardRec
<1>3. CASE cmd = "APP_CMD"
  <2>1. c = [card EXCEPT !.app = TRUE]
    BY <1>3 DEF Accepts
  <2> QED
    BY <1>0, <1>3, <2>1 DEF CardRec
<1>4. CASE cmd = "APP_SEND_OP_COND"
  <2>1. c = to("idle") \/ (c = to("ready") /\ (card.kind = "v2_hc" => arg = "HC"))
    BY <1>4 DEF Accepts
  <2> QED
    BY ZenonT(30), <1>1, <1>4, <2>1
<1>5. CASE cmd = "SEND_REL_ADDR"
  <2>1. c = [to("stby") EXCEPT !.rca = 1]
    BY <1>5 DEF Accepts
  <2> QED
    BY <1>0, <1>5, <2>1 DEF CardRec
<1>6. CASE cmd = "SET_BUS_WIDTH"
  <2>1. c = [to("tran") EXCEPT !.width = 4]
    BY <1>6 DEF Accepts
  <2> QED
    BY <1>0, <1>6, <2>1 DEF CardRec
<1>7. CASE cmd \in {"SEND_IF_COND", "ALL_SEND_CID", "SEND_CSD", "CARD_SELECT"}
  <2>1. PICK s \in {"idle", "ready", "ident", "stby", "tran"} :
          /\ c = to(s) /\ (cmd = "ALL_SEND_CID" => s = "ident")
          /\ cmd = "SEND_CSD" => s = "stby"
          /\ cmd = "CARD_SELECT" => s = "tran"
    BY <1>7 DEF Accepts
  <2> QED
    BY <1>1, <1>7, <2>1
<1>8. CASE cmd \in {"SEND_SCR", "SET_BLOCKLEN", "READ_SINGLE"}
  <2>1. c = to("tran")
    BY <1>8 DEF Accepts
  <2> QED
    BY <1>1, <1>8, <2>1
<1> QED
  BY <1>2, <1>3, <1>4, <1>5, <1>6, <1>7, <1>8 DEF sdCommandTable

\* What the driver keeps of an answer.
LEMMA KeepSdCard ==
    ASSUME CardType, NEW cmd \in DOMAIN sdCommandTable, NEW c \in CardRec
    PROVE  /\ Keep(cmd, c) \in SdCardRec
           /\ Keep(cmd, c).type = sdCard.type /\ Keep(cmd, c).init = sdCard.init
           /\ Keep(cmd, c).rca = IF cmd = "SEND_REL_ADDR" THEN c.rca ELSE sdCard.rca
           /\ cmd # "APP_SEND_OP_COND" => Keep(cmd, c).ocr = sdCard.ocr
           /\ cmd = "APP_SEND_OP_COND" /\ "COMPLETE" \in Keep(cmd, c).ocr =>
                c.state = "ready" /\ ("CCS" \in Keep(cmd, c).ocr <=> c.kind = "v2_hc")
<1> DEFINE r == sdCommandTable[cmd]
           st == IF r = "NO" THEN sdCard.status
                 ELSE IF r \in {"R1", "R6"} /\ cmd \in AppCommand \cup {"APP_CMD"} THEN {"APP_CMD"} ELSE {}
           oc == IF r # "R3" THEN sdCard.ocr ELSE IF c.state # "ready" THEN {}
                 ELSE {"COMPLETE"} \cup (IF c.kind = "v2_hc" THEN {"CCS"} ELSE {})
           rc == IF r = "R6" THEN c.rca ELSE sdCard.rca
<1>1. sdCard \in SdCardRec /\ c.rca \in {0, 1}
  BY DEF CardType, CardRec
<1>2. Keep(cmd, c) = [sdCard EXCEPT !.status = st, !.ocr = oc, !.rca = rc]
  BY DEF Keep
<1>3. (r = "R6" <=> cmd = "SEND_REL_ADDR") /\ (r = "R3" <=> cmd = "APP_SEND_OP_COND")
  BY DEF sdCommandTable
<1>4. st \in SUBSET {"APP_CMD"} /\ oc \in SUBSET {"COMPLETE", "CCS"} /\ rc \in {0, 1}
  BY <1>1 DEF SdCardRec
<1>5. /\ cmd # "APP_SEND_OP_COND" => oc = sdCard.ocr
      /\ cmd = "APP_SEND_OP_COND" /\ "COMPLETE" \in oc => c.state = "ready" /\ ("CCS" \in oc <=> c.kind = "v2_hc")
      /\ rc = IF cmd = "SEND_REL_ADDR" THEN c.rca ELSE sdCard.rca
  BY <1>3
<1> HIDE DEF st, oc, rc
<1>6. /\ Keep(cmd, c) \in SdCardRec /\ Keep(cmd, c).type = sdCard.type /\ Keep(cmd, c).init = sdCard.init
      /\ Keep(cmd, c).rca = rc /\ Keep(cmd, c).ocr = oc
  BY <1>1, <1>2, <1>4 DEF SdCardRec
<1> QED
  BY <1>5, <1>6

\* The outcomes of sending a command, whatever is lost on the way.
Sent(cmd, o) ==
    /\ o.card \in Accepts(cmd) \cup {card}
    /\ o.sd = sdCard \/ (o.sd = Keep(cmd, o.card) /\ o.card \in Accepts(cmd))
    /\ o.result = "OK" => /\ o.card \in Accepts(cmd) /\ o.sd = Keep(cmd, o.card)
                          /\ o.host.intr = IF cmd \in DataCommand THEN {"READ_RDY"} ELSE {}
    /\ o.result = "TIMEOUT" => o.sd = sdCard
    /\ IsHost(o.host) /\ o.host.width = host.width /\ o.host.cdiv = host.cdiv

\* Only the flags of the controller have changed.
FlagsOnly(h, g, f) == IsHost(h) /\ h.intr = f /\ h.width = g.width /\ h.cdiv = g.cdiv

\* The controller after a command: it hangs or not, and raised some flags.
LEMMA FlagsSet ==
    ASSUME NEW g, IsHost(g), NEW b \in BOOLEAN, NEW f \in SUBSET Flag
    PROVE  FlagsOnly([g EXCEPT !.inhibit = b, !.intr = f], g, f)
<1> DEFINE h == [g EXCEPT !.inhibit = b, !.intr = f]
<1>1. ASSUME NEW V, NEW D, g \in HostRec(V, D)
      PROVE  h \in HostRec(V, D) /\ h.version = g.version /\ h.intr = f /\ h.width = g.width /\ h.cdiv = g.cdiv
  BY <1>1 DEF HostRec, Flag
<1> HIDE DEF h
<1>2. h \in HostRec({g.version}, {g.cdiv}) /\ h.version = g.version /\ h.intr = f /\ h.width = g.width /\ h.cdiv = g.cdiv
  BY <1>1 DEF IsHost
<1>3. IsHost(h)
  BY <1>2 DEF IsHost
<1>4. FlagsOnly(h, g, f)
  BY <1>2, <1>3 DEF FlagsOnly
<1> QED
  BY <1>4, Zenon DEF h

\* The controller when it raises flags or they are cleared.
LEMMA IntrSet ==
    ASSUME NEW g, IsHost(g), NEW f \in SUBSET Flag
    PROVE  LET h == [g EXCEPT !.intr = f]
           IN  IsHost(h) /\ h.intr = f /\ h.width = g.width /\ h.cdiv = g.cdiv
<1> DEFINE h == [g EXCEPT !.intr = f]
<1>1. ASSUME NEW V, NEW D, g \in HostRec(V, D)
      PROVE  h \in HostRec(V, D) /\ h.version = g.version /\ h.intr = f /\ h.width = g.width /\ h.cdiv = g.cdiv
  BY <1>1 DEF HostRec, Flag
<1> HIDE DEF h
<1>2. h \in HostRec({g.version}, {g.cdiv}) /\ h.version = g.version /\ h.intr = f /\ h.width = g.width /\ h.cdiv = g.cdiv
  BY <1>1 DEF IsHost
<1>3. IsHost(h)
  BY <1>2 DEF IsHost
<1> QED
  BY <1>2, <1>3 DEF h

\* The controller when it is switched to four bits.
LEMMA WidthSet ==
    ASSUME NEW g, IsHost(g)
    PROVE  LET h == [g EXCEPT !.width = 4]
           IN  IsHost(h) /\ h.intr = g.intr /\ h.width = 4 /\ h.cdiv = g.cdiv
<1> DEFINE h == [g EXCEPT !.width = 4]
<1>1. ASSUME NEW V, NEW D, g \in HostRec(V, D)
      PROVE  h \in HostRec(V, D) /\ h.version = g.version /\ h.intr = g.intr /\ h.width = 4 /\ h.cdiv = g.cdiv
  BY <1>1 DEF HostRec, Flag
<1> HIDE DEF h
<1>2. h \in HostRec({g.version}, {g.cdiv}) /\ h.version = g.version /\ h.intr = g.intr /\ h.width = 4 /\ h.cdiv = g.cdiv
  BY <1>1 DEF IsHost
<1>3. IsHost(h)
  BY <1>2 DEF IsHost
<1> QED
  BY <1>2, <1>3 DEF h

\* The controller when sdResetCard resets it.
LEMMA HostReset ==
    ASSUME NEW g, IsHost(g)
    PROVE  LET h == [g EXCEPT !.inhibit = FALSE, !.width = 1, !.intr = {}]
           IN  IsHost(h) /\ h.intr = {} /\ h.width = 1 /\ h.cdiv = g.cdiv
<1> DEFINE h == [g EXCEPT !.inhibit = FALSE, !.width = 1, !.intr = {}]
<1>1. ASSUME NEW V, NEW D, g \in HostRec(V, D)
      PROVE  h \in HostRec(V, D) /\ h.version = g.version /\ h.intr = {} /\ h.width = 1 /\ h.cdiv = g.cdiv
  BY <1>1 DEF HostRec, Flag
<1> HIDE DEF h
<1>2. h \in HostRec({g.version}, {g.cdiv}) /\ h.version = g.version /\ h.intr = {} /\ h.width = 1 /\ h.cdiv = g.cdiv
  BY <1>1 DEF IsHost
<1>3. IsHost(h)
  BY <1>2 DEF IsHost
<1> QED
  BY <1>2, <1>3 DEF h

\* The controller when its clock was set or not.
LEMMA ClockSet ==
    ASSUME NEW g, IsHost(g), NEW freq, NEW o \in sdSetClock(freq, g)
    PROVE  /\ IsHost(o.host) /\ o.host.intr = g.intr /\ o.host.width = g.width
           /\ o.host.cdiv = sdGetClockDivider(freq) \/ (~o.ok /\ o.host.cdiv = g.cdiv)
<1>1. ASSUME NEW d, NEW h, h = [g EXCEPT !.cdiv = d, !.inhibit = FALSE]
      PROVE  IsHost(h) /\ h.intr = g.intr /\ h.width = g.width /\ h.cdiv = d
  <2>1. ASSUME NEW V, NEW D, g \in HostRec(V, D)
        PROVE  /\ h \in HostRec(V, D \cup {d}) /\ h.version = g.version /\ h.cdiv = d
               /\ h.intr = g.intr /\ h.width = g.width
    BY <1>1, <2>1 DEF HostRec, Flag
  <2>2. /\ h \in HostRec({g.version}, {g.cdiv, d}) /\ h.version = g.version /\ h.cdiv = d
        /\ h.intr = g.intr /\ h.width = g.width
    <3>1. {g.cdiv} \cup {d} = {g.cdiv, d}
      OBVIOUS
    <3> QED
      BY <2>1, <3>1, Zenon DEF IsHost
  <2>3. IsHost(h)
    BY <2>2 DEF IsHost, HostRec
  <2> QED
    BY <2>2, <2>3
<1> DEFINE h == [g EXCEPT !.cdiv = sdGetClockDivider(freq), !.inhibit = FALSE]
<1>2. IsHost(h) /\ h.intr = g.intr /\ h.width = g.width /\ h.cdiv = sdGetClockDivider(freq)
  BY <1>1, Zenon
<1>3. o \in {[ok |-> FALSE, host |-> g], [ok |-> TRUE, host |-> h], [ok |-> FALSE, host |-> h]}
  BY Zenon DEF sdSetClock
<1> HIDE DEF h
<1>4. o.host = h \/ (~o.ok /\ o.host = g)
  BY <1>3
<1> QED
  BY <1>2, <1>4

\* An answer as Answer puts it together.
LEMMA AnswerFields ==
    ASSUME CardType, NEW r, NEW c, NEW sd, NEW inhibit \in BOOLEAN, NEW n, NEW f \in SUBSET Flag,
           NEW o, o = Answer(r, c, sd, inhibit, f, n)
    PROVE  /\ o.result = r /\ o.card = c /\ o.sd = sd /\ o.host.intr = f
           /\ IsHost(o.host) /\ o.host.width = host.width /\ o.host.cdiv = host.cdiv
           /\ o = [result |-> o.result, card |-> o.card, sd |-> o.sd, faults |-> o.faults, host |-> o.host]
<1> DEFINE h == [host EXCEPT !.inhibit = inhibit, !.intr = f]
<1>1. IsHost(h) /\ h.intr = f /\ h.width = host.width /\ h.cdiv = host.cdiv
  <2>1. FlagsOnly(h, host, f)
    BY FlagsSet, Zenon DEF CardType
  <2> QED
    BY <2>1, Zenon DEF FlagsOnly
<1>2. o = [result |-> r, card |-> c, sd |-> sd, faults |-> faults + n, host |-> h]
  BY Zenon DEF Answer
<1> HIDE DEF h
<1>3. /\ o.result = r /\ o.card = c /\ o.sd = sd /\ o.host = h
      /\ o = [result |-> o.result, card |-> o.card, sd |-> o.sd, faults |-> o.faults, host |-> o.host]
  <2>1. ASSUME NEW g, o = [result |-> r, card |-> c, sd |-> sd, faults |-> faults + n, host |-> g]
        PROVE  /\ o.result = r /\ o.card = c /\ o.sd = sd /\ o.host = g
               /\ o = [result |-> o.result, card |-> o.card, sd |-> o.sd, faults |-> o.faults, host |-> o.host]
    BY <2>1
  <2> QED
    BY <1>2, <2>1
<1> QED
  BY <1>1, <1>3, Zenon

\* A wait that fails does not report success.
LEMMA WaitFails ==
    ASSUME NEW b \in sdWaitForInterrupt
    PROVE  b[1] # "OK" /\ b[2] \in BOOLEAN
<1>1. b = <<"TIMEOUT", FALSE>> => b[1] = "TIMEOUT" /\ b[2] = FALSE
  OBVIOUS
<1>2. b = <<"TIMEOUT", TRUE>> => b[1] = "TIMEOUT" /\ b[2] = TRUE
  OBVIOUS
<1>3. b = <<"ERROR", FALSE>> => b[1] = "ERROR" /\ b[2] = FALSE
  OBVIOUS
<1> QED
  BY <1>1, <1>2, <1>3 DEF sdWaitForInterrupt

\* sdSendCommandP has only such outcomes.
LEMMA SendP ==
    ASSUME CardType, NEW cmd \in DOMAIN sdCommandTable, NEW o \in sdSendCommandP(cmd)
    PROVE  /\ Sent(cmd, o)
           /\ o = [result |-> o.result, card |-> o.card, sd |-> o.sd, faults |-> o.faults, host |-> o.host]
<1> DEFINE ready == IF cmd \in DataCommand THEN {"READ_RDY"} ELSE {}
           Ok == {Answer("OK", c, Keep(cmd, c), FALSE, cleared \cup ready, 0) : c \in Accepts(cmd)}
           silent == Answer("TIMEOUT", card, sdCard, FALSE, {}, 0)
           busy == Answer("BUSY", card, sdCard, TRUE, host.intr, 0)
           Lost == UNION {{Answer(b[1], c, sdCard, b[2], {}, 1) : c \in Accepts(cmd) \cup {card}} : b \in sdWaitForInterrupt}
<1>0. cleared \cup ready = ready /\ ready \in SUBSET Flag /\ host.intr \in SUBSET Flag
  BY DEF cleared, CardType, IsHost, HostRec, Flag
<1>1. o \in Ok \/ o = silent \/ o = busy \/ o \in Lost
  <2>1. o \in Ok \cup only(Accepts(cmd) = {}, silent) \cup only("BUSY" \in sdWaitForCommand, busy)
             \cup IF faults = MaxFaults THEN {} ELSE Lost
    BY Zenon DEF sdSendCommandP
  <2> HIDE DEF Ok, silent, busy, Lost
  <2> QED
    BY <2>1, Zenon DEF only
<1>2. CASE o \in Ok
  <2>1. PICK c \in Accepts(cmd) : o = Answer("OK", c, Keep(cmd, c), FALSE, cleared \cup ready, 0)
    BY <1>2, Zenon
  <2>2. o.result = "OK" /\ o.card = c /\ o.sd = Keep(cmd, c) /\ o.host.intr = ready
        /\ IsHost(o.host) /\ o.host.width = host.width /\ o.host.cdiv = host.cdiv
        /\ o = [result |-> o.result, card |-> o.card, sd |-> o.sd, faults |-> o.faults, host |-> o.host]
    <3>1. o = Answer("OK", c, Keep(cmd, c), FALSE, ready, 0)
      BY <1>0, <2>1
    <3>2. PICK b \in BOOLEAN, n \in {0} : b = FALSE
      BY Zenon
    <3>3. o = Answer("OK", c, Keep(cmd, c), b, ready, n)
      BY <3>1, <3>2
    <3> HIDE DEF ready
    <3> QED
      BY <1>0, <3>3, AnswerFields
  <2> QED
    BY <2>2 DEF Sent
<1>3. CASE o = silent
  <2>1. o.result = "TIMEOUT" /\ o.card = card /\ o.sd = sdCard
        /\ IsHost(o.host) /\ o.host.width = host.width /\ o.host.cdiv = host.cdiv
        /\ o = [result |-> o.result, card |-> o.card, sd |-> o.sd, faults |-> o.faults, host |-> o.host]
    <3>1. PICK b \in BOOLEAN, f \in SUBSET Flag, n \in {0} : b = FALSE /\ f = {}
      BY Zenon
    <3>2. o = Answer("TIMEOUT", card, sdCard, b, f, n)
      BY <1>3, <3>1
    <3> QED
      BY <3>2, AnswerFields
  <2> QED
    BY <2>1 DEF Sent
<1>4. CASE o = busy
  <2>1. o.result = "BUSY" /\ o.card = card /\ o.sd = sdCard
        /\ IsHost(o.host) /\ o.host.width = host.width /\ o.host.cdiv = host.cdiv
        /\ o = [result |-> o.result, card |-> o.card, sd |-> o.sd, faults |-> o.faults, host |-> o.host]
    <3>1. PICK b \in BOOLEAN, n \in {0} : b = TRUE
      BY Zenon
    <3>2. o = Answer("BUSY", card, sdCard, b, host.intr, n)
      BY <1>4, <3>1
    <3> QED
      BY <1>0, <3>2, AnswerFields
  <2> QED
    BY <2>1 DEF Sent
<1>5. CASE o \in Lost
  <2>1. PICK b \in sdWaitForInterrupt, c \in Accepts(cmd) \cup {card} : o = Answer(b[1], c, sdCard, b[2], {}, 1)
    BY <1>5, Zenon
  <2>2. o.result # "OK" /\ o.card = c /\ o.sd = sdCard
        /\ IsHost(o.host) /\ o.host.width = host.width /\ o.host.cdiv = host.cdiv
        /\ o = [result |-> o.result, card |-> o.card, sd |-> o.sd, faults |-> o.faults, host |-> o.host]
    BY <2>1, WaitFails, AnswerFields
  <2> QED
    BY <2>2 DEF Sent
<1> QED
  BY <1>1, <1>2, <1>3, <1>4, <1>5, Zenon

\* Neither has sdSendCommand others.
LEMMA Send ==
    ASSUME CardType, NEW cmd \in DOMAIN sdCommandTable, NEW o \in sdSendCommand(cmd)
    PROVE  Sent(cmd, o)
<1>1. PICK q \in sdSendCommandP(cmd) : o = q \/ o = [q EXCEPT !.result = "ERROR_APP_CMD"]
  BY DEF sdSendCommand
<1>2. Sent(cmd, q)
      /\ q = [result |-> q.result, card |-> q.card, sd |-> q.sd, faults |-> q.faults, host |-> q.host]
  BY SendP
<1>3. CASE o = q
  BY <1>2, <1>3
<1>4. CASE o = [q EXCEPT !.result = "ERROR_APP_CMD"]
  <2>1. o.result = "ERROR_APP_CMD" /\ o.card = q.card /\ o.sd = q.sd /\ o.host = q.host
    BY <1>2, <1>4
  <2> QED
    BY <1>2, <2>1 DEF Sent
<1> QED
  BY <1>1, <1>3, <1>4

\* What a command can have done, answered or not.
Effect(cmd, o) ==
    /\ o.card \in CardRec /\ o.card.kind = card.kind
    /\ o.sd \in SdCardRec /\ o.sd.type = sdCard.type /\ o.sd.init = sdCard.init
    /\ cmd \notin {"GO_IDLE_STATE", "SEND_REL_ADDR"} => o.card.rca = card.rca
    /\ cmd # "SEND_REL_ADDR" => o.sd.rca = sdCard.rca
    /\ cmd # "SET_BUS_WIDTH" => o.card.width \in {1, card.width}
    /\ cmd \notin {"GO_IDLE_STATE", "SET_BUS_WIDTH"} => o.card.width = card.width
    /\ cmd # "APP_SEND_OP_COND" => o.sd.ocr = sdCard.ocr
    /\ cmd = "APP_SEND_OP_COND" /\ "COMPLETE" \in o.sd.ocr /\ "COMPLETE" \notin sdCard.ocr =>
         /\ o.card.state = "ready" /\ ("CCS" \in o.sd.ocr <=> card.kind = "v2_hc")
         /\ card.kind = "v2_hc" => arg = "HC"
    /\ cmd = "APP_CMD" => o.card.state = card.state
    /\ cmd \in {"CARD_SELECT", "SEND_SCR", "SET_BUS_WIDTH", "SET_BLOCKLEN", "READ_SINGLE"} =>
         o.card.state \in {"tran", card.state}
    /\ o.result = "OK" =>
         /\ cmd = "SET_BUS_WIDTH" => o.card.width = 4
         /\ cmd = "SEND_REL_ADDR" => o.sd.rca = o.card.rca
         /\ cmd = "ALL_SEND_CID" => o.card.state = "ident"
         /\ cmd \in {"SEND_REL_ADDR", "SEND_CSD"} => o.card.state = "stby"
         /\ cmd \in {"CARD_SELECT", "SEND_SCR", "SET_BUS_WIDTH", "SET_BLOCKLEN", "READ_SINGLE"} =>
              o.card.state = "tran"

\* Every way a command is sent has such an effect.
LEMMA Outcome ==
    ASSUME CardType, NEW cmd \in DOMAIN sdCommandTable, NEW o, Sent(cmd, o)
    PROVE  Effect(cmd, o)
<1>0. card \in CardRec /\ sdCard \in SdCardRec
  BY DEF CardType
<1>1. CASE o.card \in Accepts(cmd)
  <2> DEFINE c == o.card
  <2>1. c \in Accepts(cmd)
    BY <1>1
  <2>2. /\ c \in CardRec /\ c.kind = card.kind
        /\ cmd \notin {"GO_IDLE_STATE", "SEND_REL_ADDR"} => c.rca = card.rca
        /\ cmd \notin {"GO_IDLE_STATE", "SET_BUS_WIDTH"} => c.width = card.width
        /\ cmd = "GO_IDLE_STATE" => c.width = 1
        /\ cmd = "SET_BUS_WIDTH" => c.width = 4
        /\ cmd = "APP_CMD" => c.state = card.state
        /\ cmd = "APP_SEND_OP_COND" => (c.state = "ready" /\ card.kind = "v2_hc" => arg = "HC")
        /\ cmd = "ALL_SEND_CID" => c.state = "ident"
        /\ cmd \in {"SEND_REL_ADDR", "SEND_CSD"} => c.state = "stby"
        /\ cmd \in {"CARD_SELECT", "SEND_SCR", "SET_BUS_WIDTH", "SET_BLOCKLEN", "READ_SINGLE"} => c.state = "tran"
    BY <2>1, AcceptsCard
  <2>3. o.sd = sdCard \/ o.sd = Keep(cmd, c)
    BY DEF Sent
  <2>4. o.result = "OK" => o.sd = Keep(cmd, c)
    BY DEF Sent
  <2> HIDE DEF c
  <2>5. /\ Keep(cmd, c) \in SdCardRec
        /\ Keep(cmd, c).type = sdCard.type /\ Keep(cmd, c).init = sdCard.init
        /\ Keep(cmd, c).rca = IF cmd = "SEND_REL_ADDR" THEN c.rca ELSE sdCard.rca
        /\ cmd # "APP_SEND_OP_COND" => Keep(cmd, c).ocr = sdCard.ocr
        /\ cmd = "APP_SEND_OP_COND" /\ "COMPLETE" \in Keep(cmd, c).ocr =>
             c.state = "ready" /\ ("CCS" \in Keep(cmd, c).ocr <=> c.kind = "v2_hc")
    BY <2>2, KeepSdCard
  <2> QED
    BY <1>0, <2>2, <2>3, <2>4, <2>5 DEF c, Effect
<1>2. CASE o.card \notin Accepts(cmd)
  <2>1. o.card = card /\ o.sd = sdCard /\ o.result # "OK"
    BY <1>2 DEF Sent
  <2> QED
    BY <1>0, <2>1 DEF Effect
<1> QED
  BY <1>1, <1>2

\* The commands that are sent in one way, and what follows them.
Follows(cmd, next) ==
    \/ cmd = "GO_IDLE_STATE" /\ next \in {"SEND_IF_COND", "APP_SEND_OP_COND"}
    \/ cmd = "ALL_SEND_CID" /\ next = "SEND_REL_ADDR"
    \/ cmd = "SEND_REL_ADDR" /\ next = "SEND_CSD"
    \/ cmd = "SEND_CSD" /\ next \in {"sdSetClock", "failed"}
    \/ cmd = "CARD_SELECT" /\ next = "SEND_SCR"
    \/ cmd = "SEND_SCR" /\ next = "sdReadSCR"
    \/ cmd = "READ_SINGLE" /\ next = "sd_init"

\* A command of sdInit or sd_init whose failure is the end.
LEMMA CommandKeeps ==
    ASSUME CardInv, NEW cmd, NEW next, Follows(cmd, next), Command(cmd, next)
    PROVE  CardInv'
<1>1. cmd \in DOMAIN sdCommandTable
  BY DEF Follows, sdCommandTable
<1>2. PICK o \in sdSendCommand(cmd) :
        /\ stage = cmd /\ card' = o.card /\ host' = o.host /\ sdCard' = o.sd
        /\ stage' = IF o.result = "OK" THEN next ELSE "failed"
  BY DEF Command, At, Happens
<1>3. CardType
  BY DEF CardInv
<1>4. Sent(cmd, o)
  BY <1>1, <1>3, Send
<1>5. IsHost(o.host) /\ o.host.width = host.width /\ o.host.cdiv = host.cdiv
  BY <1>4 DEF Sent
<1>6. /\ o.card \in CardRec /\ o.card.kind = card.kind
      /\ o.sd \in SdCardRec /\ o.sd.type = sdCard.type /\ o.sd.init = sdCard.init
      /\ cmd \notin {"GO_IDLE_STATE", "SEND_REL_ADDR"} => o.card.rca = card.rca
      /\ cmd # "SEND_REL_ADDR" => o.sd.rca = sdCard.rca
      /\ o.card.width \in {1, card.width}
      /\ cmd # "GO_IDLE_STATE" => o.card.width = card.width
      /\ o.sd.ocr = sdCard.ocr
      /\ cmd \in {"CARD_SELECT", "SEND_SCR", "READ_SINGLE"} => o.card.state \in {"tran", card.state}
      /\ o.result = "OK" =>
           /\ cmd = "SEND_REL_ADDR" => o.sd.rca = o.card.rca
           /\ cmd = "ALL_SEND_CID" => o.card.state = "ident"
           /\ cmd \in {"SEND_REL_ADDR", "SEND_CSD"} => o.card.state = "stby"
           /\ cmd \in {"CARD_SELECT", "SEND_SCR", "READ_SINGLE"} => o.card.state = "tran"
  <2>1. Effect(cmd, o)
    BY <1>1, <1>3, <1>4, Outcome
  <2> QED
    BY <1>3, <2>1 DEF Effect, Follows
<1>7. CardType'
  BY <1>2, <1>5, <1>6 DEF CardType
<1>8. Dialogue'
  BY <1>2, <1>5, <1>6 DEF CardInv, Dialogue, Follows, Reset, Selected, Done, TypeKnown
<1>9. DriverKnowsCard'
  BY <1>2, <1>5, <1>6 DEF CardInv, Dialogue, DriverKnowsCard, Follows, Reset, Selected, Done, TypeKnown
<1>10. ClockSetting'
  BY <1>2, <1>5, <1>6 DEF CardInv, ClockSetting, Follows, Selected, Done
<1> QED
  BY <1>7, <1>8, <1>9, <1>10 DEF CardInv

\* SEND_IF_COND, which an old card does not answer.
LEMMA IfCondKeeps ==
    ASSUME CardInv, SEND_IF_COND
    PROVE  CardInv'
<1>1. "SEND_IF_COND" \in DOMAIN sdCommandTable
  BY DEF sdCommandTable
<1>2. PICK o \in sdSendCommand("SEND_IF_COND") :
        /\ stage = "SEND_IF_COND" /\ card' = o.card /\ host' = o.host /\ sdCard' = o.sd
        /\ stage' \in {"failed", "sdResetCard", "APP_SEND_OP_COND"}
  BY DEF SEND_IF_COND, At, Happens
<1>3. CardType
  BY DEF CardInv
<1>4. Sent("SEND_IF_COND", o)
  BY <1>1, <1>3, Send
<1>5. IsHost(o.host) /\ o.host.width = host.width /\ o.host.cdiv = host.cdiv
  BY <1>4 DEF Sent
<1>6. /\ o.card \in CardRec /\ o.card.kind = card.kind
      /\ o.sd \in SdCardRec /\ o.sd.type = sdCard.type /\ o.sd.init = sdCard.init
      /\ o.card.width = card.width /\ o.sd.ocr = sdCard.ocr
  <2>1. Effect("SEND_IF_COND", o)
    BY <1>1, <1>3, <1>4, Outcome
  <2> QED
    BY <1>3, <2>1 DEF Effect
<1>7. CardType'
  BY <1>2, <1>5, <1>6 DEF CardType
<1>8. Dialogue' /\ DriverKnowsCard'
  BY <1>2, <1>5, <1>6 DEF CardInv, Dialogue, DriverKnowsCard, Reset, Selected, Done
<1>9. ClockSetting'
  BY <1>2, <1>5 DEF CardInv, ClockSetting, Selected, Done
<1> QED
  BY <1>7, <1>8, <1>9 DEF CardInv

\* APP_CMD, before a command that needs it.
LEMMA AppCmdKeeps ==
    ASSUME CardInv, sdSendAppCommand
    PROVE  CardInv'
<1>1. "APP_CMD" \in DOMAIN sdCommandTable
  BY DEF sdCommandTable
<1>2. PICK o \in sdSendCommandP("APP_CMD") :
        /\ stage \in {"APP_SEND_OP_COND", "SEND_SCR", "SET_BUS_WIDTH"}
        /\ card' = o.card /\ host' = o.host /\ sdCard' = o.sd
        /\ stage' \in {"failed", stage}
  BY DEF sdSendAppCommand, AppCommand, Happens
<1>3. CardType
  BY DEF CardInv
<1>4. Sent("APP_CMD", o)
  BY <1>1, <1>3, SendP
<1>5. IsHost(o.host) /\ o.host.width = host.width /\ o.host.cdiv = host.cdiv
  BY <1>4 DEF Sent
<1>6. /\ o.card \in CardRec /\ o.card.kind = card.kind
      /\ o.sd \in SdCardRec /\ o.sd.type = sdCard.type /\ o.sd.init = sdCard.init
      /\ o.card.rca = card.rca /\ o.sd.rca = sdCard.rca
      /\ o.card.width = card.width /\ o.sd.ocr = sdCard.ocr /\ o.card.state = card.state
  <2>1. Effect("APP_CMD", o)
    BY <1>1, <1>3, <1>4, Outcome
  <2> QED
    BY <1>3, <2>1 DEF Effect
<1>7. CardType'
  BY <1>2, <1>5, <1>6 DEF CardType
<1>8. Dialogue' /\ DriverKnowsCard'
  BY <1>2, <1>5, <1>6 DEF CardInv, Dialogue, DriverKnowsCard, Reset, Selected, Done, TypeKnown
<1>9. ClockSetting'
  <2>1. host'.cdiv = host.cdiv /\ card'.state = card.state /\ stage' \in {"failed", stage}
    BY <1>2, <1>5, <1>6
  <2>2. ClockSetting
    BY DEF CardInv
  <2> QED
    BY <2>1, <2>2 DEF ClockSetting
<1> QED
  BY <1>7, <1>8, <1>9 DEF CardInv

\* sdAppSendOpCond: the card is ready, or gets another try.
LEMMA OpCondKeeps ==
    ASSUME CardInv, APP_SEND_OP_COND
    PROVE  CardInv'
<1>1. "APP_SEND_OP_COND" \in DOMAIN sdCommandTable
  BY DEF sdCommandTable
<1>2. PICK o \in sdSendCommand("APP_SEND_OP_COND") :
        /\ stage = "APP_SEND_OP_COND" /\ card' = o.card /\ host' = o.host
        /\ IF o.result \in {"OK", "TIMEOUT"} /\ "COMPLETE" \in o.sd.ocr
           THEN /\ sdCard' = [o.sd EXCEPT !.type = card_type(o.sd.ocr)]
                /\ stage' \in {"ALL_SEND_CID", "failed"}
           ELSE /\ sdCard' = o.sd
                /\ IF o.result \in {"OK", "TIMEOUT"} /\ count > 0 THEN stage' = stage ELSE stage' = "failed"
  BY DEF APP_SEND_OP_COND, At, Happens
<1>3. CardType /\ "COMPLETE" \notin sdCard.ocr /\ card.width = 1 /\ host.width = 1 /\ ~sdCard.init
  BY <1>2 DEF CardInv, Dialogue, Reset, Done, CardType, SdCardRec
<1>4. Sent("APP_SEND_OP_COND", o)
  BY <1>1, <1>3, Send
<1>5. IsHost(o.host) /\ o.host.width = host.width /\ o.host.cdiv = host.cdiv
  BY <1>4 DEF Sent
<1>6. /\ o.card \in CardRec /\ o.card.kind = card.kind
      /\ o.sd \in SdCardRec /\ o.sd.type = sdCard.type /\ o.sd.init = sdCard.init
      /\ o.card.width = card.width
      /\ "COMPLETE" \in o.sd.ocr =>
           /\ o.card.state = "ready" /\ ("CCS" \in o.sd.ocr <=> card.kind = "v2_hc")
           /\ card.kind = "v2_hc" => arg = "HC"
  <2>1. Effect("APP_SEND_OP_COND", o)
    BY <1>1, <1>3, <1>4, Outcome
  <2> QED
    BY <1>3, <2>1 DEF Effect
<1>9. ClockSetting'
  BY <1>2, <1>5 DEF CardInv, ClockSetting, Selected, Done
<1>7. CASE o.result \in {"OK", "TIMEOUT"} /\ "COMPLETE" \in o.sd.ocr
  <2>1. /\ card_type(o.sd.ocr) \in {"SD_TYPE_1", "SD_TYPE_2_SC", "SD_TYPE_2_HC"}
        /\ card_type(o.sd.ocr) = "SD_TYPE_2_HC" <=> o.card.kind = "v2_hc"
    BY <1>6, <1>7 DEF card_type
  <2>2. sdCard' \in SdCardRec /\ sdCard'.type = card_type(o.sd.ocr) /\ sdCard'.init = sdCard.init
    BY <1>2, <1>6, <1>7, <2>1 DEF SdCardRec
  <2>3. CardType'
    BY <1>2, <1>5, <1>6, <2>2 DEF CardType
  <2>4. Dialogue' /\ DriverKnowsCard'
    BY <1>2, <1>3, <1>5, <1>6, <1>7, <2>1, <2>2 DEF Dialogue, DriverKnowsCard, Reset, Selected, Done, TypeKnown
  <2> QED
    BY <1>9, <2>3, <2>4 DEF CardInv
<1>8. CASE ~(o.result \in {"OK", "TIMEOUT"} /\ "COMPLETE" \in o.sd.ocr)
  <2>1. CardType'
    BY <1>2, <1>5, <1>6, <1>8 DEF CardType
  <2>2. Dialogue' /\ DriverKnowsCard'
    BY <1>2, <1>3, <1>5, <1>6, <1>8 DEF Dialogue, DriverKnowsCard, Reset, Selected, Done
  <2> QED
    BY <1>9, <2>1, <2>2 DEF CardInv
<1> QED
  BY <1>7, <1>8

\* SET_BUS_WIDTH: the controller follows the card.
LEMMA BusWidthKeeps ==
    ASSUME CardInv, SET_BUS_WIDTH
    PROVE  CardInv'
<1>1. "SET_BUS_WIDTH" \in DOMAIN sdCommandTable
  BY DEF sdCommandTable
<1>2. PICK o \in sdSendCommand("SET_BUS_WIDTH") :
        /\ stage = "SET_BUS_WIDTH" /\ card' = o.card /\ sdCard' = o.sd
        /\ host' = IF o.result = "OK" THEN [o.host EXCEPT !.width = 4] ELSE o.host
        /\ stage' = IF o.result = "OK" THEN "SET_BLOCKLEN" ELSE "failed"
  BY DEF SET_BUS_WIDTH, At
<1>3. CardType /\ ~sdCard.init /\ sdCard.rca = card.rca /\ TypeKnown
  BY <1>2 DEF CardInv, Dialogue, Reset, Selected, Done, CardType, SdCardRec
<1>4. Sent("SET_BUS_WIDTH", o)
  BY <1>1, <1>3, Send
<1>5. IsHost(o.host) /\ o.host.cdiv = host.cdiv
  BY <1>4 DEF Sent
<1>6. /\ o.card \in CardRec /\ o.card.kind = card.kind
      /\ o.sd \in SdCardRec /\ o.sd.type = sdCard.type /\ o.sd.init = sdCard.init
      /\ o.card.rca = card.rca /\ o.sd.rca = sdCard.rca
      /\ o.card.state \in {"tran", card.state}
      /\ o.result = "OK" => o.card.width = 4 /\ o.card.state = "tran"
  <2>1. Effect("SET_BUS_WIDTH", o)
    BY <1>1, <1>3, <1>4, Outcome
  <2> QED
    BY <1>3, <2>1 DEF Effect
<1>7. IsHost(host') /\ host'.cdiv = host.cdiv /\ (o.result = "OK" => host'.width = 4)
  <2>1. CASE o.result = "OK"
    BY <1>2, <1>5, <2>1, WidthSet, Zenon
  <2>2. CASE o.result # "OK"
    BY <1>2, <1>5, <2>2, Zenon
  <2> QED
    BY <2>1, <2>2
<1>8. CardType'
  BY <1>2, <1>6, <1>7 DEF CardType
<1>9. Dialogue' /\ DriverKnowsCard'
  <2>1. /\ card'.kind = card.kind /\ sdCard'.type = sdCard.type /\ ~sdCard'.init /\ sdCard'.rca = card'.rca
        /\ stage' \in {"SET_BLOCKLEN", "failed"}
        /\ stage' = "SET_BLOCKLEN" => card'.width = 4 /\ host'.width = 4 /\ card'.state = "tran"
    BY <1>2, <1>3, <1>6, <1>7
  <2> QED
    BY <1>3, <2>1 DEF Dialogue, DriverKnowsCard, Reset, Selected, Done, TypeKnown
<1>10. ClockSetting'
  BY <1>2, <1>6, <1>7 DEF CardInv, ClockSetting, Selected, Done
<1> QED
  BY <1>8, <1>9, <1>10 DEF CardInv

\* SET_BLOCKLEN: the end of sdInit.
LEMMA BlocklenKeeps ==
    ASSUME CardInv, SET_BLOCKLEN
    PROVE  CardInv'
<1>1. "SET_BLOCKLEN" \in DOMAIN sdCommandTable
  BY DEF sdCommandTable
<1>2. PICK o \in sdSendCommand("SET_BLOCKLEN") :
        /\ stage = "SET_BLOCKLEN" /\ card' = o.card /\ host' = o.host
        /\ sdCard' = [o.sd EXCEPT !.init = (o.result = "OK")]
        /\ stage' = IF o.result = "OK" THEN "READ_SINGLE" ELSE "failed"
  BY DEF SET_BLOCKLEN, At, Happens
<1>3. CardType /\ sdCard.rca = card.rca /\ TypeKnown /\ host.width = card.width
  BY <1>2 DEF CardInv, Dialogue, Reset, Selected, Done
<1>4. Sent("SET_BLOCKLEN", o)
  BY <1>1, <1>3, Send
<1>5. IsHost(o.host) /\ o.host.width = host.width /\ o.host.cdiv = host.cdiv /\ (o.result = "OK" => o.host.intr = {})
  BY <1>4 DEF Sent, DataCommand
<1>6. /\ o.card \in CardRec /\ o.card.kind = card.kind
      /\ o.sd \in SdCardRec /\ o.sd.type = sdCard.type
      /\ o.card.rca = card.rca /\ o.sd.rca = sdCard.rca
      /\ o.card.width = card.width /\ o.card.state \in {"tran", card.state}
      /\ o.result = "OK" => o.card.state = "tran"
  <2>1. Effect("SET_BLOCKLEN", o)
    BY <1>1, <1>3, <1>4, Outcome
  <2> QED
    BY <1>3, <2>1 DEF Effect
<1>7. /\ sdCard' \in SdCardRec /\ sdCard'.type = sdCard.type /\ sdCard'.rca = sdCard.rca
      /\ sdCard'.init <=> o.result = "OK"
  <2>1. PICK b \in BOOLEAN : b <=> o.result = "OK"
    BY Zenon
  <2>2. sdCard' = [o.sd EXCEPT !.init = b]
    BY <1>2, <2>1, Zenon
  <2> QED
    BY <1>6, <2>1, <2>2 DEF SdCardRec
<1>8. CardType'
  BY <1>2, <1>5, <1>6, <1>7 DEF CardType
<1>9. Dialogue' /\ DriverKnowsCard'
  BY <1>2, <1>3, <1>5, <1>6, <1>7 DEF Dialogue, DriverKnowsCard, Reset, Selected, Done, TypeKnown
<1>10. ClockSetting'
  BY <1>2, <1>5, <1>6 DEF CardInv, ClockSetting, Selected, Done
<1> QED
  BY <1>8, <1>9, <1>10 DEF CardInv

\* The divider that sdGetClockDivider computes for the setup frequency.
LEMMA SlowDivider == sdGetClockDivider(FREQ_SETUP) \in {64 * 256, 104 * 256}
<1>1. BASE_CLOCK \div FREQ_SETUP = 104
  BY DEF BASE_CLOCK, FREQ_SETUP
<1>2. fls_long(103) = 7
  BY DEF fls_long
<1>3. shiftcount(104) = 6
  BY <1>2 DEF shiftcount
<1>4. one_shifted[7] = 64
  BY DEF one_shifted
<1> QED
  BY <1>1, <1>3, <1>4 DEF sdGetClockDivider

\* And the one for transfers.
LEMMA FastDivider == sdGetClockDivider(FREQ_NORMAL) = 2 * 256
<1>1. BASE_CLOCK \div FREQ_NORMAL = 1
  BY DEF BASE_CLOCK, FREQ_NORMAL
<1>2. fls_long(0) = 0
  BY DEF fls_long
<1>3. shiftcount(1) = 0
  BY <1>2 DEF shiftcount
<1>4. one_shifted[1] = 1
  BY DEF one_shifted
<1> QED
  BY <1>1, <1>3, <1>4 DEF sdGetClockDivider

\* sdResetCard: the controller is reset, and what was known of a card forgotten.
LEMMA ResetKeeps ==
    ASSUME CardInv, sdResetCard
    PROVE  CardInv'
<1> DEFINE g == [host EXCEPT !.inhibit = FALSE, !.width = 1, !.intr = {}]
<1>1. PICK o \in sdSetClock(FREQ_SETUP, g) :
        /\ stage = "sdResetCard" /\ card' = card /\ host' = o.host
        /\ \/ /\ sdCard' = [sdCard EXCEPT !.rca = 0, !.ocr = {}, !.status = {}, !.type = "Unknown"]
              /\ stage' = "GO_IDLE_STATE"
           \/ sdCard' = sdCard /\ stage' = "failed"
  BY Zenon DEF sdResetCard
<1>2. /\ card \in CardRec /\ sdCard \in SdCardRec /\ IsHost(host)
      /\ ~sdCard.init /\ card.width = 1 /\ host.width = 1
  BY <1>1 DEF CardInv, CardType, Dialogue, Reset, Done, SdCardRec
<1>3. IsHost(g) /\ g.width = 1 /\ g.cdiv = host.cdiv
  BY <1>2, HostReset, Zenon
<1> HIDE DEF g
<1>4. /\ IsHost(host') /\ host'.width = 1
      /\ host'.cdiv = sdGetClockDivider(FREQ_SETUP) \/ host'.cdiv = host.cdiv
  BY <1>1, <1>3, ClockSet
<1>5. sdCard' \in SdCardRec /\ ~sdCard'.init /\ (stage' # "failed" => sdCard'.ocr = {})
  BY <1>1, <1>2 DEF SdCardRec
<1>6. CardType'
  BY <1>1, <1>2, <1>4, <1>5 DEF CardType
<1>7. Dialogue' /\ DriverKnowsCard'
  BY <1>1, <1>2, <1>4, <1>5 DEF Dialogue, DriverKnowsCard, Reset, Selected, Done
<1>8. host.cdiv \in {0, 64 * 256, 104 * 256}
  BY <1>1 DEF CardInv, ClockSetting, Selected, Done
<1>9. ClockSetting'
  BY <1>4, <1>8, SlowDivider DEF ClockSetting
<1> QED
  BY <1>6, <1>7, <1>9 DEF CardInv

\* The clock for transfers.
LEMMA FullSpeedKeeps ==
    ASSUME CardInv, set_full_speed
    PROVE  CardInv'
<1>1. PICK o \in sdSetClock(FREQ_NORMAL, host) :
        /\ stage = "sdSetClock" /\ card' = card /\ host' = o.host /\ sdCard' = sdCard
        /\ stage' = IF o.ok THEN "CARD_SELECT" ELSE "failed"
  BY DEF set_full_speed
<1>2. /\ IsHost(host') /\ host'.width = host.width
      /\ host'.cdiv = sdGetClockDivider(FREQ_NORMAL) \/ (~o.ok /\ host'.cdiv = host.cdiv)
  BY <1>1, ClockSet DEF CardInv, CardType
<1>3. CardType'
  BY <1>1, <1>2 DEF CardInv, CardType
<1>4. Dialogue' /\ DriverKnowsCard'
  BY <1>1, <1>2 DEF CardInv, Dialogue, DriverKnowsCard, Reset, Selected, Done, TypeKnown
<1>5. host.cdiv \in {0, 64 * 256, 104 * 256} /\ card.state = "stby"
  BY <1>1 DEF CardInv, Dialogue, ClockSetting, Selected, Done
<1>6. ClockSetting'
  BY <1>1, <1>2, <1>5, FastDivider DEF ClockSetting
<1> QED
  BY <1>3, <1>4, <1>6 DEF CardInv

\* sdReadSCR: which bus widths the card supports.
LEMMA ScrKeeps ==
    ASSUME CardInv, sdReadSCR
    PROVE  CardInv'
<1>0. stage = "sdReadSCR" /\ card' = card /\ stage' \in {"SET_BUS_WIDTH", "SET_BLOCKLEN", "failed"}
  BY DEF sdReadSCR
<1>1. card \in CardRec /\ sdCard \in SdCardRec /\ IsHost(host) /\ ~sdCard.init
  BY <1>0 DEF CardInv, CardType, Dialogue, Done, SdCardRec
<1>2. CASE /\ sdCard' = [sdCard EXCEPT !.support = card.widths]
           /\ host' = [host EXCEPT !.intr = (@ \ {"READ_RDY"}) \cup {"DATA_DONE"}]
  <2>1. card.widths \in {{1}, {1, 4}} /\ (host.intr \ {"READ_RDY"}) \cup {"DATA_DONE"} \in SUBSET Flag
    BY <1>1 DEF CardRec, IsHost, HostRec, Flag
  <2>2. /\ sdCard' \in SdCardRec /\ ~sdCard'.init /\ sdCard'.type = sdCard.type
        /\ sdCard'.rca = sdCard.rca
    BY <1>1, <1>2, <2>1 DEF SdCardRec
  <2>3. IsHost(host') /\ host'.width = host.width /\ host'.cdiv = host.cdiv
    BY <1>1, <1>2, <2>1, IntrSet, Zenon
  <2>4. CardType'
    BY <1>0, <1>1, <2>2, <2>3 DEF CardType
  <2>5. Dialogue' /\ DriverKnowsCard'
    BY <1>0, <2>2, <2>3 DEF CardInv, Dialogue, DriverKnowsCard, Reset, Selected, Done, TypeKnown
  <2>6. ClockSetting'
    BY <1>0, <2>3 DEF CardInv, ClockSetting, Selected, Done
  <2> QED
    BY <2>4, <2>5, <2>6 DEF CardInv
<1>3. CASE stage' = "failed" /\ sdCard' = sdCard /\ host' = host
  <2>1. CardType'
    BY <1>0, <1>1, <1>3 DEF CardType
  <2>2. Dialogue' /\ DriverKnowsCard'
    BY <1>0, <1>1, <1>3 DEF Dialogue, DriverKnowsCard, Reset, Selected, Done
  <2>3. ClockSetting'
    BY <1>0, <1>3 DEF CardInv, ClockSetting, Selected, Done
  <2> QED
    BY <2>1, <2>2, <2>3 DEF CardInv
<1> QED
  BY <1>2, <1>3, Zenon DEF sdReadSCR

\* The first block, which may come late.
LEMMA MbrKeeps ==
    ASSUME CardInv, read_mbr
    PROVE  CardInv'
<1>1. /\ stage = "sd_init" /\ card' = card /\ sdCard' = sdCard
      /\ \/ stage' = "ready" /\ host' = [host EXCEPT !.intr = @ \ Flag]
         \/ stage' = "late" /\ \E I \in SUBSET Flag : host' = [host EXCEPT !.intr = I]
  BY Zenon DEF read_mbr, Flag
<1>2. IsHost(host) /\ host.intr \ Flag = {} /\ {} \in SUBSET Flag
  BY DEF CardInv, CardType, IsHost, HostRec
<1>3. PICK I \in SUBSET Flag : host' = [host EXCEPT !.intr = I] /\ (stage' = "ready" => I = {})
  BY <1>1, <1>2, Zenon
<1>4. /\ IsHost(host') /\ host'.width = host.width /\ host'.cdiv = host.cdiv
      /\ stage' = "ready" => host'.intr = {}
  BY <1>2, <1>3, IntrSet, Zenon
<1>5. CardType'
  BY <1>1, <1>4 DEF CardInv, CardType
<1>6. Dialogue' /\ DriverKnowsCard'
  <2>1. stage' \in {"ready", "late"}
    BY <1>1
  <2> QED
    BY <1>1, <1>4, <2>1 DEF CardInv, Dialogue, DriverKnowsCard, Reset, Selected, Done, TypeKnown
<1>7. ClockSetting'
  BY <1>1, <1>4 DEF CardInv, ClockSetting, Selected, Done
<1> QED
  BY <1>5, <1>6, <1>7 DEF CardInv

\* Every step of the driver keeps what it and the card know of each other.
LEMMA CardInductive ==
    CardInv /\ [DNext]_<<vars, cardvars>> => CardInv'
<1> SUFFICES ASSUME CardInv, [DNext]_<<vars, cardvars>> PROVE CardInv'
  OBVIOUS
<1>1. CASE UNCHANGED cardvars
  BY <1>1 DEF cardvars, CardInv, CardType, Dialogue, DriverKnowsCard, ClockSetting, TypeKnown
<1>2. CASE CardNext
  <2>1. CASE sdGetBaseClock
    <3>1. /\ stage = "sdGetBaseClock" /\ stage' \in {"sdResetCard", "failed"}
          /\ UNCHANGED <<card, host, sdCard>>
      BY <2>1 DEF sdGetBaseClock
    <3> QED
      BY <3>1 DEF CardInv, CardType, Dialogue, DriverKnowsCard, ClockSetting, Reset, Selected, Done
  <2>2. CASE GO_IDLE_STATE
    <3>1. PICK next \in {"SEND_IF_COND", "APP_SEND_OP_COND"} : Command("GO_IDLE_STATE", next)
      BY <2>2, Zenon DEF GO_IDLE_STATE
    <3> QED
      BY <3>1, CommandKeeps DEF Follows
  <2>3. CASE SEND_CSD
    <3>1. PICK next \in {"sdSetClock", "failed"} : Command("SEND_CSD", next)
      BY <2>3 DEF SEND_CSD
    <3> QED
      BY <3>1, CommandKeeps DEF Follows
  <2>4. CASE Command("ALL_SEND_CID", "SEND_REL_ADDR")
    BY <2>4, CommandKeeps DEF Follows
  <2>5. CASE Command("SEND_REL_ADDR", "SEND_CSD")
    BY <2>5, CommandKeeps DEF Follows
  <2>6. CASE Command("CARD_SELECT", "SEND_SCR")
    BY <2>6, CommandKeeps DEF Follows
  <2>7. CASE Command("SEND_SCR", "sdReadSCR")
    BY <2>7, CommandKeeps DEF Follows
  <2>8. CASE Command("READ_SINGLE", "sd_init")
    BY <2>8, CommandKeeps DEF Follows
  <2> QED
    BY <1>2, <2>1, <2>2, <2>3, <2>4, <2>5, <2>6, <2>7, <2>8, IfCondKeeps, AppCmdKeeps, OpCondKeeps,
       BusWidthKeeps, BlocklenKeeps, ResetKeeps, FullSpeedKeeps, ScrKeeps, MbrKeeps, Zenon DEF CardNext
<1> QED
  BY <1>1, <1>2 DEF DNext, cardvars

\* At every stage of sdInit and after it, driver and card know of each other
\* what Dialogue says.
THEOREM CardInvariance == DSpec => []CardInv
<1>1. DInit => CardInv
  <2> SUFFICES ASSUME CardInit PROVE CardInv
    BY DEF DInit
  <2>1. /\ card \in [kind : Kind, widths : {{1}, {1, 4}}, state : {"idle"}, app : {FALSE}, rca : {0}, width : {1}]
        /\ sdCard = [type |-> "Unknown", rca |-> 0, ocr |-> {}, status |-> {}, support |-> {}, init |-> FALSE]
        /\ host \in [version : HostVersion, inhibit : {FALSE}, width : {1}, cdiv : {0}, intr : {{}}]
        /\ stage = "sdGetBaseClock"
    BY DEF CardInit
  <2>2. card \in CardRec /\ card.width = 1
    BY <2>1 DEF CardRec
  <2>3. sdCard \in SdCardRec /\ sdCard.ocr = {} /\ ~sdCard.init
    BY <2>1 DEF SdCardRec
  <2>4. IsHost(host) /\ host.width = 1 /\ host.cdiv = 0
    BY <2>1 DEF IsHost, HostRec
  <2> QED
    BY <2>1, <2>2, <2>3, <2>4 DEF CardInv, CardType, Dialogue, DriverKnowsCard, ClockSetting, Reset, Selected, Done
<1> QED
  BY <1>1, CardInductive, PTL DEF DSpec

\* Once sdInit reports success driver and card agree on address, bus width,
\* capacity and state, for every kind of card, controller and number of lost,
\* late and garbled answers.
THEOREM DriverAgreesWithCard == DSpec => []DriverKnowsCard
<1>1. CardInv => DriverKnowsCard
  BY DEF CardInv
<1> QED
  BY <1>1, CardInvariance, PTL

\* The assertion of sd_start that no interrupt flag is left holds for the
\* first block, and for the requests if the first block came in time.
THEOREM RegisterEmpty == DSpec => []StartFindsRegisterEmpty
<1>1. CardInv => StartFindsRegisterEmpty
  BY DEF CardInv, Dialogue, StartFindsRegisterEmpty
<1> QED
  BY <1>1, CardInvariance, PTL

\* The clock that sdGetClockDivider and sdSetClock set up is never faster than
\* the card may be run, with either version of the controller.
THEOREM ClockNeverTooFast == DSpec => []ClockWithinLimit
<1>1. CardInv => ClockWithinLimit
  <2> SUFFICES ASSUME CardInv, host.cdiv # 0 PROVE ClockWithinLimit
    BY DEF ClockWithinLimit
  <2>1. CASE host.cdiv = 64 * 256
    <3>1. N = 64
      BY <2>1 DEF N
    <3> QED
      BY <3>1 DEF ClockWithinLimit, BASE_CLOCK, FREQ_SETUP, FREQ_NORMAL
  <2>2. CASE host.cdiv = 104 * 256
    <3>1. N = 104
      BY <2>2 DEF N
    <3> QED
      BY <3>1 DEF ClockWithinLimit, BASE_CLOCK, FREQ_SETUP, FREQ_NORMAL
  <2>3. CASE host.cdiv = 2 * 256 /\ card.state \in {"stby", "tran"}
    <3>1. N = 2
      BY <2>3 DEF N
    <3> QED
      BY <2>3, <3>1 DEF ClockWithinLimit, BASE_CLOCK, FREQ_SETUP, FREQ_NORMAL
  <2> QED
    BY <2>1, <2>2, <2>3 DEF CardInv, ClockSetting
<1> QED
  BY <1>1, CardInvariance, PTL
=============================================================================
