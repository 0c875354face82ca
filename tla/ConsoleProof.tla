---------------------------- MODULE ConsoleProof -----------------------------
(***************************************************************************)
(* Proofs about Console, for any number of readers and any size of the     *)
(* ring: readers get what was typed, no reader sleeps with input, and an   *)
(* end of file is read alone.                                              *)
(***************************************************************************)
EXTENDS Console, TLAPS

\* The types of the variables, and the order of the indices: no more than
\* INPUT_BUF characters lie between r and e.
CType ==
    /\ buf \in [0 .. INPUT_BUF - 1 -> Char]
    /\ r \in Nat /\ w \in Nat /\ e \in Nat
    /\ r <= w /\ w <= e /\ e <= r + INPUT_BUF
    /\ pc \in [Reader -> {"idle", "loop", "sleep"}]
    /\ n \in [Reader -> Nat] /\ target \in [Reader -> Nat]
    /\ pending \in Seq(Char) /\ line \in Seq(Char)

\* q is what lies in the ring b from index x up to index y.
Lies(b, q, x, y) ==
    Len(q) = y - x /\ \A k \in 1 .. y - x : q[k] = b[(x + k - 1) % INPUT_BUF]

\* RingHoldsInput character by character.
Holds == Lies(buf, pending, r, w) /\ Lies(buf, line, w, e)

\* What ends a line is not edited any more.
Open(b, x, y) == \A k \in x .. y - 1 : b[k % INPUT_BUF] \notin {"nl", "eof"}
LineOpen == Open(buf, w, e)

\* A reader has no more to get than it asked for.
Requests == \A t \in Reader : n[t] <= target[t]

\* The inductive invariant.
CInv == CType /\ Holds /\ LineOpen /\ Requests /\ NoSleepWithInput
-----------------------------------------------------------------------------
\* Two indices less than INPUT_BUF apart are different places of the ring.
LEMMA PlacesDiffer ==
    ASSUME NEW N \in Nat \ {0}, NEW a \in Nat, NEW b \in Nat, a < b, b - a < N
    PROVE  a % N # b % N
<1> SUFFICES ASSUME a % N = b % N PROVE FALSE
  OBVIOUS
<1>1. PICK p \in Int, s \in 0 .. N - 1 : a = N * p + s /\ s = a % N
  <2>1. a = N * (a \div N) + (a % N)
    OBVIOUS
  <2>2. a \div N \in Int /\ a % N \in 0 .. N - 1
    OBVIOUS
  <2> QED
    BY <2>1, <2>2
<1>2. PICK q \in Int, u \in 0 .. N - 1 : b = N * q + u /\ u = b % N
  <2>1. b = N * (b \div N) + (b % N)
    OBVIOUS
  <2>2. b \div N \in Int /\ b % N \in 0 .. N - 1
    OBVIOUS
  <2> QED
    BY <2>1, <2>2
<1>3. b - a = N * q - N * p
  BY <1>1, <1>2
<1>4. N * q - N * p = N * (q - p)
  OBVIOUS
<1>5. CASE q - p <= 0
  <2>1. N * (q - p) <= 0
    BY <1>5
  <2> QED
    BY <1>3, <1>4, <2>1
<1>6. CASE q - p >= 1
  <2>1. N * (q - p) >= N
    BY <1>6
  <2> QED
    BY <1>3, <1>4, <2>1
<1> QED
  BY <1>5, <1>6

\* A place of the ring.
LEMMA Place ==
    ASSUME NEW N \in Nat \ {0}, NEW a \in Nat
    PROVE  a % N \in 0 .. N - 1
  OBVIOUS

\* A character put at index y is not in any of the INPUT_BUF - 1 places before.
LEMMA PlaceFree ==
    ASSUME NEW x \in Nat, NEW y \in Nat, y < x + INPUT_BUF, NEW k \in x .. y - 1
    PROVE  k % INPUT_BUF # y % INPUT_BUF /\ k % INPUT_BUF \in 0 .. INPUT_BUF - 1
<1>1. k \in Nat /\ k < y /\ y - k < INPUT_BUF
  BY ConsoleAssumption
<1> QED
  BY <1>1, PlacesDiffer, Place, ConsoleAssumption

\* What lies in one ring lies in another that agrees with it.
LEMMA LiesSame ==
    ASSUME NEW b, NEW d, NEW q, NEW x \in Nat, NEW y \in Nat, Lies(b, q, x, y),
           \A k \in x .. y - 1 : d[k % INPUT_BUF] = b[k % INPUT_BUF]
    PROVE  Lies(d, q, x, y)
<1>1. ASSUME NEW k \in 1 .. y - x
      PROVE  q[k] = d[(x + k - 1) % INPUT_BUF]
  <2>1. x + k - 1 \in x .. y - 1
    OBVIOUS
  <2> QED
    BY <2>1 DEF Lies
<1> QED
  BY <1>1 DEF Lies

\* One more character.
LEMMA LiesAppend ==
    ASSUME NEW b, NEW q \in Seq(Char), NEW c \in Char, NEW x \in Nat, NEW y \in Nat, x <= y,
           Lies(b, q, x, y), b[y % INPUT_BUF] = c
    PROVE  Lies(b, Append(q, c), x, y + 1)
<1>1. Len(q) = y - x /\ \A k \in 1 .. y - x : q[k] = b[(x + k - 1) % INPUT_BUF]
  BY DEF Lies
<1>2. Len(Append(q, c)) = y + 1 - x
  BY <1>1
<1>3. ASSUME NEW k \in 1 .. y + 1 - x
      PROVE  Append(q, c)[k] = b[(x + k - 1) % INPUT_BUF]
  <2>1. CASE k <= y - x
    <3>1. Append(q, c)[k] = q[k]
      BY <1>1, <2>1
    <3> QED
      BY <1>1, <2>1, <3>1
  <2>2. CASE k = y + 1 - x
    <3>1. Append(q, c)[Len(q) + 1] = c
      OBVIOUS
    <3>2. k = Len(q) + 1 /\ x + k - 1 = y
      BY <1>1, <2>2
    <3> QED
      BY <3>1, <3>2
  <2>3. k <= y - x \/ k = y + 1 - x
    OBVIOUS
  <2> QED
    BY <2>1, <2>2, <2>3
<1> QED
  BY <1>2, <1>3 DEF Lies

\* Two stretches that meet.
LEMMA LiesConcat ==
    ASSUME NEW b, NEW q \in Seq(Char), NEW p \in Seq(Char),
           NEW x \in Nat, NEW y \in Nat, NEW z \in Nat, x <= y, y <= z,
           Lies(b, q, x, y), Lies(b, p, y, z)
    PROVE  Lies(b, q \o p, x, z)
<1>1. Len(q) = y - x /\ \A k \in 1 .. y - x : q[k] = b[(x + k - 1) % INPUT_BUF]
  BY DEF Lies
<1>2. Len(p) = z - y /\ \A k \in 1 .. z - y : p[k] = b[(y + k - 1) % INPUT_BUF]
  BY DEF Lies
<1>3. Len(q \o p) = z - x
  <2>1. Len(q \o p) = Len(q) + Len(p)
    OBVIOUS
  <2> QED
    BY <1>1, <1>2, <2>1
<1>4. ASSUME NEW k \in 1 .. z - x
      PROVE  (q \o p)[k] = b[(x + k - 1) % INPUT_BUF]
  <2>1. CASE k <= y - x
    <3>1. (q \o p)[k] = q[k]
      BY <1>1, <1>2, <2>1
    <3> QED
      BY <1>1, <2>1, <3>1
  <2>2. CASE k > y - x
    <3>1. k - (y - x) \in 1 .. z - y /\ y + (k - (y - x)) - 1 = x + k - 1
      BY <2>2
    <3>2. (q \o p)[k] = p[k - (y - x)]
      BY <1>1, <1>2, <2>2
    <3> QED
      BY <1>2, <3>1, <3>2
  <2>3. k <= y - x \/ k > y - x
    OBVIOUS
  <2> QED
    BY <2>1, <2>2, <2>3
<1> QED
  BY <1>3, <1>4 DEF Lies

\* A part of a stretch: its first z - x characters, or those from z on.
LEMMA LiesPart ==
    ASSUME NEW b, NEW q \in Seq(Char), NEW x \in Nat, NEW y \in Nat, NEW z \in Nat,
           x <= z, z <= y, Lies(b, q, x, y)
    PROVE  /\ SubSeq(q, 1, z - x) \in Seq(Char) /\ Lies(b, SubSeq(q, 1, z - x), x, z)
           /\ SubSeq(q, z - x + 1, Len(q)) \in Seq(Char)
           /\ Lies(b, SubSeq(q, z - x + 1, Len(q)), z, y)
<1>1. Len(q) = y - x /\ \A k \in 1 .. y - x : q[k] = b[(x + k - 1) % INPUT_BUF]
  BY DEF Lies
<1>2. /\ SubSeq(q, 1, z - x) \in Seq(Char) /\ Len(SubSeq(q, 1, z - x)) = z - x
      /\ \A k \in 1 .. z - x : SubSeq(q, 1, z - x)[k] = q[k]
  BY <1>1
<1>3. /\ SubSeq(q, z - x + 1, Len(q)) \in Seq(Char) /\ Len(SubSeq(q, z - x + 1, Len(q))) = y - z
      /\ \A k \in 1 .. y - z : SubSeq(q, z - x + 1, Len(q))[k] = q[z - x + k]
  BY <1>1
<1>4. Lies(b, SubSeq(q, 1, z - x), x, z)
  BY <1>1, <1>2 DEF Lies
<1>5. ASSUME NEW k \in 1 .. y - z
      PROVE  SubSeq(q, z - x + 1, Len(q))[k] = b[(z + k - 1) % INPUT_BUF]
  <2>1. z - x + k \in 1 .. y - x /\ x + (z - x + k) - 1 = z + k - 1
    OBVIOUS
  <2> QED
    BY <1>1, <1>3, <2>1
<1>6. Lies(b, SubSeq(q, z - x + 1, Len(q)), z, y)
  BY <1>3, <1>5 DEF Lies
<1> QED
  BY <1>2, <1>3, <1>4, <1>6

\* The indices and histories of a state in which CInv holds.
LEMMA Indices ==
    ASSUME CInv
    PROVE  /\ r \in Nat /\ w \in Nat /\ e \in Nat /\ r <= w /\ w <= e /\ e <= r + INPUT_BUF
           /\ buf \in [0 .. INPUT_BUF - 1 -> Char]
           /\ pending \in Seq(Char) /\ line \in Seq(Char)
           /\ Lies(buf, pending, r, w) /\ Lies(buf, line, w, e) /\ Open(buf, w, e)
  BY DEF CInv, CType, Holds, LineOpen

\* console_intr puts a character into the ring.
LEMMA IntrKeeps ==
    ASSUME CInv, NEW x \in Typed, console_intr(x)
    PROVE  CInv'
<1> DEFINE c == stored(x)
           d == [buf EXCEPT ![e % INPUT_BUF] = c]
<1>0. c \in Char /\ INPUT_BUF \in Nat \ {0}
  BY ConsoleAssumption DEF stored, Typed, Char
<1>1. /\ HasRoom /\ buf' = d /\ e' = e + 1
      /\ r' = r /\ n' = n /\ target' = target
      /\ IF c \in {"nl", "eof"} \/ e + 1 = r + INPUT_BUF
         THEN w' = e + 1 /\ pc' = awake /\ pending' = pending \o Append(line, c) /\ line' = <<>>
         ELSE line' = Append(line, c) /\ w' = w /\ pc' = pc /\ pending' = pending
  BY DEF console_intr, commits
<1> HIDE DEF c
<1>2. e < r + INPUT_BUF
  BY <1>0, <1>1, Indices DEF HasRoom
<1>3. /\ d \in [0 .. INPUT_BUF - 1 -> Char] /\ d[e % INPUT_BUF] = c
      /\ \A k \in r .. e - 1 : d[k % INPUT_BUF] = buf[k % INPUT_BUF]
  <2>1. d = [buf EXCEPT ![e % INPUT_BUF] = c]
    OBVIOUS
  <2>2. buf \in [0 .. INPUT_BUF - 1 -> Char] /\ r \in Nat /\ e \in Nat
    BY Indices
  <2> HIDE DEF d
  <2>3. e % INPUT_BUF \in 0 .. INPUT_BUF - 1
    BY <1>0, <2>2, Place
  <2>4. d \in [0 .. INPUT_BUF - 1 -> Char] /\ d[e % INPUT_BUF] = c
    BY <1>0, <2>1, <2>2, <2>3
  <2>5. ASSUME NEW k \in r .. e - 1
        PROVE  d[k % INPUT_BUF] = buf[k % INPUT_BUF]
    <3>1. k % INPUT_BUF # e % INPUT_BUF /\ k % INPUT_BUF \in 0 .. INPUT_BUF - 1
      BY <1>2, <2>2, PlaceFree
    <3> QED
      BY <2>1, <2>2, <3>1
  <2> QED
    BY <2>4, <2>5
<1> HIDE DEF d
<1>4. Lies(d, pending, r, w)
  <2>1. \A k \in r .. w - 1 : d[k % INPUT_BUF] = buf[k % INPUT_BUF]
    BY <1>3, Indices
  <2> QED
    BY <2>1, Indices, LiesSame
<1>5. \A k \in w .. e - 1 : d[k % INPUT_BUF] = buf[k % INPUT_BUF]
  BY <1>3, Indices
<1>6. Lies(d, Append(line, c), w, e + 1)
  <2>1. Lies(d, line, w, e)
    BY <1>5, Indices, LiesSame
  <2> QED
    BY <1>0, <1>3, <2>1, Indices, LiesAppend
<1>7. Append(line, c) \in Seq(Char)
  BY <1>0, Indices
<1>8. Requests'
  BY <1>1 DEF CInv, Requests
<1>9. CASE c \in {"nl", "eof"} \/ e + 1 = r + INPUT_BUF
  <2>1. w' = e + 1 /\ pc' = awake /\ pending' = pending \o Append(line, c) /\ line' = <<>>
    BY <1>1, <1>9
  <2>2. pc' \in [Reader -> {"idle", "loop", "sleep"}] /\ \A t \in Reader : pc'[t] # "sleep"
    BY <2>1 DEF CInv, CType, awake
  <2>3. Lies(d, pending \o Append(line, c), r, e + 1)
    <3>1. e + 1 \in Nat /\ w <= e + 1
      BY Indices
    <3> QED
      BY <1>4, <1>6, <1>7, <3>1, Indices, LiesConcat
  <2>4. Lies(d, <<>>, e + 1, e + 1)
    BY Indices DEF Lies
  <2>5. Holds'
    BY <1>1, <2>1, <2>3, <2>4, Zenon DEF Holds
  <2>6. pending' \in Seq(Char) /\ line' \in Seq(Char)
    <3>1. pending \o Append(line, c) \in Seq(Char)
      BY <1>7, Indices
    <3>2. line' \in Seq(Char)
      BY <2>1
    <3> QED
      BY <2>1, <3>1, <3>2
  <2>7. /\ buf' \in [0 .. INPUT_BUF - 1 -> Char]
        /\ r' \in Nat /\ w' \in Nat /\ e' \in Nat
        /\ r' <= w' /\ w' <= e' /\ e' <= r' + INPUT_BUF
    <3>1. r' = r /\ e' = e + 1 /\ w' = e + 1 /\ buf' = d
      BY <1>1, <2>1
    <3>2. /\ r \in Nat /\ w \in Nat /\ e \in Nat /\ r <= w /\ w <= e /\ e < r + INPUT_BUF
          /\ INPUT_BUF \in Nat
      BY <1>0, <1>2, Indices
    <3>3. e + 1 \in Nat /\ r <= e + 1 /\ e + 1 <= r + INPUT_BUF
      BY <3>2
    <3> QED
      BY <1>3, <3>1, <3>2, <3>3
  <2>8. n' \in [Reader -> Nat] /\ target' \in [Reader -> Nat]
    BY <1>1 DEF CInv, CType
  <2>9. CType'
    BY <2>2, <2>6, <2>7, <2>8 DEF CType
  <2>10. LineOpen'
    BY <1>1, <2>1, Indices DEF LineOpen, Open
  <2>11. NoSleepWithInput'
    BY <2>2 DEF NoSleepWithInput
  <2> QED
    BY <1>8, <2>5, <2>9, <2>10, <2>11 DEF CInv
<1>10. CASE ~(c \in {"nl", "eof"} \/ e + 1 = r + INPUT_BUF)
  <2>1. line' = Append(line, c) /\ w' = w /\ pc' = pc /\ pending' = pending
    BY <1>1, <1>10
  <2>2. Holds'
    BY <1>1, <1>4, <1>6, <2>1, Zenon DEF Holds
  <2>3. line' \in Seq(Char)
    BY <1>7, <2>1
  <2>4. /\ buf' \in [0 .. INPUT_BUF - 1 -> Char]
        /\ r' \in Nat /\ w' \in Nat /\ e' \in Nat
        /\ r' <= w' /\ w' <= e' /\ e' <= r' + INPUT_BUF
    <3>1. r' = r /\ e' = e + 1 /\ w' = w /\ buf' = d
      BY <1>1, <2>1
    <3>2. /\ r \in Nat /\ w \in Nat /\ e \in Nat /\ r <= w /\ w <= e /\ e < r + INPUT_BUF
          /\ INPUT_BUF \in Nat
      BY <1>0, <1>2, Indices
    <3>3. e + 1 \in Nat /\ r <= w /\ e + 1 <= r + INPUT_BUF
      BY <3>2
    <3> QED
      BY <1>3, <3>1, <3>2, <3>3
  <2>5. /\ n' \in [Reader -> Nat] /\ target' \in [Reader -> Nat]
        /\ pc' \in [Reader -> {"idle", "loop", "sleep"}] /\ pending' \in Seq(Char)
    BY <1>1, <2>1 DEF CInv, CType
  <2>6. CType'
    BY <2>3, <2>4, <2>5 DEF CType
  <2>7. Open(d, w, e + 1)
    <3>1. ASSUME NEW k \in w .. e PROVE d[k % INPUT_BUF] \notin {"nl", "eof"}
      <4>1. CASE k = e
        BY <1>3, <1>10, <4>1
      <4>2. CASE k # e
        <5>1. k \in w .. e - 1
          BY <4>2, Indices
        <5> QED
          BY <1>5, <5>1, Indices DEF Open
      <4> QED
        BY <4>1, <4>2
    <3>2. \A k : k \in w .. (e + 1) - 1 => k \in w .. e
      BY Indices
    <3> QED
      BY <3>1, <3>2 DEF Open
  <2>8. LineOpen'
    BY <1>1, <2>1, <2>7, Zenon DEF LineOpen
  <2>9. NoSleepWithInput'
    BY <1>1, <2>1 DEF CInv, NoSleepWithInput
  <2> QED
    BY <1>8, <2>2, <2>6, <2>8, <2>9 DEF CInv
<1> QED
  BY <1>9, <1>10

\* A backspace takes the last character of the line.
LEMMA BackspaceKeeps ==
    ASSUME CInv, backspace
    PROVE  CInv'
<1>1. /\ e # w /\ e' = e - 1 /\ line' = SubSeq(line, 1, Len(line) - 1)
      /\ buf' = buf /\ r' = r /\ w' = w /\ pending' = pending
      /\ pc' = pc /\ n' = n /\ target' = target
  BY DEF backspace, Editable, readers
<1>2. e - 1 \in Nat /\ w <= e - 1 /\ e - 1 <= e
  BY <1>1, Indices
<1>3. SubSeq(line, 1, (e - 1) - w) \in Seq(Char) /\ Lies(buf, SubSeq(line, 1, (e - 1) - w), w, e - 1)
  BY <1>2, Indices, LiesPart
<1>4. Len(line) - 1 = (e - 1) - w
  BY Indices DEF Lies
<1>5. line' \in Seq(Char) /\ Lies(buf, line', w, e - 1)
  BY <1>1, <1>3, <1>4, Zenon
<1>6. Holds'
  BY <1>1, <1>5, Indices, Zenon DEF Holds
<1>7. CType'
  <2>1. /\ r' \in Nat /\ w' \in Nat /\ e' \in Nat
        /\ r' <= w' /\ w' <= e' /\ e' <= r' + INPUT_BUF
    BY <1>1, <1>2, Indices, ConsoleAssumption
  <2> QED
    BY <1>1, <1>5, <2>1, Zenon DEF CType, CInv
<1>8. Open(buf, w, e - 1)
  BY <1>2, Indices DEF Open
<1>9. LineOpen'
  BY <1>1, <1>8, Zenon DEF LineOpen
<1>10. Requests' /\ NoSleepWithInput'
  BY <1>1, Zenon DEF CInv, Requests, NoSleepWithInput
<1> QED
  BY <1>6, <1>7, <1>9, <1>10 DEF CInv

\* Killing the line takes it all: there is no newline in it to stop at.
LEMMA KillKeeps ==
    ASSUME CInv, kill_line
    PROVE  CInv'
<1>1. PICK k \in w .. e : /\ k = w \/ at(k - 1) = "nl"
                          /\ e' = k
  BY DEF kill_line
<1>2. /\ line' = <<>> /\ buf' = buf /\ r' = r /\ w' = w /\ pending' = pending
      /\ pc' = pc /\ n' = n /\ target' = target
  BY DEF kill_line, readers
<1>3. e' = w
  <2>1. CASE k # w
    <3>1. k - 1 \in w .. e - 1
      BY <2>1, Indices
    <3> QED
      BY <1>1, <2>1, <3>1, Indices DEF Open, at
  <2> QED
    BY <1>1, <2>1
<1>4. <<>> \in Seq(Char) /\ Lies(buf, <<>>, w, w) /\ Open(buf, w, w)
  BY Indices DEF Lies, Open
<1>5. Holds' /\ LineOpen'
  BY <1>2, <1>3, <1>4, Indices, Zenon DEF Holds, LineOpen
<1>6. CType'
  <2>1. /\ r' \in Nat /\ w' \in Nat /\ e' \in Nat
        /\ r' <= w' /\ w' <= e' /\ e' <= r' + INPUT_BUF
    BY <1>2, <1>3, Indices, ConsoleAssumption
  <2>2. line' \in Seq(Char)
    BY <1>2
  <2> QED
    BY <1>2, <2>1, <2>2, Zenon DEF CType, CInv
<1>7. Requests' /\ NoSleepWithInput'
  BY <1>2, Zenon DEF CInv, Requests, NoSleepWithInput
<1> QED
  BY <1>5, <1>6, <1>7 DEF CInv

\* A call of console_read changes nothing of the ring.
LEMMA ReadKeeps ==
    ASSUME CInv, NEW t \in Reader, NEW k \in 1 .. MaxRead, console_read(t, k)
    PROVE  CInv'
<1>1. /\ pc' = [pc EXCEPT ![t] = "loop"] /\ n' = [n EXCEPT ![t] = k]
      /\ target' = [target EXCEPT ![t] = k]
      /\ buf' = buf /\ r' = r /\ w' = w /\ e' = e /\ pending' = pending /\ line' = line
  BY DEF console_read, ring, history
<1>2. k \in Nat
  BY ConsoleAssumption
<1>3. /\ pc' \in [Reader -> {"idle", "loop", "sleep"}]
      /\ n' \in [Reader -> Nat] /\ target' \in [Reader -> Nat]
  BY <1>1, <1>2 DEF CInv, CType
<1>4. CType'
  BY <1>1, <1>3, Zenon DEF CInv, CType
<1>5. Holds' /\ LineOpen'
  BY <1>1, Zenon DEF CInv, Holds, LineOpen
<1>6. Requests'
  BY <1>1, <1>2 DEF CInv, CType, Requests
<1>7. NoSleepWithInput'
  BY <1>1 DEF CInv, CType, NoSleepWithInput
<1> QED
  BY <1>4, <1>5, <1>6, <1>7 DEF CInv

\* What a round of console_read takes: k characters are looked at, got of them
\* count for the request, and taken of them leave the ring.
Round(t, k, got, taken) ==
    /\ k \in 0 .. n[t] /\ k <= w - r /\ \A j \in 1 .. k - 1 : ~ends(j)
    /\ ends(k) \/ k = n[t] \/ k = w - r
    /\ IF ends(k) /\ at(r + k - 1) = "eof"
       THEN got = k - 1 /\ taken = IF got > 0 \/ n[t] < target[t] THEN k - 1 ELSE k
       ELSE got = k /\ taken = k
    /\ got \in 0 .. n[t] /\ taken \in 0 .. k

\* The effect of read_loop in terms of Round.
LEMMA RoundTaken ==
    ASSUME CInv, NEW t \in Reader, read_loop(t)
    PROVE  /\ \E k, got, taken \in Nat :
                /\ Round(t, k, got, taken)
                /\ r' = r + taken /\ pending' = SubSeq(pending, taken + 1, Len(pending))
                /\ n' = [n EXCEPT ![t] = n[t] - got]
                /\ pc' = [pc EXCEPT ![t] = IF ends(k) \/ got = n[t] THEN "idle" ELSE "sleep"]
           /\ pc[t] = "loop"
           /\ buf' = buf /\ w' = w /\ e' = e /\ target' = target /\ line' = line
<1>1. n[t] \in Nat /\ target[t] \in Nat /\ n[t] <= target[t]
  BY DEF CInv, CType, Requests
<1> DEFINE eof(k) == ends(k) /\ at(r + k - 1) = "eof"
           got(k) == IF eof(k) THEN k - 1 ELSE k
           taken(k) == IF eof(k) /\ keeps_eof(t, got(k)) THEN k - 1 ELSE k
<1>2. PICK k \in 0 .. n[t] :
         /\ k <= w - r /\ \A j \in 1 .. k - 1 : ~ends(j)
         /\ ends(k) \/ k = n[t] \/ k = w - r
         /\ r' = r + taken(k) /\ pending' = SubSeq(pending, taken(k) + 1, Len(pending))
         /\ n' = [n EXCEPT ![t] = n[t] - got(k)]
         /\ pc' = [pc EXCEPT ![t] = IF ends(k) \/ got(k) = n[t] THEN "idle" ELSE "sleep"]
  BY DEF read_loop
<1>3. ends(k) => k > 0
  BY DEF ends
<1>4. k \in Nat /\ got(k) \in Nat /\ taken(k) \in Nat
  BY <1>1, <1>3
<1>5. Round(t, k, got(k), taken(k))
  BY <1>1, <1>2, <1>3 DEF Round, keeps_eof
<1> HIDE DEF got, taken
<1>6. /\ pc[t] = "loop"
      /\ buf' = buf /\ w' = w /\ e' = e /\ target' = target /\ line' = line
  BY DEF read_loop
<1> QED
  BY <1>2, <1>4, <1>5, <1>6

\* A round of console_read takes characters from the front of the ring, and
\* sleeps only at its end.
LEMMA LoopKeeps ==
    ASSUME CInv, NEW t \in Reader, read_loop(t)
    PROVE  CInv'
<1>1. PICK k, got, taken \in Nat :
         /\ Round(t, k, got, taken)
         /\ r' = r + taken /\ pending' = SubSeq(pending, taken + 1, Len(pending))
         /\ n' = [n EXCEPT ![t] = n[t] - got]
         /\ pc' = [pc EXCEPT ![t] = IF ends(k) \/ got = n[t] THEN "idle" ELSE "sleep"]
  BY RoundTaken
<1>2. buf' = buf /\ w' = w /\ e' = e /\ target' = target /\ line' = line
  BY RoundTaken
<1>3. n[t] \in Nat /\ n \in [Reader -> Nat] /\ pc \in [Reader -> {"idle", "loop", "sleep"}]
  BY DEF CInv, CType
<1>4. /\ r + taken \in Nat /\ r <= r + taken /\ r + taken <= w
      /\ n[t] - got \in Nat /\ n[t] - got <= n[t]
  <2>1. taken \in 0 .. k /\ k <= w - r /\ got \in 0 .. n[t] /\ k \in Nat
    BY <1>1 DEF Round
  <2> QED
    BY <1>3, <2>1, Indices
<1>5. /\ SubSeq(pending, ((r + taken) - r) + 1, Len(pending)) \in Seq(Char)
      /\ Lies(buf, SubSeq(pending, ((r + taken) - r) + 1, Len(pending)), r + taken, w)
  BY <1>4, Indices, LiesPart
<1>6. (r + taken) - r = taken
  BY Indices
<1>7. pending' \in Seq(Char) /\ Lies(buf, pending', r + taken, w)
  BY <1>1, <1>5, <1>6, Zenon
<1>8. Holds' /\ LineOpen'
  BY <1>1, <1>2, <1>7, Indices, Zenon DEF Holds, LineOpen
<1>9. /\ n' \in [Reader -> Nat] /\ pc' \in [Reader -> {"idle", "loop", "sleep"}]
  BY <1>1, <1>3, <1>4
<1>10. /\ r' \in Nat /\ w' \in Nat /\ e' \in Nat
       /\ r' <= w' /\ w' <= e' /\ e' <= r' + INPUT_BUF
  <2>1. r' = r + taken /\ w' = w /\ e' = e
    BY <1>1, <1>2
  <2>2. r \in Nat /\ w \in Nat /\ e \in Nat /\ w <= e /\ e <= r + INPUT_BUF /\ INPUT_BUF \in Nat
    BY Indices, ConsoleAssumption
  <2>3. e <= (r + taken) + INPUT_BUF
    BY <1>4, <2>2
  <2> QED
    BY <1>4, <2>1, <2>2, <2>3
<1>11. CType'
  BY <1>2, <1>7, <1>9, <1>10, Zenon DEF CInv, CType
<1>12. Requests'
  BY <1>1, <1>2, <1>3, <1>4 DEF CInv, CType, Requests
<1>13. ASSUME NEW u \in Reader, pc'[u] = "sleep" PROVE r' = w'
  <2>1. CASE u = t
    <3>1. ~ends(k) /\ got # n[t]
      BY <1>1, <1>3, <1>13, <2>1
    <3>2. taken = w - r
      BY <1>1, <3>1 DEF Round
    <3>3. r + taken = w
      BY <3>2, Indices
    <3> QED
      BY <1>1, <1>2, <3>3, Zenon
  <2>2. CASE u # t
    <3>1. r = w
      BY <1>1, <1>3, <1>13, <2>2 DEF CInv, NoSleepWithInput
    <3> QED
      BY <1>1, <1>2, <1>4, <3>1, Indices
  <2> QED
    BY <2>1, <2>2
<1> QED
  BY <1>8, <1>11, <1>12, <1>13 DEF CInv, NoSleepWithInput
-----------------------------------------------------------------------------
\* console_intr and console_read keep the ring, the line and the readers'
\* requests in order in every step.
THEOREM CInvariance == Spec => []CInv
<1>1. Init => CInv
  <2> SUFFICES ASSUME Init PROVE CInv
    OBVIOUS
  <2>1. CType
    BY ConsoleAssumption DEF Init, CType, Char
  <2>2. Holds /\ LineOpen
    BY DEF Init, Holds, LineOpen, Lies, Open
  <2>3. Requests /\ NoSleepWithInput
    BY DEF Init, Requests, NoSleepWithInput
  <2> QED
    BY <2>1, <2>2, <2>3 DEF CInv
<1>2. CInv /\ [Next]_vars => CInv'
  <2> SUFFICES ASSUME CInv, [Next]_vars PROVE CInv'
    OBVIOUS
  <2>1. CASE Next
    BY <2>1, IntrKeeps, BackspaceKeeps, KillKeeps, ReadKeeps, LoopKeeps DEF Next
  <2>2. CASE UNCHANGED vars
    <3>1. /\ buf' = buf /\ r' = r /\ w' = w /\ e' = e /\ pending' = pending /\ line' = line
          /\ pc' = pc /\ n' = n /\ target' = target
      BY <2>2 DEF vars, ring, readers, history
    <3> QED
      BY <3>1, Zenon DEF CInv, CType, Holds, LineOpen, Requests, NoSleepWithInput
  <2> QED
    BY <2>1, <2>2
<1> QED
  BY <1>1, <1>2, PTL DEF Spec

\* What is between r and w, and between w and e, is what was typed, for every
\* size of the ring.
THEOREM InputInRing == Spec => []RingHoldsInput
<1>1. CInv => RingHoldsInput
  <2> SUFFICES ASSUME CInv PROVE RingHoldsInput
    OBVIOUS
  <2>1. ASSUME NEW q \in Seq(Char), NEW x \in Nat, NEW y \in Nat, x <= y, Lies(buf, q, x, y)
        PROVE  q = [k \in 1 .. y - x |-> at(x + k - 1)]
    <3>1. Len(q) = y - x /\ \A k \in 1 .. y - x : q[k] = at(x + k - 1)
      BY <2>1 DEF Lies, at
    <3> QED
      BY <3>1
  <2> QED
    BY <2>1, Indices DEF RingHoldsInput
<1> QED
  BY <1>1, CInvariance, PTL

\* No reader sleeps in console_read while there is something to read.
THEOREM NoLostInput == Spec => []NoSleepWithInput
<1>1. CInv => NoSleepWithInput
  BY DEF CInv
<1> QED
  BY <1>1, CInvariance, PTL

\* console_read leaves an end of file in the ring when it returns characters.
THEOREM EofKept == Spec => EofReadAlone
<1>1. CInv /\ [Next]_vars => [\A t \in Reader : EofLeft(t)]_vars
  <2> SUFFICES ASSUME CInv, Next, NEW u \in Reader,
                      pc[u] = "loop", pc'[u] # "loop",
                      Len(pending) - Len(pending') > 0,
                      pending[Len(pending) - Len(pending')] = "eof"
               PROVE  n'[u] = target'[u]
    BY DEF EofLeft
  <2>0. pc \in [Reader -> {"idle", "loop", "sleep"}] /\ n \in [Reader -> Nat] /\ target \in [Reader -> Nat]
    BY DEF CInv, CType
  <2>1. read_loop(u)
    <3>1. ASSUME NEW x \in Typed, console_intr(x) PROVE FALSE
      <4>1. pc' = awake \/ pc' = pc
        BY <3>1 DEF console_intr
      <4> QED
        BY <2>0, <4>1 DEF awake
    <3>2. ~backspace /\ ~kill_line
      BY DEF backspace, kill_line, readers
    <3>3. ASSUME NEW t \in Reader, NEW k \in 1 .. MaxRead, console_read(t, k) PROVE FALSE
      BY <2>0, <3>3 DEF console_read
    <3>4. ASSUME NEW t \in Reader, read_loop(t) PROVE t = u
      <4>1. pc'[u] = pc[u] \/ t = u
        BY <2>0, <3>4 DEF read_loop
      <4> QED
        BY <4>1
    <3> QED
      BY <3>1, <3>2, <3>3, <3>4 DEF Next
  <2>2. PICK k, got, taken \in Nat :
           /\ Round(u, k, got, taken)
           /\ pending' = SubSeq(pending, taken + 1, Len(pending))
           /\ n' = [n EXCEPT ![u] = n[u] - got]
    BY <2>1, RoundTaken
  <2>3. n'[u] = n[u] - got /\ target'[u] = target[u] /\ n[u] <= target[u]
    BY <2>0, <2>1, <2>2, RoundTaken DEF CInv, Requests
  <2>4. taken \in 0 .. w - r /\ Len(pending) = w - r /\ pending \in Seq(Char)
    BY <2>2, Indices DEF Round, Lies
  <2>5. Len(pending') = (w - r) - taken
    <3>1. /\ pending \in Seq(Char) /\ taken \in Nat /\ Len(pending) \in Nat
          /\ taken <= Len(pending)
      BY <2>2, <2>4, Indices
    <3>2. Len(SubSeq(pending, taken + 1, Len(pending))) = Len(pending) - taken
      BY <3>1
    <3> QED
      BY <2>2, <2>4, <3>2, Zenon
  <2>6. taken > 0 /\ pending[taken] = "eof"
    <3>1. Len(pending) - Len(pending') = taken
      BY <2>4, <2>5, Indices
    <3> QED
      BY <3>1
  <2>7. at(r + taken - 1) = "eof"
    BY <2>4, <2>6, Indices DEF Lies, at
  <2>8. ends(taken)
    BY <2>6, <2>7 DEF ends
  <2>9. taken = k
    BY <2>2, <2>6, <2>8 DEF Round
  <2>10. got = k - 1 /\ ~(got > 0 \/ n[u] < target[u])
    BY <2>2, <2>6, <2>7, <2>8, <2>9 DEF Round
  <2> QED
    BY <2>0, <2>3, <2>10
<1> QED
  BY <1>1, CInvariance, PTL DEF Spec, EofReadAlone
=============================================================================
