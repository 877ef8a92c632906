---------------------------- MODULE DevicesProofs ----------------------------
(***************************************************************************)
(* Proofs about the devices of MCDevices, for any sizes of the rings.      *)
(***************************************************************************)
EXTENDS MCDevices, Integers, TLAPS

-----------------------------------------------------------------------------
(* Positions in a ring: numbers, and their remainders. *)

(* A number is the remainder of what it differs from by whole turns. *)
LEMMA Remainder ==
  ASSUME NEW m \in Nat, m > 0, NEW q \in Nat, NEW r \in 0..(m - 1)
  PROVE  (m * q + r) % m = r
  OBVIOUS

LEMMA Turns ==
  ASSUME NEW m \in Nat, m > 0, NEW a \in Nat
  PROVE  /\ a % m \in 0..(m - 1)
         /\ \E q \in Nat : a = m * q + (a % m)
<1>1. a = m * (a \div m) + (a % m) /\ a \div m \in Nat
  OBVIOUS
<1>2. a % m \in 0..(m - 1)
  OBVIOUS
<1> QED BY <1>1, <1>2, Zenon

(* Going on from a remainder. *)
LEMMA Onward ==
  ASSUME NEW m \in Nat, m > 0, NEW a \in Nat, NEW n \in Nat
  PROVE  ((a % m) + n) % m = (a + n) % m
<1> DEFINE r == a % m
           s == (r + n) % m
<1>1. r \in 0..(m - 1) /\ s \in 0..(m - 1)
  BY Turns
<1>2. PICK q \in Nat : a = m * q + r
  BY Zenon, Turns
<1> HIDE DEF r
<1>3. PICK p \in Nat : r + n = m * p + s
  <2>1. r + n \in Nat
    BY <1>1
  <2> QED BY Zenon, <2>1, Turns
<1> HIDE DEF s
<1>4. a + n = m * (q + p) + s
  <2>1. m * (q + p) = m * q + m * p
    OBVIOUS
  <2> QED BY <1>1, <1>2, <1>3, <2>1
<1>5. (m * (q + p) + s) % m = s
  BY <1>1, Remainder
<1> QED BY <1>4, <1>5, Zenon DEF s, r

(* Positions less than m apart: the distance, and what shares a place. *)
LEMMA Apart ==
  ASSUME NEW m \in Nat, m > 0, NEW a \in Nat, NEW b \in Nat, b < a, a - b < m
  PROVE  a % m # b % m
<1>1. PICK q \in Nat : a = m * q + (a % m)
  BY Zenon, Turns
<1>2. PICK p \in Nat : b = m * p + (b % m)
  BY Zenon, Turns
<1> SUFFICES ASSUME a % m = b % m PROVE FALSE
  BY Zenon
<1>3. a - b = m * (q - p)
  <2>1. m * (q - p) = m * q - m * p
    OBVIOUS
  <2> QED BY <1>1, <1>2, <2>1
<1>4. q - p >= 1
  BY <1>3
<1>5. m * (q - p) >= m
  BY <1>4
<1> QED BY <1>3, <1>5

LEMMA Distance ==
  ASSUME NEW m \in Nat, m > 0, NEW a \in Nat, NEW b \in Nat, b <= a, a - b < m
  PROVE  ((a % m) + m - (b % m)) % m = a - b
<1> DEFINE r == b % m
           d == a - b
           e == a % m
<1>1. r \in 0..(m - 1) /\ e \in 0..(m - 1)
  BY Zenon, Turns
<1>2. d \in Nat /\ d < m /\ a = b + d
  OBVIOUS
<1>3. e = (r + d) % m
  <2>1. ((b % m) + d) % m = (b + d) % m
    BY Zenon, <1>2, Onward
  <2> QED BY <2>1, <1>2, Zenon
<1> SUFFICES (e + m - r) % m = d
  BY Zenon
<1> HIDE DEF r, d, e
<1>4. CASE r + d < m
  <2>1. e = r + d
    BY <1>1, <1>2, <1>3, <1>4
  <2>2. e + m - r = m * 1 + d
    BY <2>1, <1>1, <1>2
  <2>3. (m * 1 + d) % m = d
    BY <1>2, Remainder
  <2> QED BY Zenon, <2>2, <2>3
<1>5. CASE r + d >= m
  <2>1. r + d = m * 1 + (r + d - m) /\ r + d - m \in 0..(m - 1)
    BY <1>1, <1>2, <1>5
  <2>2. e = r + d - m
    BY <1>3, <2>1, Remainder
  <2>3. e + m - r = m * 0 + d
    BY <2>2, <1>1, <1>2
  <2>4. (m * 0 + d) % m = d
    BY <1>2, Remainder
  <2> QED BY Zenon, <2>3, <2>4
<1> QED BY <1>1, <1>2, <1>4, <1>5

(* A ring whose size divides the range of its indices. *)
LEMMA Place ==
  ASSUME NEW m \in Nat, m > 0, NEW w \in Nat, w > 0, w % m = 0, NEW a \in Nat
  PROVE  (a % w) % m = a % m
<1> DEFINE b == a % w
           r == b % m
<1>1. b \in Nat /\ r \in 0..(m - 1)
  BY Turns
<1>2. PICK q \in Nat : a = w * q + b
  BY Zenon, Turns
<1>3. PICK k \in Nat : w = m * k
  <2>1. PICK k \in Nat : w = m * k + (w % m)
    BY Zenon, Turns
  <2>2. m * k \in Nat
    OBVIOUS
  <2> QED BY <2>1, <2>2
<1>4. PICK j \in Nat : b = m * j + r
  BY Zenon, <1>1, Turns
<1> HIDE DEF b, r
<1>5. a = m * (k * q + j) + r
  <2>1. w * q = m * (k * q) /\ k * q \in Nat
    BY <1>3
  <2>2. m * (k * q + j) = m * (k * q) + m * j
    BY <2>1
  <2> QED BY <1>1, <1>2, <1>4, <2>1, <2>2
<1>6. k * q + j \in Nat
  OBVIOUS
<1>7. (m * (k * q + j) + r) % m = r
  BY Zenon, <1>1, <1>6, Remainder
<1> QED BY <1>5, <1>7, Zenon DEF r, b

-----------------------------------------------------------------------------
(* The terminal. *)

(* A ring of bytes holds the bytes first + 1 to last, each in its place.   *)
RingHas(cells, size, first, last) ==
  \A k \in (first + 1)..last : cells[(k - 1) % size] = k

(* A byte stored behind the last one leaves the others in their places. *)
LEMMA ByteStored ==
  ASSUME NEW size \in Nat, size > 0, NEW cells \in [0..(size - 1) -> Nat],
         NEW first \in Nat, NEW last \in Nat, first <= last, last < first + size,
         RingHas(cells, size, first, last)
  PROVE  RingHas([cells EXCEPT ![last % size] = last + 1], size, first, last + 1)
<1> SUFFICES ASSUME NEW k \in (first + 1)..(last + 1)
             PROVE  [cells EXCEPT ![last % size] = last + 1][(k - 1) % size] = k
  BY Zenon DEF RingHas
<1>1. last % size \in 0..(size - 1) /\ k - 1 \in Nat /\ (k - 1) % size \in 0..(size - 1)
  BY Turns
<1>2. CASE k = last + 1
  BY <1>1, <1>2
<1>3. CASE k # last + 1
  <2>1. (k - 1) % size # last % size
    <3>1. k - 1 \in Nat /\ k - 1 < last /\ last - (k - 1) < size
      BY <1>3
    <3> QED BY Zenon, <3>1, Apart
  <2>2. cells[(k - 1) % size] = k
    BY <1>3 DEF RingHas
  <2> QED BY Zenon, <1>1, <2>1, <2>2
<1> QED BY Zenon, <1>2, <1>3

Calls == [pc : {"idle", "store", "load", "in", "turn", "out"}, head : 0..(CountWrap - 1),
          tail : 0..(CountWrap - 1), count : Nat, i : Nat]

ConsoleTypes ==
  /\ out \in [0..(OutSize - 1) -> Nat] /\ in \in [0..(InSize - 1) -> Nat]
  /\ out_head \in 0..(CountWrap - 1) /\ out_tail \in 0..(CountWrap - 1)
  /\ in_head \in 0..(CountWrap - 1) /\ in_tail \in 0..(CountWrap - 1)
  /\ writer \in [Writers -> Calls] /\ \A w \in Writers : writer[w].pc \in {"idle", "store"}
  /\ reader \in Calls /\ reader.pc \in {"idle", "load"}
  /\ pump \in Calls /\ pump.pc \in {"idle", "in", "turn", "out"}
  /\ printed \in 0..MaxOut /\ typed \in 0..MaxIn /\ shown \in Nat /\ read \in Nat

(* The writer that is storing holds the lock, and nobody else stores. *)
LockHeld ==
  /\ hvc_co_out_lock \in Writers \cup {Nobody}
  /\ \A w \in Writers : writer[w].pc = "store" <=> hvc_co_out_lock = w

(* How many bytes have been taken out of the ring, and how many published. *)
OutTaken == IF pump.pc = "out" THEN shown - pump.i ELSE shown
OutPublished == IF hvc_co_out_lock = Nobody THEN printed ELSE printed - writer[hvc_co_out_lock].i

(* The indices are those numbers; a writer's idea of the tail is an old    *)
(* one, with which its bytes still fit; the client's idea of the head is   *)
(* an old one, and the ring holds everything not yet shown.                *)
OutInv ==
  /\ OutTaken \in Nat /\ out_tail = OutTaken % CountWrap
  /\ OutPublished \in shown..printed /\ out_head = OutPublished % CountWrap
  /\ printed <= OutTaken + OutSize
  /\ \A w \in Writers : writer[w].pc = "store" =>
       /\ writer[w].head = printed % CountWrap
       /\ \E t \in 0..OutTaken : writer[w].tail = t % CountWrap /\ printed <= t + OutSize
  /\ pump.pc = "turn" => pump.i = 0
  /\ pump.pc = "out" =>
       /\ pump.tail = shown % CountWrap
       /\ \E p \in shown..OutPublished : pump.head = p % CountWrap
  /\ RingHas(out, OutSize, shown, printed)

(* The same for the keys: the client writes and the guest reads. *)
InTaken == IF reader.pc = "load" THEN read - reader.i ELSE read
InPublished == IF pump.pc = "in" THEN typed - pump.i ELSE typed
InInv ==
  /\ InTaken \in Nat /\ in_tail = InTaken % CountWrap
  /\ InPublished \in read..typed /\ in_head = InPublished % CountWrap
  /\ typed <= InTaken + InSize
  /\ pump.pc = "in" =>
       /\ pump.head = typed % CountWrap
       /\ \E t \in 0..InTaken : pump.tail = t % CountWrap /\ typed <= t + InSize
  /\ reader.pc = "load" => reader.tail = read % CountWrap
  /\ RingHas(in, InSize, read, typed)

ConsoleInv == ConsoleTypes /\ LockHeld /\ OutInv /\ InInv

LEMMA ConsoleSizes ==
  /\ OutSize \in Nat /\ OutSize > 0 /\ OutSize < CountWrap /\ CountWrap % OutSize = 0
  /\ InSize \in Nat /\ InSize > 0 /\ InSize < CountWrap /\ CountWrap % InSize = 0
  /\ CountWrap \in Nat /\ CountWrap > 0
  /\ MaxCount \in Nat /\ MaxOut \in Nat /\ MaxIn \in Nat /\ Nobody \notin Writers
<1>1. OutSize \in Nat \ {0} /\ InSize \in Nat \ {0} /\ CountWrap \in Nat \ {0}
  BY SizesAssumption, Zenon
<1>2. MaxCount \in Nat /\ MaxOut \in Nat /\ MaxIn \in Nat
  BY SizesAssumption, Zenon
<1> QED BY <1>1, <1>2, SizesAssumption

LEMMA NoCallTyped == Console!NoCall \in Calls
  BY ConsoleSizes DEF Console!NoCall, Calls

LEMMA ConsoleNext1 ==
  ASSUME NEW j \in 0..(CountWrap - 1) PROVE Console!Next1(j) \in 0..(CountWrap - 1)
  BY ConsoleSizes, Turns DEF Console!Next1

(* A call goes on to the next byte: its head, or its tail, moves by one. *)
OnHead(c, d) ==
  /\ d \in Calls /\ d.pc = c.pc /\ d.head = Console!Next1(c.head) /\ d.tail = c.tail
  /\ d.count = c.count /\ d.i = c.i + 1
OnTail(c, d) ==
  /\ d \in Calls /\ d.pc = c.pc /\ d.head = c.head /\ d.tail = Console!Next1(c.tail)
  /\ d.count = c.count /\ d.i = c.i + 1

LEMMA PutByteMoves ==
  ASSUME ConsoleTypes, NEW w \in Writers, Console!PutByte(w)
  PROVE  OnHead(writer[w], writer'[w]) /\ writer' = [writer EXCEPT ![w] = writer'[w]]
<1>1. writer[w] \in Calls /\ writer[w].i \in Nat /\ writer[w].head \in 0..(CountWrap - 1)
  BY Zenon DEF ConsoleTypes, Calls
<1>2. PICK t \in 0..(CountWrap - 1) : t = Console!Next1(writer[w].head)
  BY Zenon, <1>1, ConsoleNext1
<1>3. PICK j \in Nat : j = writer[w].i + 1
  BY <1>1
<1> DEFINE e == [writer[w] EXCEPT !.head = t, !.i = j]
<1>6. writer' = [writer EXCEPT ![w] = e]
  BY Zenon, <1>2, <1>3 DEF Console!PutByte
<1>7. writer'[w] = e /\ writer' = [writer EXCEPT ![w] = writer'[w]]
  <2> HIDE DEF e
  <2> QED BY Zenon, <1>6 DEF ConsoleTypes
<1>4. writer'[w] = [writer[w] EXCEPT !.head = t, !.i = j]
  BY Zenon, <1>7
<1>5. /\ writer'[w] \in Calls /\ writer'[w].pc = writer[w].pc /\ writer'[w].tail = writer[w].tail
      /\ writer'[w].head = t /\ writer'[w].count = writer[w].count /\ writer'[w].i = j
  BY Zenon, <1>1, <1>4 DEF Calls
<1> QED BY Zenon, <1>2, <1>3, <1>5, <1>7 DEF OnHead

LEMMA GetByteMoves ==
  ASSUME ConsoleTypes, Console!GetByte
  PROVE  OnTail(reader, reader')
<1>1. reader \in Calls /\ reader.i \in Nat /\ reader.tail \in 0..(CountWrap - 1)
  BY Zenon DEF ConsoleTypes, Calls
<1>2. PICK t \in 0..(CountWrap - 1) : t = Console!Next1(reader.tail)
  BY Zenon, <1>1, ConsoleNext1
<1>3. PICK j \in Nat : j = reader.i + 1
  BY <1>1
<1>4. reader' = [reader EXCEPT !.tail = t, !.i = j]
  BY Zenon, <1>2, <1>3 DEF Console!GetByte
<1>5. /\ reader' \in Calls /\ reader'.pc = reader.pc /\ reader'.head = reader.head
      /\ reader'.tail = t /\ reader'.count = reader.count /\ reader'.i = j
  BY Zenon, <1>1, <1>4 DEF Calls
<1> QED BY Zenon, <1>2, <1>3, <1>5 DEF OnTail

LEMMA PumpInByteMoves ==
  ASSUME ConsoleTypes, Console!PumpInByte
  PROVE  OnHead(pump, pump')
<1>1. pump \in Calls /\ pump.i \in Nat /\ pump.head \in 0..(CountWrap - 1)
  BY Zenon DEF ConsoleTypes, Calls
<1>2. PICK t \in 0..(CountWrap - 1) : t = Console!Next1(pump.head)
  BY Zenon, <1>1, ConsoleNext1
<1>3. PICK j \in Nat : j = pump.i + 1
  BY <1>1
<1>4. pump' = [pump EXCEPT !.head = t, !.i = j]
  BY Zenon, <1>2, <1>3 DEF Console!PumpInByte
<1>5. /\ pump' \in Calls /\ pump'.pc = pump.pc /\ pump'.tail = pump.tail
      /\ pump'.head = t /\ pump'.count = pump.count /\ pump'.i = j
  BY Zenon, <1>1, <1>4 DEF Calls
<1> QED BY Zenon, <1>2, <1>3, <1>5 DEF OnHead

LEMMA PumpOutByteMoves ==
  ASSUME ConsoleTypes, Console!PumpOutByte
  PROVE  OnTail(pump, pump')
<1>1. pump \in Calls /\ pump.i \in Nat /\ pump.tail \in 0..(CountWrap - 1)
  BY Zenon DEF ConsoleTypes, Calls
<1>2. PICK t \in 0..(CountWrap - 1) : t = Console!Next1(pump.tail)
  BY Zenon, <1>1, ConsoleNext1
<1>3. PICK j \in Nat : j = pump.i + 1
  BY <1>1
<1>4. pump' = [pump EXCEPT !.tail = t, !.i = j]
  BY Zenon, <1>2, <1>3 DEF Console!PumpOutByte
<1>5. /\ pump' \in Calls /\ pump'.pc = pump.pc /\ pump'.head = pump.head
      /\ pump'.tail = t /\ pump'.count = pump.count /\ pump'.i = j
  BY Zenon, <1>1, <1>4 DEF Calls
<1> QED BY Zenon, <1>2, <1>3, <1>5 DEF OnTail

(* Types and lock, action by action. *)
LEMMA ConsoleTyped ==
  ASSUME ConsoleTypes, LockHeld, Console!Next
  PROVE  ConsoleTypes' /\ LockHeld'
<1> USE DEF Console!out_ring, Console!in_ring, Console!history
<1>1. ASSUME NEW w \in Writers, NEW count \in 1..MaxCount, Console!PutLock(w, count)
      PROVE  ConsoleTypes' /\ LockHeld'
  <2>1. [pc |-> "store", head |-> out_head, tail |-> out_tail, count |-> count, i |-> 0] \in Calls
    BY ConsoleSizes DEF ConsoleTypes, Calls
  <2>2. ConsoleTypes'
    BY Zenon, <1>1, <2>1 DEF Console!PutLock, ConsoleTypes
  <2>3. LockHeld'
    BY Zenon, <1>1, ConsoleSizes DEF Console!PutLock, ConsoleTypes, LockHeld
  <2> QED BY Zenon, <2>2, <2>3
<1>2. ASSUME NEW w \in Writers, Console!PutByte(w) PROVE ConsoleTypes' /\ LockHeld'
  <2> DEFINE c == writer[w]
             d == writer'[w]
  <2>1. c \in Calls /\ c.head \in 0..(CountWrap - 1)
    BY Zenon DEF ConsoleTypes, Calls
  <2>2. d \in Calls /\ d.pc = c.pc /\ writer' = [writer EXCEPT ![w] = d]
    BY Zenon, <1>2, PutByteMoves DEF OnHead
  <2> HIDE DEF d
  <2>3. printed \in 0..MaxOut /\ printed < MaxOut /\ MaxOut \in Nat
    BY Zenon, <1>2, ConsoleSizes DEF Console!PutByte, ConsoleTypes
  <2>4. printed + 1 \in 0..MaxOut /\ printed + 1 \in Nat
    BY <2>3
  <2>5. ConsoleTypes'
    BY Zenon, <1>2, <2>1, <2>2, <2>4 DEF Console!PutByte, ConsoleTypes
  <2>6. LockHeld'
    BY Zenon, <1>2, <2>2 DEF Console!PutByte, ConsoleTypes, LockHeld
  <2> QED BY Zenon, <2>5, <2>6
<1>3. ASSUME NEW w \in Writers, Console!PutPublish(w) PROVE ConsoleTypes' /\ LockHeld'
  <2>1. writer[w] \in Calls /\ writer[w].head \in 0..(CountWrap - 1) /\ writer[w].pc = "store"
    BY Zenon, <1>3 DEF Console!PutPublish, ConsoleTypes, Calls
  <2>2. Console!NoCall.pc = "idle"
    BY Zenon DEF Console!NoCall
  <2>3. ConsoleTypes'
    BY Zenon, <1>3, <2>1, <2>2, NoCallTyped DEF Console!PutPublish, ConsoleTypes
  <2>4. LockHeld'
    BY Zenon, <1>3, <2>1, <2>2, ConsoleSizes DEF Console!PutPublish, ConsoleTypes, LockHeld
  <2> QED BY Zenon, <2>3, <2>4
<1>4. ASSUME Console!Get PROVE ConsoleTypes' /\ LockHeld'
  <2>1. reader \in Calls /\ reader.tail \in 0..(CountWrap - 1) /\ reader.i \in Nat
    BY Zenon DEF ConsoleTypes, Calls
  <2>2. ASSUME NEW count \in 1..MaxCount, Console!GetBegin(count) PROVE ConsoleTypes'
    <3>1. count \in Nat /\ in_tail \in 0..(CountWrap - 1)
      BY DEF ConsoleTypes
    <3>2. [Console!NoCall EXCEPT !.pc = "load", !.tail = in_tail, !.count = count] \in Calls
      BY Zenon, <3>1, NoCallTyped DEF Calls
    <3>3. [Console!NoCall EXCEPT !.pc = "load", !.tail = in_tail, !.count = count].pc = "load"
      BY Zenon DEF Console!NoCall
    <3> QED BY Zenon, <2>2, <3>2, <3>3 DEF Console!GetBegin, ConsoleTypes
  <2>3. ASSUME Console!GetByte PROVE ConsoleTypes'
    <3>2. reader' \in Calls /\ reader'.pc = "load"
      BY Zenon, <2>3, GetByteMoves DEF OnTail, Console!GetByte
    <3>3. reader.tail % InSize \in 0..(InSize - 1)
      BY <2>1, ConsoleSizes, Turns
    <3>4. read' \in Nat
      BY Zenon, <2>3, <3>3 DEF Console!GetByte, ConsoleTypes
    <3> QED BY Zenon, <2>3, <3>2, <3>4 DEF Console!GetByte, ConsoleTypes
  <2>4. ASSUME Console!GetEnd PROVE ConsoleTypes'
    <3>1. Console!NoCall.pc = "idle"
      BY Zenon DEF Console!NoCall
    <3> QED BY Zenon, <2>1, <2>4, <3>1, NoCallTyped DEF Console!GetEnd, ConsoleTypes
  <2>5. LockHeld'
    BY Zenon, <1>4 DEF Console!Get, Console!GetBegin, Console!GetByte, Console!GetEnd, LockHeld
  <2> QED BY Zenon, <1>4, <2>2, <2>3, <2>4, <2>5 DEF Console!Get
<1>5. ASSUME Console!Pump PROVE ConsoleTypes' /\ LockHeld'
  <2>1. /\ pump \in Calls /\ pump.tail \in 0..(CountWrap - 1) /\ pump.head \in 0..(CountWrap - 1)
        /\ pump.i \in Nat /\ pump.count \in Nat
    BY Zenon DEF ConsoleTypes, Calls
  <2>2. ASSUME NEW count \in 1..MaxCount, Console!PumpBegin(count) PROVE ConsoleTypes'
    <3>1. pump' \in Calls /\ pump'.pc = "in"
      BY <2>2, ConsoleSizes DEF Console!PumpBegin, ConsoleTypes, Calls
    <3> QED BY Zenon, <2>2, <3>1 DEF Console!PumpBegin, ConsoleTypes
  <2>3. ASSUME Console!PumpInByte PROVE ConsoleTypes'
    <3>2. pump' \in Calls /\ pump'.pc = "in"
      BY Zenon, <2>3, PumpInByteMoves DEF OnHead, Console!PumpInByte
    <3>3. typed \in 0..MaxIn /\ typed < MaxIn
      BY Zenon, <2>3 DEF Console!PumpInByte, ConsoleTypes
    <3>4. typed + 1 \in 0..MaxIn /\ typed + 1 \in Nat
      BY <3>3, ConsoleSizes
    <3> QED BY Zenon, <2>3, <3>2, <3>4 DEF Console!PumpInByte, ConsoleTypes
  <2>4. ASSUME Console!PumpInPublish PROVE ConsoleTypes'
    <3>1. pump' \in Calls /\ pump'.pc = "turn"
      <4>1. [Console!NoCall EXCEPT !.pc = "turn", !.count = pump.count] \in Calls
        BY Zenon, <2>1, NoCallTyped DEF Calls
      <4>2. [Console!NoCall EXCEPT !.pc = "turn", !.count = pump.count].pc = "turn"
        BY Zenon DEF Console!NoCall
      <4> QED BY Zenon, <2>4, <4>1, <4>2 DEF Console!PumpInPublish
    <3> QED BY Zenon, <2>1, <2>4, <3>1 DEF Console!PumpInPublish, ConsoleTypes
  <2>5. ASSUME Console!PumpOutBegin PROVE ConsoleTypes'
    <3>1. Console!Skipped(out_head, out_tail) \in 0..(CountWrap - 1)
      BY ConsoleSizes DEF Console!Skipped, Console!Used, ConsoleTypes
    <3>2. pump' \in Calls /\ pump'.pc = "out"
      BY Zenon, <2>1, <2>5, <3>1 DEF Console!PumpOutBegin, Calls, ConsoleTypes
    <3> QED BY Zenon, <2>5, <3>2 DEF Console!PumpOutBegin, ConsoleTypes
  <2>6. ASSUME Console!PumpOutByte PROVE ConsoleTypes'
    <3>2. pump' \in Calls /\ pump'.pc = "out"
      BY Zenon, <2>6, PumpOutByteMoves DEF OnTail, Console!PumpOutByte
    <3>3. pump.tail % OutSize \in 0..(OutSize - 1)
      BY <2>1, ConsoleSizes, Turns
    <3>4. shown' \in Nat
      BY Zenon, <2>6, <3>3 DEF Console!PumpOutByte, ConsoleTypes
    <3> QED BY Zenon, <2>6, <3>2, <3>4 DEF Console!PumpOutByte, ConsoleTypes
  <2>7. ASSUME Console!PumpEnd PROVE ConsoleTypes'
    <3>1. Console!NoCall.pc = "idle"
      BY Zenon DEF Console!NoCall
    <3> QED BY Zenon, <2>1, <2>7, <3>1, NoCallTyped DEF Console!PumpEnd, ConsoleTypes
  <2>8. LockHeld'
    BY Zenon, <1>5 DEF Console!Pump, Console!PumpBegin, Console!PumpInByte, Console!PumpInPublish,
                Console!PumpOutBegin, Console!PumpOutByte, Console!PumpEnd, LockHeld
  <2> QED BY Zenon, <1>5, <2>2, <2>3, <2>4, <2>5, <2>6, <2>7, <2>8 DEF Console!Pump
<1> QED BY Zenon, <1>1, <1>2, <1>3, <1>4, <1>5 DEF Console!Next, Console!Finishes

(* The free-running indices count: their distance and their successor. *)
LEMMA ConsoleUsed ==
  ASSUME NEW a \in Nat, NEW b \in Nat, b <= a, a - b < CountWrap
  PROVE  Console!Used(a % CountWrap, b % CountWrap) = a - b
<1>1. ((a % CountWrap) + CountWrap - (b % CountWrap)) % CountWrap = a - b
  <2>1. CountWrap \in Nat /\ CountWrap > 0
    BY Zenon, ConsoleSizes
  <2> QED BY Zenon, <2>1, Distance
<1> QED BY Zenon, <1>1 DEF Console!Used

LEMMA ConsoleNext ==
  ASSUME NEW a \in Nat PROVE Console!Next1(a % CountWrap) = (a + 1) % CountWrap
  BY ConsoleSizes, Onward DEF Console!Next1

(* An index counted modulo CountWrap falls into the place of its count. *)
LEMMA ConsolePlace ==
  ASSUME NEW a \in Nat
  PROVE  (a % CountWrap) % OutSize = a % OutSize /\ (a % CountWrap) % InSize = a % InSize
<1>1. /\ OutSize \in Nat /\ OutSize > 0 /\ InSize \in Nat /\ InSize > 0
      /\ CountWrap \in Nat /\ CountWrap > 0 /\ CountWrap % OutSize = 0 /\ CountWrap % InSize = 0
  BY Zenon, ConsoleSizes
<1> QED BY Zenon, <1>1, Place

(* What is shown is taken; taken, shown, published, printed: in order. *)
LEMMA OutOrder ==
  ASSUME ConsoleTypes, LockHeld, OutInv
  PROVE  /\ OutTaken \in Nat /\ shown \in Nat /\ OutPublished \in Nat /\ printed \in Nat
         /\ OutTaken <= shown /\ shown <= OutPublished /\ OutPublished <= printed
         /\ printed <= OutTaken + OutSize
         /\ pump.pc # "out" => OutTaken = shown
<1>1. OutTaken \in Nat /\ OutPublished \in shown..printed /\ printed <= OutTaken + OutSize
  BY Zenon DEF OutInv
<1>2. shown \in Nat /\ printed \in 0..MaxOut /\ pump.i \in Nat
  BY Zenon DEF ConsoleTypes, Calls
<1>3. OutTaken <= shown /\ (pump.pc # "out" => OutTaken = shown)
  BY <1>1, <1>2 DEF OutTaken
<1> QED BY <1>1, <1>2, <1>3, ConsoleSizes

(* put_chars: the lock is taken, with the tail as it is now. *)
LEMMA OutPutLock ==
  ASSUME ConsoleInv, NEW w \in Writers, NEW count \in 1..MaxCount, Console!PutLock(w, count)
  PROVE  OutInv'
<1> USE DEF Console!out_ring, Console!in_ring, Console!history
<1> DEFINE c == [pc |-> "store", head |-> out_head, tail |-> out_tail, count |-> count, i |-> 0]
<1>1. /\ UNCHANGED <<out, out_head, out_tail, pump, printed, shown>>
      /\ hvc_co_out_lock = Nobody /\ hvc_co_out_lock' = w /\ writer' = [writer EXCEPT ![w] = c]
  BY Zenon DEF Console!PutLock
<1>2. /\ writer'[w] = c
      /\ \A v \in Writers : v # w => writer'[v] = writer[v] /\ writer[v].pc # "store"
  <2> HIDE DEF c
  <2> QED BY Zenon, <1>1, ConsoleSizes DEF ConsoleInv, ConsoleTypes, LockHeld
<1>3. c.head = out_head /\ c.tail = out_tail /\ c.i = 0
  BY Zenon
<1> HIDE DEF c
<1>4. OutTaken' = OutTaken
  BY Zenon, <1>1 DEF OutTaken
<1>5. OutPublished = printed /\ OutPublished' = printed
  BY <1>1, <1>2, <1>3, ConsoleSizes, OutOrder DEF OutPublished, ConsoleInv
<1>6. /\ out_head = printed % CountWrap /\ out_tail = OutTaken % CountWrap
      /\ OutTaken \in 0..OutTaken /\ printed <= OutTaken + OutSize
  BY <1>5, OutOrder DEF ConsoleInv, OutInv
<1>7. \A v \in Writers : writer'[v].pc = "store" =>
        /\ writer'[v].head = printed % CountWrap
        /\ \E t \in 0..OutTaken : writer'[v].tail = t % CountWrap /\ printed <= t + OutSize
  BY Zenon, <1>2, <1>3, <1>6
<1> QED BY Zenon, <1>1, <1>4, <1>5, <1>7 DEF ConsoleInv, OutInv

(* A byte is stored where nothing waits to be shown, for the tail the      *)
(* writer goes by is no further than the client's.                         *)
LEMMA OutPutByte ==
  ASSUME ConsoleInv, NEW w \in Writers, Console!PutByte(w)
  PROVE  OutInv'
<1> USE DEF Console!out_ring, Console!in_ring, Console!history
<1> DEFINE c == writer[w]
           d == writer'[w]
<1>1. /\ UNCHANGED <<out_head, out_tail, pump, shown, hvc_co_out_lock>>
      /\ c.pc = "store" /\ Console!Room(c) /\ printed' = printed + 1
      /\ out' = [out EXCEPT ![c.head % OutSize] = printed + 1]
  BY Zenon DEF Console!PutByte
<1>2. /\ d.pc = c.pc /\ d.head = Console!Next1(c.head) /\ d.tail = c.tail /\ d.i = c.i + 1
      /\ writer' = [writer EXCEPT ![w] = d] /\ c.i \in Nat
  BY Zenon, PutByteMoves DEF ConsoleInv, OnHead, ConsoleTypes, Calls
<1>3. /\ hvc_co_out_lock = w
      /\ \A v \in Writers : v # w => writer'[v] = writer[v] /\ writer[v].pc # "store"
  <2> HIDE DEF d
  <2> QED BY Zenon, <1>1, <1>2 DEF ConsoleInv, ConsoleTypes, LockHeld
<1>4. OutTaken' = OutTaken
  BY Zenon, <1>1 DEF OutTaken
<1>5. OutPublished' = OutPublished
  <2>1. OutPublished = printed - c.i /\ OutPublished' = printed' - d.i
    BY Zenon, <1>1, <1>3, ConsoleSizes DEF OutPublished
  <2> QED BY <1>1, <1>2, <2>1, OutOrder DEF ConsoleInv
<1>6. PICK t \in 0..OutTaken : c.tail = t % CountWrap /\ printed <= t + OutSize
  BY Zenon, <1>1 DEF ConsoleInv, OutInv
<1>7. c.head = printed % CountWrap
  BY Zenon, <1>1 DEF ConsoleInv, OutInv
<1>8. printed \in Nat /\ t \in Nat /\ t <= printed /\ t <= OutTaken /\ t <= shown /\ shown \in Nat
  BY <1>6, OutOrder DEF ConsoleInv
<1>9. printed + 1 <= t + OutSize
  <2>1. Console!Used(c.head, c.tail) = printed - t
    BY <1>6, <1>7, <1>8, ConsoleUsed, ConsoleSizes
  <2> QED BY <1>1, <1>8, <2>1, ConsoleSizes DEF Console!Room
<1>10. d.head = printed' % CountWrap
  BY Zenon, <1>1, <1>2, <1>7, <1>8, ConsoleNext
<1>11. RingHas(out', OutSize, shown, printed + 1)
  <2>1. c.head % OutSize = printed % OutSize
    BY Zenon, <1>7, <1>8, ConsolePlace
  <2>2. RingHas(out, OutSize, shown, printed) /\ out \in [0..(OutSize - 1) -> Nat]
    BY Zenon DEF ConsoleInv, OutInv, ConsoleTypes
  <2>3. shown <= printed /\ printed < shown + OutSize
    BY <1>8, <1>9, OutOrder, ConsoleSizes DEF ConsoleInv
  <2> QED BY Zenon, <1>1, <1>8, <2>1, <2>2, <2>3, ByteStored, ConsoleSizes
<1>12. /\ OutTaken' \in Nat /\ OutPublished' \in shown'..printed'
       /\ printed' <= OutTaken' + OutSize
  BY <1>1, <1>4, <1>5, <1>8, <1>9, OutOrder, ConsoleSizes DEF ConsoleInv
<1>13. \A v \in Writers : writer'[v].pc = "store" =>
        /\ writer'[v].head = printed' % CountWrap
        /\ \E u \in 0..OutTaken : writer'[v].tail = u % CountWrap /\ printed' <= u + OutSize
  BY Zenon, <1>1, <1>2, <1>3, <1>6, <1>9, <1>10
<1> QED BY Zenon, <1>1, <1>4, <1>5, <1>11, <1>12, <1>13 DEF ConsoleInv, OutInv

(* The head is published. *)
LEMMA OutPutPublish ==
  ASSUME ConsoleInv, NEW w \in Writers, Console!PutPublish(w)
  PROVE  OutInv'
<1> USE DEF Console!out_ring, Console!in_ring, Console!history
<1> DEFINE c == writer[w]
<1>1. /\ UNCHANGED <<out, out_tail, pump, shown, printed>>
      /\ c.pc = "store" /\ out_head' = c.head /\ hvc_co_out_lock' = Nobody
      /\ writer' = [writer EXCEPT ![w] = Console!NoCall]
  BY Zenon DEF Console!PutPublish
<1>2. Console!NoCall.pc = "idle" /\ c.i \in Nat
  BY Zenon DEF Console!NoCall, ConsoleInv, ConsoleTypes, Calls
<1>3. hvc_co_out_lock = w /\ \A v \in Writers : writer'[v].pc # "store"
  BY Zenon, <1>1, <1>2 DEF ConsoleInv, ConsoleTypes, LockHeld
<1>4. OutTaken' = OutTaken /\ OutPublished' = printed
  BY Zenon, <1>1 DEF OutTaken, OutPublished
<1>5. out_head' = printed % CountWrap
  BY Zenon, <1>1 DEF ConsoleInv, OutInv
<1>6. /\ OutTaken' \in Nat /\ OutPublished' \in shown'..printed' /\ printed' <= OutTaken' + OutSize
      /\ \A p \in shown..OutPublished : p \in shown'..OutPublished'
  BY <1>1, <1>4, OutOrder DEF ConsoleInv
<1>7. pump'.pc = "out" =>
       /\ pump'.tail = shown' % CountWrap
       /\ \E p \in shown'..OutPublished' : pump'.head = p % CountWrap
  BY Zenon, <1>1, <1>6 DEF ConsoleInv, OutInv
<1> QED BY Zenon, <1>1, <1>3, <1>4, <1>5, <1>6, <1>7 DEF ConsoleInv, OutInv

(* The client starts on the output, from the tail: no head is more than a  *)
(* ring ahead of it, so nothing is skipped.                                *)
LEMMA OutPumpBegin ==
  ASSUME ConsoleInv, Console!PumpOutBegin
  PROVE  OutInv'
<1> USE DEF Console!out_ring, Console!in_ring, Console!history
<1>1. /\ UNCHANGED <<out, out_head, out_tail, hvc_co_out_lock, writer, shown, printed>>
      /\ pump.pc = "turn" /\ pump.i = 0
  BY Zenon DEF Console!PumpOutBegin, ConsoleInv, OutInv
<1>2. Console!Skipped(out_head, out_tail) = out_tail
  <2>1. out_head = OutPublished % CountWrap /\ out_tail = OutTaken % CountWrap
    BY Zenon DEF ConsoleInv, OutInv
  <2>2. /\ OutPublished \in Nat /\ OutTaken \in Nat /\ OutTaken <= OutPublished
        /\ OutPublished - OutTaken <= OutSize /\ OutPublished - OutTaken < CountWrap
    BY OutOrder, ConsoleSizes DEF ConsoleInv
  <2>3. Console!Used(out_head, out_tail) = OutPublished - OutTaken
    BY Zenon, <2>1, <2>2, ConsoleUsed
  <2> QED BY <2>2, <2>3, ConsoleSizes DEF Console!Skipped
<1>3. /\ pump'.pc = "out" /\ pump'.head = out_head /\ pump'.tail = out_tail /\ pump'.i = 0
  <2>1. pump \in Calls /\ pump' = [pump EXCEPT !.pc = "out", !.head = out_head, !.tail = out_tail]
    BY Zenon, <1>2 DEF Console!PumpOutBegin, ConsoleInv, ConsoleTypes
  <2>2. /\ pump'.pc = "out" /\ pump'.head = out_head /\ pump'.tail = out_tail
        /\ pump'.i = pump.i
    BY Zenon, <2>1 DEF Calls
  <2> QED BY Zenon, <1>1, <2>2
<1>4. OutTaken = shown /\ OutTaken' = shown /\ OutPublished' = OutPublished
  BY <1>1, <1>3, OutOrder DEF OutTaken, OutPublished, ConsoleInv
<1>5. \E p \in shown..OutPublished : pump'.head = p % CountWrap
  <2>1. OutPublished \in shown..OutPublished /\ out_head = OutPublished % CountWrap
    BY OutOrder DEF ConsoleInv, OutInv
  <2> QED BY Zenon, <1>3, <2>1
<1>6. pump'.tail = shown % CountWrap
  BY Zenon, <1>3, <1>4 DEF ConsoleInv, OutInv
<1> QED BY Zenon, <1>1, <1>3, <1>4, <1>5, <1>6 DEF ConsoleInv, OutInv

(* The byte the client takes is the next one. *)
LEMMA OutPumpByte ==
  ASSUME ConsoleInv, Console!PumpOutByte
  PROVE  OutInv' /\ shown' = shown + 1
<1> USE DEF Console!out_ring, Console!in_ring, Console!history
<1>1. /\ UNCHANGED <<out, out_head, out_tail, hvc_co_out_lock, writer, printed>>
      /\ pump.pc = "out" /\ pump.tail # pump.head /\ shown' = out[pump.tail % OutSize]
  BY Zenon DEF Console!PumpOutByte
<1>2. /\ pump'.pc = "out" /\ pump'.tail = Console!Next1(pump.tail) /\ pump'.head = pump.head
      /\ pump'.i = pump.i + 1 /\ pump.i \in Nat
  BY Zenon, <1>1, PumpOutByteMoves DEF OnTail, ConsoleInv, ConsoleTypes, Calls
<1>3. PICK p \in shown..OutPublished : pump.head = p % CountWrap
  BY Zenon, <1>1 DEF ConsoleInv, OutInv
<1>4. pump.tail = shown % CountWrap /\ shown \in Nat
  BY Zenon, <1>1, OutOrder DEF ConsoleInv, OutInv
<1>5. shown < p /\ p \in Nat /\ shown + 1 <= printed /\ shown + 1 <= OutPublished
  BY <1>1, <1>3, <1>4, OutOrder DEF ConsoleInv
<1>6. shown' = shown + 1
  <2>1. pump.tail % OutSize = shown % OutSize
    BY Zenon, <1>4, ConsolePlace
  <2>2. shown + 1 \in (shown + 1)..printed /\ (shown + 1) - 1 = shown
    BY <1>4, <1>5, OutOrder DEF ConsoleInv
  <2>3. out[((shown + 1) - 1) % OutSize] = shown + 1
    BY Zenon, <2>2 DEF ConsoleInv, OutInv, RingHas
  <2> QED BY Zenon, <1>1, <2>1, <2>2, <2>3
<1>7. pump'.tail = shown' % CountWrap
  BY Zenon, <1>2, <1>4, <1>6, ConsoleNext
<1>8. OutTaken' = OutTaken
  BY <1>1, <1>2, <1>4, <1>6 DEF OutTaken
<1>9. OutPublished' = OutPublished
  BY Zenon, <1>1 DEF OutPublished
<1>10. RingHas(out', OutSize, shown', printed')
  <2>1. \A k \in (shown' + 1)..printed' : k \in (shown + 1)..printed
    BY <1>1, <1>4, <1>6
  <2> QED BY Zenon, <1>1, <2>1 DEF RingHas, ConsoleInv, OutInv
<1>11. OutPublished' \in shown'..printed' /\ p \in shown'..OutPublished'
  BY <1>1, <1>3, <1>4, <1>5, <1>6, <1>9, OutOrder DEF ConsoleInv
<1>12. OutInv'
  BY Zenon, <1>1, <1>2, <1>3, <1>7, <1>8, <1>9, <1>10, <1>11 DEF ConsoleInv, OutInv
<1> QED BY Zenon, <1>6, <1>12

(* The tail is published. *)
LEMMA OutPumpEnd ==
  ASSUME ConsoleInv, Console!PumpEnd
  PROVE  OutInv'
<1> USE DEF Console!out_ring, Console!in_ring, Console!history
<1>1. /\ UNCHANGED <<out, out_head, hvc_co_out_lock, writer, printed, shown>>
      /\ pump.pc = "out" /\ out_tail' = IF pump.i = 0 THEN out_tail ELSE pump.tail
      /\ pump'.pc = "idle"
  BY Zenon DEF Console!PumpEnd, Console!NoCall
<1>2. OutTaken' = shown /\ OutPublished' = OutPublished
  BY Zenon, <1>1 DEF OutTaken, OutPublished
<1>3. /\ pump.i = 0 => OutTaken = shown
      /\ out_tail = OutTaken % CountWrap /\ pump.tail = shown % CountWrap
  BY <1>1, OutOrder DEF ConsoleInv, OutInv, OutTaken
<1>4. out_tail' = shown % CountWrap
  BY Zenon, <1>1, <1>3
<1>5. /\ \A t \in 0..OutTaken : t \in 0..OutTaken' 
      /\ OutTaken' \in Nat /\ printed' <= OutTaken' + OutSize
  BY <1>1, <1>2, OutOrder, ConsoleSizes DEF ConsoleInv
<1>6. \A v \in Writers : writer[v].pc = "store" =>
        /\ writer[v].head = printed % CountWrap
        /\ \E t \in 0..OutTaken' : writer[v].tail = t % CountWrap /\ printed <= t + OutSize
  BY Zenon, <1>5 DEF ConsoleInv, OutInv
<1> QED BY Zenon, <1>1, <1>2, <1>4, <1>5, <1>6 DEF ConsoleInv, OutInv

(* The steps of the keys leave the output alone. *)
LEMMA OutOthers ==
  ASSUME ConsoleInv,
         \/ Console!Get
         \/ \E count \in 1..MaxCount : Console!PumpBegin(count)
         \/ Console!PumpInByte \/ Console!PumpInPublish
  PROVE  OutInv'
<1> USE DEF Console!out_ring, Console!in_ring, Console!history
<1>1. UNCHANGED <<out, out_head, out_tail, hvc_co_out_lock, writer, printed, shown>>
  BY Zenon DEF Console!Get, Console!GetBegin, Console!GetByte, Console!GetEnd, Console!PumpBegin,
         Console!PumpInByte, Console!PumpInPublish
<1>2. \/ UNCHANGED pump
      \/ pump.pc # "out" /\ pump'.pc # "out" /\ (pump'.pc = "turn" => pump'.i = 0)
  <2>1. ASSUME Console!Get PROVE UNCHANGED pump
    BY Zenon, <2>1 DEF Console!Get, Console!GetBegin, Console!GetByte, Console!GetEnd
  <2>2. ASSUME NEW count \in 1..MaxCount, Console!PumpBegin(count)
        PROVE  pump.pc = "idle" /\ pump'.pc = "in"
    BY Zenon, <2>2 DEF Console!PumpBegin
  <2>3. ASSUME Console!PumpInByte PROVE pump.pc = "in" /\ pump'.pc = "in"
    BY Zenon, <2>3, PumpInByteMoves DEF OnHead, ConsoleInv, Console!PumpInByte
  <2>4. ASSUME Console!PumpInPublish PROVE pump.pc = "in" /\ pump'.pc = "turn" /\ pump'.i = 0
    <3>1. pump' = [Console!NoCall EXCEPT !.pc = "turn", !.count = pump.count] /\ pump.pc = "in"
      BY Zenon, <2>4 DEF Console!PumpInPublish
    <3> QED BY Zenon, <3>1 DEF Console!NoCall
  <2> QED BY Zenon, <2>1, <2>2, <2>3, <2>4
<1>3. OutTaken' = OutTaken /\ OutPublished' = OutPublished
  BY Zenon, <1>1, <1>2 DEF OutTaken, OutPublished
<1> QED BY Zenon, <1>1, <1>2, <1>3 DEF ConsoleInv, OutInv

LEMMA OutStep == ASSUME ConsoleInv, Console!Next PROVE OutInv'
  BY Zenon, OutPutLock, OutPutByte, OutPutPublish, OutPumpBegin, OutPumpByte, OutPumpEnd, OutOthers
     DEF Console!Next, Console!Finishes, Console!Pump

(* The same for the keys, which the client stores and the guest takes. *)
LEMMA InOrder ==
  ASSUME ConsoleTypes, InInv
  PROVE  /\ InTaken \in Nat /\ read \in Nat /\ InPublished \in Nat /\ typed \in Nat
         /\ InTaken <= read /\ read <= InPublished /\ InPublished <= typed
         /\ typed <= InTaken + InSize
         /\ reader.pc # "load" => InTaken = read
         /\ pump.pc # "in" => InPublished = typed
<1>1. InTaken \in Nat /\ InPublished \in read..typed /\ typed <= InTaken + InSize
  BY Zenon DEF InInv
<1>2. read \in Nat /\ typed \in 0..MaxIn /\ reader.i \in Nat
  BY Zenon DEF ConsoleTypes, Calls
<1>3. /\ InTaken <= read /\ (reader.pc # "load" => InTaken = read)
      /\ (pump.pc # "in" => InPublished = typed)
  BY <1>1, <1>2 DEF InTaken, InPublished
<1> QED BY <1>1, <1>2, <1>3, ConsoleSizes

LEMMA InGetBegin ==
  ASSUME ConsoleInv, NEW count \in 1..MaxCount, Console!GetBegin(count)
  PROVE  InInv'
<1> USE DEF Console!out_ring, Console!in_ring, Console!history
<1>1. /\ UNCHANGED <<in, in_head, in_tail, pump, typed, read>> /\ reader.pc = "idle"
      /\ reader' = [Console!NoCall EXCEPT !.pc = "load", !.tail = in_tail, !.count = count]
  BY Zenon DEF Console!GetBegin
<1>2. reader'.pc = "load" /\ reader'.tail = in_tail /\ reader'.i = 0
  BY Zenon, <1>1 DEF Console!NoCall
<1>3. InTaken = read /\ InTaken' = read /\ InPublished' = InPublished
  BY <1>1, <1>2, InOrder DEF InTaken, InPublished, ConsoleInv
<1> QED BY Zenon, <1>1, <1>2, <1>3 DEF ConsoleInv, InInv

(* The key the guest takes is the next one. *)
LEMMA InGetByte ==
  ASSUME ConsoleInv, Console!GetByte
  PROVE  InInv' /\ read' = read + 1
<1> USE DEF Console!out_ring, Console!in_ring, Console!history
<1>1. /\ UNCHANGED <<in, in_head, in_tail, pump, typed>>
      /\ reader.pc = "load" /\ reader.tail # in_head /\ read' = in[reader.tail % InSize]
  BY Zenon DEF Console!GetByte
<1>2. /\ reader'.pc = "load" /\ reader'.tail = Console!Next1(reader.tail)
      /\ reader'.i = reader.i + 1 /\ reader.i \in Nat
  BY Zenon, <1>1, GetByteMoves DEF OnTail, ConsoleInv, ConsoleTypes, Calls
<1>3. in_head = InPublished % CountWrap /\ reader.tail = read % CountWrap /\ read \in Nat
  BY Zenon, <1>1, InOrder DEF ConsoleInv, InInv
<1>4. read + 1 <= typed /\ read + 1 <= InPublished
  BY <1>1, <1>3, InOrder DEF ConsoleInv
<1>5. read' = read + 1
  <2>1. reader.tail % InSize = read % InSize
    BY Zenon, <1>3, ConsolePlace
  <2>2. read + 1 \in (read + 1)..typed /\ (read + 1) - 1 = read
    BY <1>3, <1>4, InOrder DEF ConsoleInv
  <2>3. in[((read + 1) - 1) % InSize] = read + 1
    BY Zenon, <2>2 DEF ConsoleInv, InInv, RingHas
  <2> QED BY Zenon, <1>1, <2>1, <2>2, <2>3
<1>6. reader'.tail = read' % CountWrap
  BY Zenon, <1>2, <1>3, <1>5, ConsoleNext
<1>7. InTaken' = InTaken
  BY <1>1, <1>2, <1>3, <1>5 DEF InTaken
<1>8. InPublished' = InPublished
  BY Zenon, <1>1 DEF InPublished
<1>9. RingHas(in', InSize, read', typed')
  <2>1. \A k \in (read' + 1)..typed' : k \in (read + 1)..typed
    BY <1>1, <1>3, <1>5
  <2> QED BY Zenon, <1>1, <2>1 DEF RingHas, ConsoleInv, InInv
<1>10. InPublished' \in read'..typed'
  BY <1>1, <1>3, <1>4, <1>5, <1>8, InOrder DEF ConsoleInv
<1>11. InInv'
  BY Zenon, <1>1, <1>2, <1>6, <1>7, <1>8, <1>9, <1>10 DEF ConsoleInv, InInv
<1> QED BY Zenon, <1>5, <1>11

LEMMA InGetEnd ==
  ASSUME ConsoleInv, Console!GetEnd
  PROVE  InInv'
<1> USE DEF Console!out_ring, Console!in_ring, Console!history
<1>1. /\ UNCHANGED <<in, in_head, pump, typed, read>>
      /\ reader.pc = "load" /\ in_tail' = reader.tail /\ reader'.pc = "idle"
  BY Zenon DEF Console!GetEnd, Console!NoCall
<1>2. InTaken' = read /\ InPublished' = InPublished
  BY Zenon, <1>1 DEF InTaken, InPublished
<1>3. in_tail' = read % CountWrap
  BY Zenon, <1>1 DEF ConsoleInv, InInv
<1>4. /\ \A t \in 0..InTaken : t \in 0..InTaken'
      /\ InTaken' \in Nat /\ typed' <= InTaken' + InSize
  BY <1>1, <1>2, InOrder, ConsoleSizes DEF ConsoleInv
<1>5. pump.pc = "in" =>
        /\ pump.head = typed % CountWrap
        /\ \E t \in 0..InTaken' : pump.tail = t % CountWrap /\ typed <= t + InSize
  BY Zenon, <1>4 DEF ConsoleInv, InInv
<1> QED BY Zenon, <1>1, <1>2, <1>3, <1>4, <1>5 DEF ConsoleInv, InInv

LEMMA InPumpBegin ==
  ASSUME ConsoleInv, NEW count \in 1..MaxCount, Console!PumpBegin(count)
  PROVE  InInv'
<1> USE DEF Console!out_ring, Console!in_ring, Console!history
<1>1. /\ UNCHANGED <<in, in_head, in_tail, reader, typed, read>> /\ pump.pc = "idle"
      /\ pump'.pc = "in" /\ pump'.head = in_head /\ pump'.tail = in_tail /\ pump'.i = 0
  BY Zenon DEF Console!PumpBegin
<1>2. InTaken' = InTaken /\ InPublished = typed /\ InPublished' = typed
  BY <1>1, InOrder DEF InTaken, InPublished, ConsoleInv
<1>3. InTaken \in 0..InTaken /\ typed <= InTaken + InSize /\ in_tail = InTaken % CountWrap
  BY InOrder DEF ConsoleInv, InInv
<1>4. \E t \in 0..InTaken : pump'.tail = t % CountWrap /\ typed <= t + InSize
  BY Zenon, <1>1, <1>3
<1> QED BY Zenon, <1>1, <1>2, <1>4 DEF ConsoleInv, InInv

(* A key is stored where nothing waits to be read. *)
LEMMA InPumpByte ==
  ASSUME ConsoleInv, Console!PumpInByte
  PROVE  InInv'
<1> USE DEF Console!out_ring, Console!in_ring, Console!history
<1>1. /\ UNCHANGED <<in_head, in_tail, reader, read>>
      /\ pump.pc = "in" /\ Console!InRoom /\ typed' = typed + 1
      /\ in' = [in EXCEPT ![pump.head % InSize] = typed + 1]
  BY Zenon DEF Console!PumpInByte
<1>2. /\ pump'.pc = "in" /\ pump'.head = Console!Next1(pump.head) /\ pump'.tail = pump.tail
      /\ pump'.i = pump.i + 1 /\ pump.i \in Nat
  BY Zenon, <1>1, PumpInByteMoves DEF ConsoleInv, OnHead, ConsoleTypes, Calls
<1>3. InTaken' = InTaken
  BY Zenon, <1>1 DEF InTaken
<1>4. InPublished' = InPublished
  <2>1. InPublished = typed - pump.i /\ InPublished' = typed' - pump'.i
    BY Zenon, <1>1, <1>2 DEF InPublished
  <2> QED BY <1>1, <1>2, <2>1, InOrder DEF ConsoleInv
<1>5. PICK t \in 0..InTaken : pump.tail = t % CountWrap /\ typed <= t + InSize
  BY Zenon, <1>1 DEF ConsoleInv, InInv
<1>6. pump.head = typed % CountWrap
  BY Zenon, <1>1 DEF ConsoleInv, InInv
<1>7. typed \in Nat /\ t \in Nat /\ t <= typed /\ t <= InTaken /\ t <= read /\ read \in Nat
  BY <1>5, InOrder DEF ConsoleInv
<1>8. typed + 1 <= t + InSize
  <2>1. Console!Used(pump.head, pump.tail) = typed - t
    BY <1>5, <1>6, <1>7, ConsoleUsed, ConsoleSizes
  <2> QED BY <1>1, <1>7, <2>1, ConsoleSizes DEF Console!InRoom
<1>9. pump'.head = typed' % CountWrap
  BY Zenon, <1>1, <1>2, <1>6, <1>7, ConsoleNext
<1>10. RingHas(in', InSize, read, typed + 1)
  <2>1. pump.head % InSize = typed % InSize
    BY Zenon, <1>6, <1>7, ConsolePlace
  <2>2. RingHas(in, InSize, read, typed) /\ in \in [0..(InSize - 1) -> Nat]
    BY Zenon DEF ConsoleInv, InInv, ConsoleTypes
  <2>3. read <= typed /\ typed < read + InSize
    BY <1>7, <1>8, InOrder, ConsoleSizes DEF ConsoleInv
  <2> QED BY Zenon, <1>1, <1>7, <2>1, <2>2, <2>3, ByteStored, ConsoleSizes
<1>11. /\ InTaken' \in Nat /\ InPublished' \in read'..typed'
       /\ typed' <= InTaken' + InSize
  BY <1>1, <1>3, <1>4, <1>7, <1>8, InOrder, ConsoleSizes DEF ConsoleInv
<1>12. \E u \in 0..InTaken : pump'.tail = u % CountWrap /\ typed' <= u + InSize
  BY Zenon, <1>1, <1>2, <1>5, <1>8
<1> QED BY Zenon, <1>1, <1>2, <1>3, <1>4, <1>9, <1>10, <1>11, <1>12 DEF ConsoleInv, InInv

LEMMA InPumpPublish ==
  ASSUME ConsoleInv, Console!PumpInPublish
  PROVE  InInv'
<1> USE DEF Console!out_ring, Console!in_ring, Console!history
<1>1. /\ UNCHANGED <<in, in_tail, reader, typed, read>> /\ pump.pc = "in" /\ in_head' = pump.head
      /\ pump' = [Console!NoCall EXCEPT !.pc = "turn", !.count = pump.count]
  BY Zenon DEF Console!PumpInPublish
<1>2. pump'.pc = "turn"
  BY Zenon, <1>1 DEF Console!NoCall
<1>3. InTaken' = InTaken /\ InPublished' = typed
  BY Zenon, <1>1, <1>2 DEF InTaken, InPublished
<1>4. in_head' = typed % CountWrap /\ typed \in read..typed
  BY <1>1, InOrder DEF ConsoleInv, InInv
<1> QED BY Zenon, <1>1, <1>2, <1>3, <1>4 DEF ConsoleInv, InInv

(* The steps of the output leave the keys alone. *)
LEMMA InOthers ==
  ASSUME ConsoleInv,
         \/ \E w \in Writers, count \in 1..MaxCount : Console!PutLock(w, count)
         \/ Console!Finishes
         \/ Console!PumpOutBegin \/ Console!PumpOutByte \/ Console!PumpEnd
  PROVE  InInv'
<1> USE DEF Console!out_ring, Console!in_ring, Console!history
<1>1. UNCHANGED <<in, in_head, in_tail, reader, typed, read>>
  BY Zenon DEF Console!PutLock, Console!Finishes, Console!PutByte, Console!PutPublish,
         Console!PumpOutBegin, Console!PumpOutByte, Console!PumpEnd
<1>2. UNCHANGED pump \/ (pump.pc # "in" /\ pump'.pc # "in")
  <2>1. ASSUME NEW w \in Writers, NEW count \in 1..MaxCount, Console!PutLock(w, count)
        PROVE  UNCHANGED pump
    BY Zenon, <2>1 DEF Console!PutLock
  <2>2. ASSUME Console!Finishes PROVE UNCHANGED pump
    BY Zenon, <2>2 DEF Console!Finishes, Console!PutByte, Console!PutPublish
  <2>3. ASSUME Console!PumpOutBegin PROVE pump.pc = "turn" /\ pump'.pc = "out"
    <3>1. PICK h, t : pump' = [pump EXCEPT !.pc = "out", !.head = h, !.tail = t]
      BY Zenon, <2>3 DEF Console!PumpOutBegin
    <3>2. pump \in Calls /\ pump.pc = "turn"
      BY Zenon, <2>3 DEF Console!PumpOutBegin, ConsoleInv, ConsoleTypes
    <3>3. pump'.pc = "out"
      BY Zenon, <3>1, <3>2 DEF Calls
    <3> QED BY Zenon, <3>2, <3>3
  <2>4. ASSUME Console!PumpOutByte PROVE pump.pc = "out" /\ pump'.pc = "out"
    BY Zenon, <2>4, PumpOutByteMoves DEF OnTail, ConsoleInv, Console!PumpOutByte
  <2>5. ASSUME Console!PumpEnd PROVE pump.pc = "out" /\ pump'.pc = "idle"
    BY Zenon, <2>5 DEF Console!PumpEnd, Console!NoCall
  <2> QED BY Zenon, <2>1, <2>2, <2>3, <2>4, <2>5
<1>3. InTaken' = InTaken /\ InPublished' = InPublished
  BY Zenon, <1>1, <1>2 DEF InTaken, InPublished
<1> QED BY Zenon, <1>1, <1>2, <1>3 DEF ConsoleInv, InInv

LEMMA InStep == ASSUME ConsoleInv, Console!Next PROVE InInv'
  BY Zenon, InGetBegin, InGetByte, InGetEnd, InPumpBegin, InPumpByte, InPumpPublish, InOthers
     DEF Console!Next, Console!Get, Console!Pump

LEMMA ConsoleStarts == ASSUME Console!Init PROVE ConsoleInv
<1> USE DEF Console!Init
<1>1. Console!NoCall.pc = "idle"
  BY Zenon DEF Console!NoCall
<1>2. ConsoleTypes
  BY <1>1, NoCallTyped, ConsoleSizes DEF ConsoleTypes
<1>3. LockHeld
  BY Zenon, <1>1, ConsoleSizes DEF LockHeld
<1>4. 0 % CountWrap = 0
  BY ConsoleSizes
<1>5. OutTaken = 0 /\ OutPublished = 0 /\ InTaken = 0 /\ InPublished = 0
  BY Zenon, <1>1 DEF OutTaken, OutPublished, InTaken, InPublished
<1>6. RingHas(out, OutSize, 0, 0) /\ RingHas(in, InSize, 0, 0)
  BY DEF RingHas
<1>7. OutInv
  BY <1>1, <1>4, <1>5, <1>6, ConsoleSizes DEF OutInv
<1>8. InInv
  BY <1>1, <1>4, <1>5, <1>6, ConsoleSizes DEF InInv
<1> QED BY Zenon, <1>2, <1>3, <1>7, <1>8 DEF ConsoleInv

LEMMA ConsoleKept == ASSUME ConsoleInv, [DevicesNext]_all PROVE ConsoleInv'
<1>1. ASSUME UNCHANGED console PROVE ConsoleInv'
  BY Zenon, <1>1 DEF console, ConsoleInv, ConsoleTypes, LockHeld, OutInv, OutTaken,
     OutPublished, InInv, InTaken, InPublished
<1>2. ASSUME Console!Next PROVE ConsoleInv'
  BY Zenon, <1>2, ConsoleTyped, OutStep, InStep DEF ConsoleInv
<1> QED BY Zenon, <1>1, <1>2 DEF DevicesNext, InIpi, InNet, InConsole, InGpu, all

LEMMA ConsoleAlways == DevicesSpec => []ConsoleInv
<1>1. DevicesInit => ConsoleInv
  BY Zenon, ConsoleStarts DEF DevicesInit
<1> QED BY <1>1, ConsoleKept, PTL DEF DevicesSpec

(* hvc_co_put_chars, hvc_co_get_chars and co_console_pump: whatever the    *)
(* sizes of the rings, with any number of writers and at any interleaving  *)
(* with the client, each side is given the other's bytes once and in order *)
(* (BytesExact).                                                           *)
THEOREM TerminalExact == DevicesSpec => BytesExact
<1> DEFINE Shows == pump.pc = "out" /\ pump'.pc = "out" /\ pump'.i # pump.i => shown' = shown + 1
           Reads == reader.pc = "load" /\ reader'.pc = "load" /\ reader'.i # reader.i =>
                      read' = read + 1
<1>1. ASSUME ConsoleInv, [DevicesNext]_all PROVE [Shows]_(Console!vars) /\ [Reads]_(Console!vars)
  <2>1. ASSUME UNCHANGED console PROVE UNCHANGED Console!vars
    BY Zenon, <2>1 DEF console, Console!vars, Console!out_ring, Console!in_ring, Console!history
  <2>2. ASSUME Console!Next PROVE Shows
    <3> USE <2>2 DEF Console!out_ring, Console!in_ring, Console!history
    <3>1. ASSUME pump.pc = "out", pump'.pc = "out", pump'.i # pump.i PROVE Console!PumpOutByte
      <4>1. ~Console!Finishes /\ ~Console!Get
        BY Zenon, <3>1 DEF Console!Finishes, Console!Get, Console!PutByte, Console!PutPublish,
           Console!GetBegin, Console!GetByte, Console!GetEnd
      <4>2. ~\E w \in Writers, count \in 1..MaxCount : Console!PutLock(w, count)
        BY Zenon, <3>1 DEF Console!PutLock
      <4>3. /\ ~\E count \in 1..MaxCount : Console!PumpBegin(count)
            /\ ~Console!PumpInByte /\ ~Console!PumpInPublish /\ ~Console!PumpOutBegin
        BY Zenon, <3>1 DEF Console!PumpBegin, Console!PumpInByte, Console!PumpInPublish,
           Console!PumpOutBegin
      <4>4. ~Console!PumpEnd
        BY <3>1 DEF Console!PumpEnd, Console!NoCall
      <4> QED BY Zenon, <4>1, <4>2, <4>3, <4>4 DEF Console!Next, Console!Pump
    <3> QED BY Zenon, <1>1, <3>1, OutPumpByte
  <2>3. ASSUME Console!Next PROVE Reads
    <3> USE <2>3 DEF Console!out_ring, Console!in_ring, Console!history
    <3>1. ASSUME reader.pc = "load", reader'.pc = "load", reader'.i # reader.i
          PROVE  Console!GetByte
      <4>1. ~Console!Finishes /\ ~Console!Pump
        BY Zenon, <3>1 DEF Console!Finishes, Console!Pump, Console!PutByte, Console!PutPublish,
           Console!PumpBegin, Console!PumpInByte, Console!PumpInPublish, Console!PumpOutBegin,
           Console!PumpOutByte, Console!PumpEnd
      <4>2. ~\E w \in Writers, count \in 1..MaxCount : Console!PutLock(w, count)
        BY Zenon, <3>1 DEF Console!PutLock
      <4>3. ~Console!GetEnd /\ ~\E count \in 1..MaxCount : Console!GetBegin(count)
        BY <3>1 DEF Console!GetEnd, Console!GetBegin, Console!NoCall
      <4> QED BY Zenon, <4>1, <4>2, <4>3 DEF Console!Next, Console!Get
    <3> QED BY Zenon, <1>1, <3>1, InGetByte
  <2> QED BY Zenon, <1>1, <2>1, <2>2, <2>3 DEF DevicesNext, InIpi, InNet, InConsole, InGpu, all
<1>2. (DevicesSpec /\ []ConsoleInv) => [][Shows]_(Console!vars) /\ [][Reads]_(Console!vars)
  BY <1>1, PTL DEF DevicesSpec
<1> QED BY <1>2, ConsoleAlways, PTL DEF BytesExact, Console!OutputExact, Console!InputExact

=============================================================================
