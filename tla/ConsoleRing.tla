----------------------------- MODULE ConsoleRing -----------------------------
(***************************************************************************)
(* The guest's terminal: hvc_colinux.c in the guest keeps a ring of bytes  *)
(* out and a ring of bytes in, and co_console_pump (kernel/console.c)      *)
(* moves bytes between them and a terminal client, while the guest runs.   *)
(*                                                                         *)
(* A byte is its number in the stream of bytes that were stored in a ring. *)
(* Two of the guest's processors may print at once: the tty under hvc's    *)
(* lock and printk under the console lock.  An index of four bytes is read *)
(* and written in one piece by both sides.                                 *)
(***************************************************************************)
EXTENDS Naturals

CONSTANTS OutSize,    \* CO_CONSOLE_OUT_SIZE
          InSize,     \* CO_CONSOLE_IN_SIZE
          CountWrap,  \* the free-running indices are counted modulo CountWrap (2^32)
          Writers,    \* the callers of put_chars: the tty and printk
          Nobody,     \* holds no lock
          MaxCount,   \* bound: bytes in one call
          MaxOut,     \* bound: bytes the guest prints
          MaxIn       \* bound: keys the client sends

VARIABLES
  out, out_head, out_tail,   \* guest to host
  in, in_head, in_tail,      \* host to guest
  hvc_co_out_lock,           \* which writer holds it
  writer,                    \* per writer: hvc_co_put_chars in progress
  reader,                    \* hvc_co_get_chars in progress
  pump,                      \* co_console_pump in progress: it holds console_lock
  printed, shown,            \* history: bytes stored in out, last byte the client was given
  typed, read                \* history: keys stored in in, last key the guest was given

out_ring == <<out, out_head, out_tail>>
in_ring == <<in, in_head, in_tail>>
history == <<printed, shown, typed, read>>
vars == <<out_ring, in_ring, hvc_co_out_lock, writer, reader, pump, history>>

Used(head, tail) == (head + CountWrap - tail) % CountWrap
Next1(i) == (i + 1) % CountWrap

NoCall == [pc |-> "idle", head |-> 0, tail |-> 0, count |-> 0, i |-> 0]

Init ==
  /\ out = [s \in 0..(OutSize - 1) |-> 0] /\ out_head = 0 /\ out_tail = 0
  /\ in = [s \in 0..(InSize - 1) |-> 0] /\ in_head = 0 /\ in_tail = 0
  /\ hvc_co_out_lock = Nobody
  /\ writer = [w \in Writers |-> NoCall]
  /\ reader = NoCall
  /\ pump = NoCall
  /\ printed = 0 /\ shown = 0 /\ typed = 0 /\ read = 0

-----------------------------------------------------------------------------
(* hvc_co_put_chars. *)

\* A slip: the writers do not exclude each other.
PutUnlocked(w, count) ==
  /\ writer[w].pc = "idle"
  /\ hvc_co_out_lock' = w
  /\ writer' = [writer EXCEPT ![w] = [pc |-> "store", head |-> out_head, tail |-> out_tail,
                                      count |-> count, i |-> 0]]
  /\ UNCHANGED <<out_ring, in_ring, reader, pump, history>>

PutLock(w, count) ==
  /\ writer[w].pc = "idle" /\ hvc_co_out_lock = Nobody
  /\ hvc_co_out_lock' = w
  /\ writer' = [writer EXCEPT ![w] = [pc |-> "store", head |-> out_head, tail |-> out_tail,
                                      count |-> count, i |-> 0]]
  /\ UNCHANGED <<out_ring, in_ring, reader, pump, history>>

Room(c) == Used(c.head, c.tail) < OutSize

PutByte(w) ==
  LET c == writer[w] IN
  /\ c.pc = "store" /\ c.i < c.count /\ Room(c) /\ printed < MaxOut
  /\ out' = [out EXCEPT ![c.head % OutSize] = printed + 1]
  /\ printed' = printed + 1
  /\ writer' = [writer EXCEPT ![w].head = Next1(@), ![w].i = @ + 1]
  /\ UNCHANGED <<out_head, out_tail, in_ring, hvc_co_out_lock, reader, pump, shown, typed,
                 read>>

\* The head is published, the lock let go and the processor yielded.  A short count makes hvc
\* come back with the rest; when nothing fitted, everything is reported as written.
PutPublish(w) ==
  LET c == writer[w] IN
  /\ c.pc = "store" /\ (c.i = c.count \/ ~Room(c) \/ printed = MaxOut)
  /\ out_head' = c.head
  /\ hvc_co_out_lock' = Nobody
  /\ writer' = [writer EXCEPT ![w] = NoCall]
  /\ UNCHANGED <<out, out_tail, in_ring, reader, pump, printed, shown, typed, read>>

(* hvc_co_get_chars: in_head is looked at before every byte. *)

\* A slip: the indices are compared as offsets, and a full ring looks empty.
GetByOffset(count) ==
  /\ reader.pc = "idle" /\ in_tail % InSize # in_head % InSize
  /\ reader' = [NoCall EXCEPT !.pc = "load", !.tail = in_tail, !.count = count]
  /\ UNCHANGED <<out_ring, in_ring, hvc_co_out_lock, writer, pump, history>>

GetBegin(count) ==
  /\ reader.pc = "idle" /\ in_tail # in_head
  /\ reader' = [NoCall EXCEPT !.pc = "load", !.tail = in_tail, !.count = count]
  /\ UNCHANGED <<out_ring, in_ring, hvc_co_out_lock, writer, pump, history>>

GetByte ==
  /\ reader.pc = "load" /\ reader.i < reader.count /\ reader.tail # in_head
  /\ read' = in[reader.tail % InSize]
  /\ reader' = [reader EXCEPT !.tail = Next1(@), !.i = @ + 1]
  /\ UNCHANGED <<out_ring, in_ring, hvc_co_out_lock, writer, pump, printed, shown, typed>>

GetEnd ==
  /\ reader.pc = "load" /\ (reader.i = reader.count \/ reader.tail = in_head)
  /\ in_tail' = reader.tail
  /\ reader' = NoCall
  /\ UNCHANGED <<out_ring, in, in_head, hvc_co_out_lock, writer, pump, history>>

-----------------------------------------------------------------------------
(* co_console_pump: keys in, then output out, under console_lock. *)

PumpBegin(count) ==
  /\ pump.pc = "idle"
  /\ pump' = [pc |-> "in", head |-> in_head, tail |-> in_tail, count |-> count, i |-> 0]
  /\ UNCHANGED <<out_ring, in_ring, hvc_co_out_lock, writer, reader, history>>

InRoom == Used(pump.head, pump.tail) < InSize

PumpInByte ==
  /\ pump.pc = "in" /\ pump.i < pump.count /\ InRoom /\ typed < MaxIn
  /\ in' = [in EXCEPT ![pump.head % InSize] = typed + 1]
  /\ typed' = typed + 1
  /\ pump' = [pump EXCEPT !.head = Next1(@), !.i = @ + 1]
  /\ UNCHANGED <<out_ring, in_head, in_tail, hvc_co_out_lock, writer, reader, printed, shown,
                 read>>

PumpInPublish ==
  /\ pump.pc = "in" /\ (pump.i = pump.count \/ ~InRoom \/ typed = MaxIn)
  /\ in_head' = pump.head
  /\ pump' = [NoCall EXCEPT !.pc = "turn", !.count = pump.count]
  /\ UNCHANGED <<out_ring, in, in_tail, hvc_co_out_lock, writer, reader, history>>

\* A head more than a ring ahead of the tail is skipped to.
Skipped(head, tail) == IF Used(head, tail) > OutSize THEN Used(head, OutSize) ELSE tail

PumpOutBegin ==
  /\ pump.pc = "turn"
  /\ pump' = [pump EXCEPT !.pc = "out", !.head = out_head, !.tail = Skipped(out_head, out_tail)]
  /\ UNCHANGED <<out_ring, in_ring, hvc_co_out_lock, writer, reader, history>>

PumpOutByte ==
  /\ pump.pc = "out" /\ pump.i < pump.count /\ pump.tail # pump.head
  /\ shown' = out[pump.tail % OutSize]
  /\ pump' = [pump EXCEPT !.tail = Next1(@), !.i = @ + 1]
  /\ UNCHANGED <<out_ring, in_ring, hvc_co_out_lock, writer, reader, printed, typed, read>>

PumpEnd ==
  /\ pump.pc = "out" /\ (pump.i = pump.count \/ pump.tail = pump.head)
  /\ out_tail' = IF pump.i = 0 THEN out_tail ELSE pump.tail
  /\ pump' = NoCall
  /\ UNCHANGED <<out, out_head, in_ring, hvc_co_out_lock, writer, reader, history>>

-----------------------------------------------------------------------------
Finishes == \E w \in Writers : PutByte(w) \/ PutPublish(w)
Get == (\E count \in 1..MaxCount : GetBegin(count)) \/ GetByte \/ GetEnd
Pump ==
  \/ \E count \in 1..MaxCount : PumpBegin(count)
  \/ PumpInByte \/ PumpInPublish \/ PumpOutBegin \/ PumpOutByte \/ PumpEnd

Next ==
  \/ \E w \in Writers, count \in 1..MaxCount : PutLock(w, count)
  \/ Finishes \/ Get \/ Pump

\* The client pumps in a loop, hvc's thread polls for keys, and a writer that holds the lock
\* has its processor.
Fairness ==
  WF_vars(Pump) /\ WF_vars(Get) /\ WF_vars(Finishes)

Spec == Init /\ [][Next]_vars /\ Fairness

-----------------------------------------------------------------------------
TypeOK ==
  /\ {out_head, out_tail, in_head, in_tail} \subseteq 0..(CountWrap - 1)
  /\ hvc_co_out_lock \in Writers \cup {Nobody}
  /\ \A w \in Writers : writer[w].pc \in {"idle", "store"}
  /\ reader.pc \in {"idle", "load"} /\ pump.pc \in {"idle", "in", "turn", "out"}
  /\ printed \in 0..MaxOut /\ typed \in 0..MaxIn

\* The client is given every byte the guest stored, in order and once, with two writers and a
\* client that drains while they write.
OutputExact ==
  [][pump.pc = "out" /\ pump'.pc = "out" /\ pump'.i # pump.i => shown' = shown + 1]_vars

\* The guest is given every key the client sent, in order and once.
InputExact ==
  [][reader.pc = "load" /\ reader'.pc = "load" /\ reader'.i # reader.i => read' = read + 1]_vars

\* Whatever the guest prints is shown.
OutputShown == shown < printed ~> shown = printed

\* Whatever the client types is read by the guest.
InputRead == read < typed ~> read = typed
=============================================================================
