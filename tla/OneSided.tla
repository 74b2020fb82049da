------------------------------ MODULE OneSided ------------------------------
(***************************************************************************)
(* The data plane of a reader: the reads and writes of a RemoteMemoryRegion*)
(* (src/src/readers.rs) and Connection::one_sided under them               *)
(* (src/src/rdma/verbs.rs).                                                *)
(*                                                                         *)
(* The calls are synchronous and made by one thread; the device works on   *)
(* its own, so a call that gives up after POLL_TIMEOUT leaves its work     *)
(* request behind.  A call is its number, which also stands for the local  *)
(* buffer it was given.  u64 and usize end at U64Max, `as u32` wraps at    *)
(* U32: 2^64 - 1 and 2^32 in the code.                                     *)
(***************************************************************************)
EXTENDS Integers, Sequences, FiniteSets

CONSTANTS
    U64Max, U32,
    Base, Size,   \* the region's remote_addr and size, in bytes
    Layout,       \* <<size, alignment>> of the type the region is shared as
    Layouts,      \* layouts of the types the application reads it as
    Offsets,      \* offsets the application passes
    Counts,       \* bytes or elements it asks for, and the lengths of its buffers
    Depth,        \* CQ_SIZE: entries of the completion queue and send queue
    MaxCalls,     \* bound: calls made
    MaxConns      \* bound: RDMA connections the group's sessions establish

(* The shared buffer lies in the provider's address space, above address 0.*)
ASSUME RegionAssumption ==
    /\ U64Max \in Nat /\ U32 \in Nat \ {0}
    /\ Base \in Nat \ {0} /\ Size \in Nat
    /\ Base + Size <= U64Max
ASSUME LayoutAssumption ==
    /\ Layout \in (Nat \ {0}) \X (Nat \ {0})
    /\ Layouts \subseteq (Nat \ {0}) \X (Nat \ {0})
ASSUME ArgumentsAssumption ==
    /\ Offsets \subseteq 0 .. U64Max /\ Counts \subseteq 0 .. U64Max
    /\ Depth \in Nat \ {0} /\ MaxCalls \in Nat /\ MaxConns \in Nat

VARIABLES
    conn,    \* connections so far; the slot holds the last, none when 0
    nextWr,  \* next_wr_id of that connection
    sq,      \* work requests the device has not finished, in order
    cq,      \* completions nobody has polled, in order
    broken,  \* the queue pair is in the error state
    calls,   \* calls made; the last one may still be running
    wr,      \* the work request the running call waits for, or None
    regs,    \* calls whose local buffer is registered
    want,    \* call -> bytes asked for
    moved,   \* history: call -> bytes of its buffer the device went through
    result   \* call -> "none" while it runs, then "ok", "err" or "gaveUp"

vars == <<conn, nextWr, sq, cq, broken, calls, wr, regs, want, moved, result>>
queueVars == <<conn, nextWr, sq, cq, broken>>

None  == -1
Calls == 1 .. MaxCalls
Idle  == wr = None

Init ==
    /\ conn = 0 /\ nextWr = 0
    /\ sq = <<>> /\ cq = <<>> /\ broken = FALSE
    /\ calls = 0 /\ wr = None /\ regs = {}
    /\ want = [c \in Calls |-> 0]
    /\ moved = [c \in Calls |-> 0]
    /\ result = [c \in Calls |-> "none"]

-----------------------------------------------------------------------------
(* Bounds, in saturating u64 arithmetic.                                   *)

(* Mutant: the sum wraps.                                                  *)
SatAddWraps(a, b) == (a + b) % (U64Max + 1)

SatAdd(a, b) == IF a + b > U64Max THEN U64Max ELSE a + b
SatMul(a, b) == IF a * b > U64Max THEN U64Max ELSE a * b

InBounds(offset, bytes) == SatAdd(offset, bytes) <= Size

CheckElem(t) == t = Layout

Aligned(offset, t) == (Base + offset) % t[2] = 0

-----------------------------------------------------------------------------
(* one_sided, for a call that passed its checks.                           *)

(* The call returns an error before it takes a work request id: its        *)
(* arguments are refused, the slot is empty, or register_addr fails        *)
(* (always for an empty buffer).                                           *)
Refuse ==
    /\ result' = [result EXCEPT ![calls + 1] = "err"]
    /\ UNCHANGED <<queueVars, wr, regs, want, moved>>

(* ibv_post_send fails: always when the send queue has no free entry (one  *)
(* is freed when its completion is polled).  The id is spent.              *)
PostFails(bytes) ==
    /\ conn > 0
    /\ bytes > 0
    /\ result' = [result EXCEPT ![calls + 1] = "err"]
    /\ nextWr' = nextWr + 1
    /\ UNCHANGED <<conn, sq, cq, broken, wr, regs, want, moved>>

(* Mutant: the length is cut to a signed integer.                          *)
CutSigned(bytes) == IF 2 * (bytes % U32) < U32 THEN bytes % U32
                    ELSE (bytes % U32) - U32

Cut(bytes) == bytes % U32

(* register_addr, then ibv_post_send: the length is cut to 32 bits.        *)
Post(offset, bytes) ==
    /\ conn > 0
    /\ bytes > 0
    /\ Len(sq) + Len(cq) < Depth
    /\ regs' = regs \cup {calls + 1}
    /\ want' = [want EXCEPT ![calls + 1] = bytes]
    /\ sq' = Append(sq, [wr |-> nextWr, call |-> calls + 1,
                         addr |-> Base + offset, length |-> Cut(bytes)])
    /\ wr' = nextWr
    /\ nextWr' = nextWr + 1
    /\ UNCHANGED <<conn, cq, broken, moved, result>>

Access(valid, offset, bytes) ==
    /\ Idle
    /\ calls < MaxCalls
    /\ calls' = calls + 1
    /\ Refuse \/ (valid /\ (PostFails(bytes) \/ Post(offset, bytes)))

(* read and read_into: size bytes into a buffer of len bytes.              *)
ReadInto(offset, size, len) ==
    Access(size <= len /\ InBounds(offset, size), offset, size)

Write(offset, len) ==
    Access(InBounds(offset, len), offset, len)

(* The typed calls: len elements of t at the element offset.               *)
AccessTyped(t, offset, len) ==
    LET byteOffset == SatMul(offset, t[1])
        size == len * t[1]
    IN  /\ size <= U64Max      \* the buffer exists
        /\ Access(/\ CheckElem(t)
                  /\ InBounds(byteOffset, size)
                  /\ Aligned(byteOffset, t), byteOffset, size)

ReadIntoTyped(t, offset, len) == AccessTyped(t, offset, len)
WriteTyped(t, offset, len)    == AccessTyped(t, offset, len)

-----------------------------------------------------------------------------
(* The completion loop.  When the call returns its registration is dropped.*)

(* Mutant: the registration outlives the call.                             *)
RegsKept == regs

RegsLeft == regs \ {calls}

Return(r) ==
    /\ result' = [result EXCEPT ![calls] = r]
    /\ wr' = None
    /\ regs' = RegsLeft

(* Mutants: any completion will do; a completion is looked at, not taken.  *)
MineAny(wc) == TRUE
PolledKept == cq

Mine(wc) == wc.wr = wr
Polled == Tail(cq)

(* ibv_poll_cq: the call's own completion ends it, a stale one is skipped. *)
Poll ==
    /\ ~Idle
    /\ cq # <<>>
    /\ cq' = Polled
    /\ IF Mine(Head(cq))
       THEN Return(IF Head(cq).ok THEN "ok" ELSE "err")
       ELSE UNCHANGED <<result, wr, regs>>
    /\ UNCHANGED <<conn, nextWr, sq, broken, calls, want, moved>>

(* POLL_TIMEOUT has passed, or ibv_poll_cq fails: an error without an      *)
(* answer, and the work request stays where it is.                         *)
GiveUp ==
    /\ ~Idle
    /\ Return("gaveUp")
    /\ UNCHANGED <<queueVars, calls, want, moved>>

(* A fresh session of the group replaces the connection; the old one goes  *)
(* with its queues, and work request ids start over.                       *)
Reconnect ==
    /\ Idle
    /\ conn < MaxConns
    /\ conn' = conn + 1
    /\ nextWr' = 0
    /\ sq' = <<>> /\ cq' = <<>> /\ broken' = FALSE
    /\ UNCHANGED <<calls, wr, regs, want, moved, result>>

-----------------------------------------------------------------------------
(* The device and the remote machine, external.                            *)

Complete(ok) ==
    /\ sq' = Tail(sq)
    /\ cq' = Append(cq, [wr |-> Head(sq).wr, ok |-> ok])
    /\ UNCHANGED <<conn, nextWr, calls, wr, regs, want, result>>

(* A work request whose buffer is registered is carried out.               *)
Execute ==
    /\ sq # <<>>
    /\ ~broken
    /\ Head(sq).call \in regs
    /\ moved' = [moved EXCEPT ![Head(sq).call] = Head(sq).length]
    /\ Complete(TRUE)
    /\ UNCHANGED broken

(* It fails, possibly half-way: a remote access or transport error, or its *)
(* buffer is no longer registered.  The queue pair is then in the error    *)
(* state and flushes what follows.                                         *)
ExecuteFails ==
    /\ sq # <<>>
    /\ broken' = TRUE
    /\ \E n \in {0, Head(sq).length \div 2} :
          /\ n > 0 => ~broken /\ Head(sq).call \in regs
          /\ moved' = [moved EXCEPT ![Head(sq).call] = @ + n]
    /\ Complete(FALSE)

Device == Execute \/ ExecuteFails

Next ==
    \/ \E o \in Offsets, n, b \in Counts : ReadInto(o, n, b)
    \/ \E o \in Offsets, n \in Counts : Write(o, n)
    \/ \E t \in Layouts, o \in Offsets, n \in Counts :
          ReadIntoTyped(t, o, n) \/ WriteTyped(t, o, n)
    \/ Poll
    \/ GiveUp
    \/ Reconnect
    \/ Device

Spec == Init /\ [][Next]_vars

-----------------------------------------------------------------------------
Requests    == [wr : Nat, call : Calls, addr : Nat, length : Nat]
Completions == [wr : Nat, ok : BOOLEAN]

CallsTyped ==
    /\ calls \in 0 .. MaxCalls /\ wr \in Nat \cup {None}
    /\ regs \subseteq Calls
    /\ want \in [Calls -> Nat] /\ moved \in [Calls -> Nat]
    /\ result \in [Calls -> {"none", "ok", "err", "gaveUp"}]

QueuesTyped ==
    /\ conn \in Nat /\ nextWr \in Nat /\ broken \in BOOLEAN
    /\ sq \in Seq(Requests) /\ cq \in Seq(Completions)

(* The types of the calls' bookkeeping and of the connection's queues.     *)
TypeOK == CallsTyped /\ QueuesTyped

(* Whatever offset and count the application passes, what is asked of the  *)
(* device lies inside the remote region: neither offset + size nor         *)
(* offset * size_of::<T>() gets past the checks by overflowing.            *)
InsideRegion ==
    \A i \in DOMAIN sq :
        /\ sq[i].addr >= Base
        /\ sq[i].addr + want[sq[i].call] <= Base + Size

(* A call of less than 4 GiB returns Ok only when its own work request was *)
(* carried out: a completion left over from a call that timed out is not   *)
(* taken for it, on this connection or across a reconnect that restarts    *)
(* the ids.                                                                *)
OkIsOwn ==
    \A c \in Calls : result[c] = "ok" /\ want[c] < U32 => moved[c] = want[c]

(* Ok means that all was read or written: "Read `len` bytes at             *)
(* `remote_addr` of the remote machine" (verbs.rs), "Read `size` bytes"    *)
(* (readers.rs).                                                           *)
OkMovesAll ==
    \A c \in Calls : result[c] = "ok" => moved[c] = want[c]

(* The device does not touch a buffer once the call it was lent to has     *)
(* returned, although a work request that timed out is still queued.       *)
QuietAfterReturn ==
    [][\A c \in Calls : result[c] # "none" => moved'[c] = moved[c]]_vars

(* The send queue fills up only with the work requests of calls that gave  *)
(* up: as long as fewer than CQ_SIZE did, there is room for another.  A    *)
(* call that was answered, with success or an error, leaves none behind.   *)
GaveUp == {c \in Calls : result[c] = "gaveUp"}

EntriesAccounted ==
    Len(sq) + Len(cq) <= Cardinality(GaveUp) + (IF Idle THEN 0 ELSE 1)
=============================================================================
