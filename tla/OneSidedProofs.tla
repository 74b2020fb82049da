--------------------------- MODULE OneSidedProofs ---------------------------
(* Proofs about OneSided, for every region, layout and queue depth.        *)
EXTENDS OneSided, FiniteSetTheorems, TLAPS

USE DEF Cut, RegsLeft, Mine, Polled

(* The running call is the last one; only its buffer is registered.        *)
Running ==
    /\ regs = IF Idle THEN {} ELSE {calls}
    /\ ~Idle => calls >= 1 /\ result[calls] = "none"
    /\ \A c \in Calls : c > calls => result[c] = "none"

(* Every queued work request is inside the region and as long as its call  *)
(* asked, cut to 32 bits.                                                  *)
Queued ==
    \A i \in 1 .. Len(sq) :
        /\ sq[i].call <= calls
        /\ sq[i].addr >= Base
        /\ sq[i].addr + want[sq[i].call] <= Base + Size
        /\ sq[i].length = want[sq[i].call] % U32

(* Ids grow along the completion queue and the send queue; only the        *)
(* running call waits for the last of them.                                *)
Ordered ==
    /\ \A i \in 1 .. Len(sq) : sq[i].wr < nextWr
    /\ \A i \in 1 .. Len(sq) : \A j \in 1 .. Len(sq) : i < j => sq[i].wr < sq[j].wr
    /\ \A i \in 1 .. Len(cq) : cq[i].wr < nextWr
    /\ \A i \in 1 .. Len(cq) : \A j \in 1 .. Len(sq) : cq[i].wr < sq[j].wr
    /\ wr < nextWr
    /\ \A i \in 1 .. Len(sq) : (~Idle /\ sq[i].call = calls) <=> (sq[i].wr = wr)

(* A completion of the running call's own work request tells the truth.    *)
Truthful ==
    \A i \in 1 .. Len(cq) :
        cq[i].wr = wr /\ cq[i].ok => moved[calls] = want[calls] % U32

(* A successful call's request was carried out, with the length it had.    *)
OkIsCut ==
    \A c \in Calls : result[c] = "ok" => moved[c] = want[c] % U32

IInv == TypeOK /\ Running /\ Queued /\ Ordered /\ Truthful /\ OkIsCut

-----------------------------------------------------------------------------
(* What passes the saturating bounds check is inside the region: the       *)
(* region ends below U64Max, so a saturated sum is refused.                *)
LEMMA BoundsHold ==
    ASSUME NEW offset \in Nat, NEW bytes \in Nat, InBounds(offset, bytes)
    PROVE  offset + bytes <= Size
BY RegionAssumption DEF InBounds, SatAdd

(* Saturating and plain products of naturals are naturals.                 *)
LEMMA SatMulNat ==
    ASSUME NEW a \in Nat, NEW b \in Nat
    PROVE  SatMul(a, b) \in Nat /\ a * b \in Nat
BY RegionAssumption DEF SatMul

(* Appending to a queue, entry by entry.                                   *)
LEMMA AppendEntries ==
    ASSUME NEW S, NEW s \in Seq(S), NEW e \in S
    PROVE  /\ Append(s, e) \in Seq(S)
           /\ Len(Append(s, e)) = Len(s) + 1
           /\ \A i \in 1 .. Len(s) : Append(s, e)[i] = s[i]
           /\ Append(s, e)[Len(s) + 1] = e
OBVIOUS

(* The queues of a new connection.                                         *)
LEMMA EmptyQueue == ASSUME NEW S PROVE <<>> \in Seq(S) /\ Len(<<>>) = 0
OBVIOUS

(* Taking the head of a queue, entry by entry.                             *)
LEMMA TailEntries ==
    ASSUME NEW S, NEW s \in Seq(S), s # <<>>
    PROVE  /\ Tail(s) \in Seq(S)
           /\ Len(s) \in Nat /\ Len(s) >= 1
           /\ Len(Tail(s)) = Len(s) - 1
           /\ \A i \in 1 .. Len(Tail(s)) : Tail(s)[i] = s[i + 1]
           /\ Head(s) = s[1] /\ Head(s) \in S
OBVIOUS

-----------------------------------------------------------------------------
(* The three entry points come down to two kinds of step.                  *)
CallRefused ==
    /\ Idle /\ calls < MaxCalls /\ calls' = calls + 1
    /\ Refuse \/ \E b \in Nat : PostFails(b)

CallPosted(offset, bytes) ==
    Idle /\ calls < MaxCalls /\ calls' = calls + 1 /\ Post(offset, bytes)

Steps ==
    \/ CallRefused
    \/ \E o \in Nat, b \in Nat : o + b <= Size /\ CallPosted(o, b)
    \/ Poll \/ GiveUp \/ Reconnect \/ Execute \/ ExecuteFails

(* A call that gets as far as the device asks for bytes of the region.     *)
LEMMA NextSteps == Next => Steps
<1> SUFFICES ASSUME Next PROVE Steps
    OBVIOUS
<1>a. ASSUME NEW valid, NEW o \in Nat, NEW b \in Nat, Access(valid, o, b),
             valid => InBounds(o, b)
      PROVE  Steps
  <2>1. CASE Refuse \/ PostFails(b)
    BY <1>a, <2>1 DEF Access, Steps, CallRefused
  <2>2. CASE valid /\ Post(o, b)
    <3>1. o + b <= Size
      BY <1>a, <2>2, BoundsHold
    <3>2. CallPosted(o, b)
      BY <1>a, <2>2 DEF Access, CallPosted
    <3> QED BY <3>1, <3>2 DEF Steps
  <2> QED BY <1>a, <2>1, <2>2 DEF Access
<1>1. ASSUME NEW o \in Offsets, NEW n \in Counts, NEW k \in Counts, ReadInto(o, n, k)
      PROVE  Steps
  <2>1. o \in Nat /\ n \in Nat
    BY ArgumentsAssumption, RegionAssumption
  <2> QED BY <1>1, <1>a, <2>1 DEF ReadInto
<1>2. ASSUME NEW o \in Offsets, NEW n \in Counts, Write(o, n)
      PROVE  Steps
  <2>1. o \in Nat /\ n \in Nat
    BY ArgumentsAssumption, RegionAssumption
  <2> QED BY <1>2, <1>a, <2>1 DEF Write
<1>3. ASSUME NEW t \in Layouts, NEW o \in Offsets, NEW n \in Counts, AccessTyped(t, o, n)
      PROVE  Steps
  <2>1. o \in Nat /\ n \in Nat /\ t[1] \in Nat
    BY ArgumentsAssumption, RegionAssumption, LayoutAssumption
  <2> DEFINE off == SatMul(o, t[1])
             valid == CheckElem(t) /\ InBounds(off, n * t[1]) /\ Aligned(off, t)
  <2>2. off \in Nat /\ n * t[1] \in Nat
    BY <2>1, SatMulNat
  <2>3. Access(valid, off, n * t[1])
    BY <1>3 DEF AccessTyped
  <2>4. valid => InBounds(off, n * t[1])
    OBVIOUS
  <2> HIDE DEF valid, off
  <2> QED BY <1>a, <2>2, <2>3, <2>4
<1>4. CASE Poll \/ GiveUp \/ Reconnect \/ Device
  BY <1>4 DEF Steps, Device
<1> QED BY <1>1, <1>2, <1>3, <1>4 DEF Next, ReadIntoTyped, WriteTyped

-----------------------------------------------------------------------------
(* What the types say of single entries and of the numbers.                *)
LEMMA Entries ==
    ASSUME TypeOK
    PROVE  /\ Len(sq) \in Nat /\ Len(cq) \in Nat
           /\ \A i \in 1 .. Len(sq) :
                /\ sq[i] \in Requests
                /\ sq[i].wr \in Nat /\ sq[i].call \in Calls /\ sq[i].call \in Nat
                /\ sq[i].addr \in Nat /\ sq[i].length \in Nat
           /\ \A i \in 1 .. Len(cq) :
                cq[i] \in Completions /\ cq[i].wr \in Nat /\ cq[i].ok \in BOOLEAN
<1>1. Len(sq) \in Nat /\ Len(cq) \in Nat
  BY DEF TypeOK, QueuesTyped
<1>2. \A i \in 1 .. Len(sq) : sq[i] \in Requests
  BY DEF TypeOK, QueuesTyped
<1>3. \A i \in 1 .. Len(cq) : cq[i] \in Completions
  BY DEF TypeOK, QueuesTyped
<1> QED BY <1>1, <1>2, <1>3, ArgumentsAssumption DEF Requests, Completions, Calls

(* What the types say of calls, ids and the idle state.                    *)
LEMMA Numbers ==
    ASSUME TypeOK
    PROVE  /\ calls \in Nat /\ calls <= MaxCalls /\ MaxCalls \in Nat
           /\ nextWr \in Nat /\ wr \in Int /\ (Idle <=> wr = -1)
           /\ \A c \in Calls : c \in Nat /\ c >= 1 /\ c <= MaxCalls
           /\ (calls < MaxCalls => calls + 1 \in Calls)
           /\ (calls >= 1 => calls \in Calls)
BY ArgumentsAssumption DEF TypeOK, CallsTyped, QueuesTyped, Calls, None, Idle

(* Before the first call the queues are empty.                             *)
LEMMA InitHolds == Init => IInv
<1> SUFFICES ASSUME Init PROVE IInv
    OBVIOUS
<1>1. TypeOK
  <2>1. CallsTyped
    BY ArgumentsAssumption DEF Init, CallsTyped, None, Calls
  <2>2. QueuesTyped
    BY EmptyQueue DEF Init, QueuesTyped
  <2> QED BY <2>1, <2>2 DEF TypeOK
<1>2. Len(sq) = 0 /\ Len(cq) = 0
  BY DEF Init
<1>3. Running /\ OkIsCut
  BY ArgumentsAssumption DEF Init, Running, OkIsCut, Idle, None, Calls
<1>4. Queued /\ Ordered /\ Truthful
  BY <1>2 DEF Init, Queued, Ordered, Truthful, None
<1> QED BY <1>1, <1>3, <1>4 DEF IInv

(* A refused call leaves the queues alone; at most its id is spent.        *)
LEMMA RefusedStep == IInv /\ CallRefused => IInv'
<1> SUFFICES ASSUME IInv, CallRefused PROVE IInv'
    OBVIOUS
<1>a. TypeOK /\ Running /\ Queued /\ Ordered /\ Truthful /\ OkIsCut
  BY DEF IInv
<1>b. /\ Idle /\ calls < MaxCalls /\ calls' = calls + 1
      /\ result' = [result EXCEPT ![calls + 1] = "err"]
      /\ nextWr' \in {nextWr, nextWr + 1}
      /\ UNCHANGED <<conn, sq, cq, broken, wr, regs, want, moved>>
  BY DEF CallRefused, Refuse, PostFails, queueVars
<1>c. /\ \A i \in 1 .. Len(sq) : sq[i].wr \in Nat /\ sq[i].call \in Nat
      /\ \A i \in 1 .. Len(cq) : cq[i].wr \in Nat
  BY <1>a, Entries
<1>d. /\ calls \in Nat /\ calls + 1 \in Calls /\ wr = -1 /\ (Idle' <=> Idle)
      /\ nextWr \in Nat
      /\ \A c \in Calls : c \in Nat
  BY <1>a, <1>b, Numbers DEF Idle
<1>1. TypeOK'
  <2>1. CallsTyped'
    BY <1>a, <1>b, <1>d, ArgumentsAssumption DEF TypeOK, CallsTyped
  <2>2. QueuesTyped'
    BY <1>a, <1>b DEF TypeOK, QueuesTyped
  <2> QED BY <2>1, <2>2 DEF TypeOK
<1>2. Running'
  BY <1>a, <1>b, <1>d DEF TypeOK, CallsTyped, Running
<1>3. Queued'
  BY <1>a, <1>b, <1>c, <1>d DEF Queued
<1>4. Ordered'
  BY <1>a, <1>b, <1>c, <1>d DEF Ordered
<1>5. Truthful'
  BY <1>a, <1>b, <1>c, <1>d DEF Truthful
<1>6. OkIsCut'
  BY <1>a, <1>b, <1>d DEF TypeOK, CallsTyped, OkIsCut
<1> QED BY <1>1, <1>2, <1>3, <1>4, <1>5, <1>6 DEF IInv

(* A posted call is the youngest of the send queue.                        *)
LEMMA PostedStep ==
    ASSUME NEW o \in Nat, NEW b \in Nat, o + b <= Size, IInv, CallPosted(o, b)
    PROVE  IInv'
<1> DEFINE new == [wr |-> nextWr, call |-> calls + 1, addr |-> Base + o, length |-> b % U32]
<1>a. TypeOK /\ Running /\ Queued /\ Ordered /\ Truthful /\ OkIsCut
  BY DEF IInv
<1>b. /\ Idle /\ calls < MaxCalls /\ calls' = calls + 1
      /\ regs' = regs \cup {calls + 1}
      /\ want' = [want EXCEPT ![calls + 1] = b]
      /\ sq' = Append(sq, new)
      /\ wr' = nextWr /\ nextWr' = nextWr + 1
      /\ UNCHANGED <<conn, cq, broken, moved, result>>
  BY DEF CallPosted, Post
<1>c. /\ Len(sq) \in Nat /\ Len(cq) \in Nat
      /\ \A i \in 1 .. Len(sq) : /\ sq[i].wr \in Nat /\ sq[i].call \in Nat
                                 /\ sq[i].call \in Calls
      /\ \A i \in 1 .. Len(cq) : cq[i].wr \in Nat
  BY <1>a, Entries
<1>d. /\ calls \in Nat /\ calls + 1 \in Calls /\ nextWr \in Nat /\ ~Idle'
      /\ \A c \in Calls : c \in Nat
  BY <1>a, <1>b, Numbers DEF Idle, None
<1>n. /\ new \in Requests /\ new.wr = nextWr /\ new.call = calls + 1
      /\ new.addr = Base + o /\ new.length = b % U32
  BY <1>d, RegionAssumption DEF Requests
<1> HIDE DEF new
<1>q. /\ sq' \in Seq(Requests)
      /\ Len(sq') = Len(sq) + 1
      /\ \A i \in 1 .. Len(sq) : sq'[i] = sq[i]
      /\ sq'[Len(sq) + 1] = new
  BY <1>a, <1>b, <1>n, AppendEntries DEF TypeOK, QueuesTyped
<1>w. want'[calls + 1] = b /\ \A c \in Calls : c # calls + 1 => want'[c] = want[c]
  BY <1>a, <1>b, <1>d DEF TypeOK, CallsTyped
<1>1. TypeOK'
  <2>1. CallsTyped'
    BY <1>a, <1>b, <1>d, ArgumentsAssumption DEF TypeOK, CallsTyped
  <2>2. QueuesTyped'
    BY <1>a, <1>b, <1>d, <1>q DEF TypeOK, QueuesTyped
  <2> QED BY <2>1, <2>2 DEF TypeOK
<1>2. Running'
  BY <1>a, <1>b, <1>d DEF TypeOK, CallsTyped, Running
<1>3. Queued'
  <2> SUFFICES ASSUME NEW i \in 1 .. Len(sq')
               PROVE  /\ sq'[i].call <= calls'
                      /\ sq'[i].addr >= Base
                      /\ sq'[i].addr + want'[sq'[i].call] <= Base + Size
                      /\ sq'[i].length = want'[sq'[i].call] % U32
    BY DEF Queued
  <2>1. CASE i \in 1 .. Len(sq)
    <3>1. sq'[i] = sq[i] /\ sq[i].call \in Calls /\ sq[i].call <= calls
      BY <1>a, <1>c, <1>q, <2>1 DEF Queued
    <3>0. sq[i].call # calls + 1
      BY <1>c, <1>d, <2>1, <3>1
    <3>2. want'[sq[i].call] = want[sq[i].call]
      BY <1>w, <3>0, <3>1
    <3> QED BY <1>a, <1>b, <1>c, <1>d, <2>1, <3>1, <3>2 DEF Queued
  <2>2. CASE i = Len(sq) + 1
    BY <1>b, <1>d, <1>n, <1>q, <1>w, <2>2, RegionAssumption, SMTT(30)
  <2> QED BY <1>c, <1>q, <2>1, <2>2
<1>4. Ordered'
  <2>1. \A i \in 1 .. Len(sq) : sq[i].wr < nextWr /\ sq[i].call <= calls
    BY <1>a DEF Ordered, Queued
  <2>2. \A i \in 1 .. Len(sq') : sq'[i].wr < nextWr'
    BY <1>b, <1>c, <1>d, <1>n, <1>q, <2>1
  <2>3. \A i \in 1 .. Len(sq') : \A j \in 1 .. Len(sq') : i < j => sq'[i].wr < sq'[j].wr
    <3> SUFFICES ASSUME NEW i \in 1 .. Len(sq'), NEW j \in 1 .. Len(sq'), i < j
                 PROVE  sq'[i].wr < sq'[j].wr
      OBVIOUS
    <3>1. i \in 1 .. Len(sq) /\ sq'[i] = sq[i]
      BY <1>c, <1>q
    <3>2. CASE j = Len(sq) + 1
      BY <1>n, <1>q, <2>1, <3>1, <3>2
    <3>3. CASE j \in 1 .. Len(sq)
      BY <1>a, <1>q, <3>1, <3>3 DEF Ordered
    <3>4. Len(sq) \in Nat /\ Len(sq') = Len(sq) + 1
      BY <1>c, <1>q
    <3>5. j = Len(sq) + 1 \/ j \in 1 .. Len(sq)
      BY <3>4
    <3> QED BY <3>2, <3>3, <3>5
  <2>4. \A i \in 1 .. Len(cq') : cq'[i].wr < nextWr'
    BY <1>a, <1>b, <1>c, <1>d DEF Ordered
  <2>5. \A i \in 1 .. Len(cq') : \A j \in 1 .. Len(sq') : cq'[i].wr < sq'[j].wr
    BY <1>a, <1>b, <1>c, <1>d, <1>n, <1>q DEF Ordered
  <2>6. \A i \in 1 .. Len(sq') : (~Idle' /\ sq'[i].call = calls') <=> (sq'[i].wr = wr')
    BY <1>b, <1>c, <1>d, <1>n, <1>q, <2>1, SMTT(30)
  <2> QED BY <1>b, <1>d, <2>2, <2>3, <2>4, <2>5, <2>6, SMTT(30) DEF Ordered
<1>5. Truthful'
  BY <1>a, <1>b, <1>c, <1>d DEF Truthful, Ordered
<1>6. OkIsCut'
  BY <1>a, <1>b, <1>d, <1>w DEF Running, OkIsCut
<1> QED BY <1>1, <1>2, <1>3, <1>4, <1>5, <1>6 DEF IInv

(* The call returns: nothing is registered and nothing waited for.         *)
LEMMA ReturnStep ==
    ASSUME NEW r \in {"ok", "err", "gaveUp"}, IInv, ~Idle, Return(r),
           r = "ok" => moved[calls] = want[calls] % U32,
           UNCHANGED <<calls, want, moved>>
    PROVE  CallsTyped' /\ Running' /\ OkIsCut' /\ wr' = -1 /\ Idle'
<1>a. TypeOK /\ Running /\ OkIsCut
  BY DEF IInv
<1>b. result' = [result EXCEPT ![calls] = r] /\ wr' = -1 /\ regs' = regs \ {calls} /\ Idle'
  BY DEF Return, None, Idle
<1>c. calls \in Nat /\ calls \in Calls /\ \A c \in Calls : c \in Nat
  BY <1>a, Numbers DEF Running
<1>1. CallsTyped'
  BY <1>a, <1>b, <1>c DEF TypeOK, CallsTyped, None
<1>2. Running'
  BY <1>a, <1>b, <1>c DEF TypeOK, CallsTyped, Running
<1>3. OkIsCut'
  BY <1>a, <1>b, <1>c DEF TypeOK, CallsTyped, OkIsCut
<1> QED BY <1>b, <1>1, <1>2, <1>3

(* A call that times out leaves the queues and waits for nothing.          *)
LEMMA GiveUpStep == IInv /\ GiveUp => IInv'
<1> SUFFICES ASSUME IInv, GiveUp PROVE IInv'
    OBVIOUS
<1>a. TypeOK /\ Running /\ Queued /\ Ordered /\ Truthful /\ OkIsCut
  BY DEF IInv
<1>b. ~Idle /\ Return("gaveUp") /\ UNCHANGED <<conn, nextWr, sq, cq, broken, calls, want, moved>>
  BY DEF GiveUp, queueVars
<1>c. CallsTyped' /\ Running' /\ OkIsCut' /\ wr' = -1 /\ Idle'
  BY <1>b, ReturnStep
<1>d. /\ \A i \in 1 .. Len(sq) : sq[i].wr \in Nat
      /\ \A i \in 1 .. Len(cq) : cq[i].wr \in Nat
  BY <1>a, Entries
<1>1. QueuesTyped'
  BY <1>a, <1>b DEF TypeOK, QueuesTyped
<1>2. Queued'
  BY <1>a, <1>b DEF Queued
<1>3. Ordered'
  BY <1>a, <1>b, <1>c, <1>d, Numbers DEF Ordered
<1>4. Truthful'
  BY <1>b, <1>c, <1>d DEF Truthful
<1> QED BY <1>c, <1>1, <1>2, <1>3, <1>4 DEF IInv, TypeOK

(* A polled completion ends its own call or is skipped.                    *)
LEMMA PollStep == IInv /\ Poll => IInv'
<1> SUFFICES ASSUME IInv, Poll PROVE IInv'
    OBVIOUS
<1>a. TypeOK /\ Running /\ Queued /\ Ordered /\ Truthful /\ OkIsCut
  BY DEF IInv
<1>b. ~Idle /\ cq # <<>> /\ cq' = Tail(cq)
      /\ UNCHANGED <<conn, nextWr, sq, broken, calls, want, moved>>
  BY DEF Poll
<1>d. /\ Len(cq) \in Nat
      /\ \A i \in 1 .. Len(sq) : sq[i].wr \in Nat
      /\ \A i \in 1 .. Len(cq) : cq[i].wr \in Nat /\ cq[i].ok \in BOOLEAN
  BY <1>a, Entries
<1>q. /\ cq' \in Seq(Completions) /\ Len(cq) >= 1 /\ Len(cq') = Len(cq) - 1
      /\ \A i \in 1 .. Len(cq') : i + 1 \in 1 .. Len(cq) /\ cq'[i] = cq[i + 1]
      /\ Head(cq) = cq[1]
  BY <1>a, <1>b, TailEntries DEF TypeOK, QueuesTyped
<1>1. QueuesTyped'
  BY <1>a, <1>b, <1>q DEF TypeOK, QueuesTyped
<1>2. Queued'
  BY <1>a, <1>b DEF Queued
<1>3. /\ \A i \in 1 .. Len(cq') : cq'[i].wr < nextWr'
      /\ \A i \in 1 .. Len(cq') : \A j \in 1 .. Len(sq') : cq'[i].wr < sq'[j].wr
      /\ \A i \in 1 .. Len(cq') : cq'[i].wr \in Nat
  BY <1>a, <1>b, <1>d, <1>q DEF Ordered
<1>4. CASE Head(cq).wr = wr
  <2> DEFINE r == IF Head(cq).ok THEN "ok" ELSE "err"
  <2>1. Return(r)
    BY <1>4 DEF Poll
  <2>2. r = "ok" => moved[calls] = want[calls] % U32
    BY <1>a, <1>d, <1>q, <1>4 DEF Truthful
  <2>3. r \in {"ok", "err"}
    OBVIOUS
  <2> HIDE DEF r
  <2>4. CallsTyped' /\ Running' /\ OkIsCut' /\ wr' = -1 /\ Idle'
    BY <1>b, <2>1, <2>2, <2>3, ReturnStep
  <2>5. Ordered'
    BY <1>a, <1>b, <1>d, <1>3, <2>4, Numbers DEF Ordered
  <2>6. Truthful'
    BY <1>3, <2>4 DEF Truthful
  <2> QED BY <1>1, <1>2, <2>4, <2>5, <2>6 DEF IInv, TypeOK
<1>5. CASE Head(cq).wr # wr
  <2>1. UNCHANGED <<result, wr, regs>> /\ (Idle' <=> Idle)
    BY <1>5 DEF Poll, Idle
  <2>2. CallsTyped' /\ Running' /\ OkIsCut'
    BY <1>a, <1>b, <2>1 DEF TypeOK, CallsTyped, Running, OkIsCut
  <2>3. Ordered'
    BY <1>a, <1>b, <1>3, <2>1 DEF Ordered
  <2>4. Truthful'
    BY <1>a, <1>b, <1>q, <2>1 DEF Truthful
  <2> QED BY <1>1, <1>2, <2>2, <2>3, <2>4 DEF IInv, TypeOK
<1> QED BY <1>4, <1>5

(* A new connection starts with empty queues and ids from 0.               *)
LEMMA ReconnectStep == IInv /\ Reconnect => IInv'
<1> SUFFICES ASSUME IInv, Reconnect PROVE IInv'
    OBVIOUS
<1>a. TypeOK /\ Running /\ OkIsCut
  BY DEF IInv
<1>b. /\ Idle /\ conn' = conn + 1 /\ nextWr' = 0 /\ sq' = <<>> /\ cq' = <<>>
      /\ broken' = FALSE /\ UNCHANGED <<calls, wr, regs, want, moved, result>>
  BY DEF Reconnect
<1>c. wr' = -1 /\ Len(sq') = 0 /\ Len(cq') = 0 /\ Idle'
  BY <1>a, <1>b, Numbers DEF Idle
<1>1. CallsTyped' /\ Running' /\ OkIsCut'
  BY <1>a, <1>b, <1>c DEF TypeOK, CallsTyped, Running, OkIsCut
<1>2. QueuesTyped'
  <2>1. conn' \in Nat /\ nextWr' \in Nat
    BY <1>a, <1>b DEF TypeOK, QueuesTyped
  <2>2. sq' \in Seq(Requests) /\ cq' \in Seq(Completions) /\ broken' \in BOOLEAN
    BY <1>b, EmptyQueue
  <2> QED BY <2>1, <2>2 DEF QueuesTyped
<1>3. Queued' /\ Ordered' /\ Truthful'
  BY <1>b, <1>c DEF Queued, Ordered, Truthful
<1> QED BY <1>1, <1>2, <1>3 DEF IInv, TypeOK

(* What the device's two steps have in common: the head of the send queue  *)
(* becomes the youngest completion.                                        *)
LEMMA CompleteStep ==
    ASSUME NEW ok \in BOOLEAN, IInv, sq # <<>>, Complete(ok), broken' \in BOOLEAN
    PROVE  /\ QueuesTyped' /\ Queued' /\ Ordered' /\ Running' /\ (Idle' <=> Idle)
           /\ Head(sq) = sq[1] /\ 1 \in 1 .. Len(sq)
           /\ Len(cq') = Len(cq) + 1
           /\ \A i \in 1 .. Len(cq) : cq'[i] = cq[i] /\ cq[i].wr < sq[1].wr
           /\ cq'[Len(cq) + 1] = [wr |-> sq[1].wr, ok |-> ok]
<1> DEFINE new == [wr |-> Head(sq).wr, ok |-> ok]
<1>a. TypeOK /\ Running /\ Queued /\ Ordered
  BY DEF IInv
<1>b. /\ sq' = Tail(sq) /\ cq' = Append(cq, new)
      /\ UNCHANGED <<conn, nextWr, calls, wr, regs, want, result>> /\ (Idle' <=> Idle)
  BY DEF Complete, Idle
<1>c. /\ Len(sq) \in Nat /\ Len(cq) \in Nat
      /\ \A i \in 1 .. Len(sq) : sq[i].wr \in Nat
      /\ \A i \in 1 .. Len(cq) : cq[i].wr \in Nat
  BY <1>a, Entries
<1>d. nextWr \in Nat
  BY <1>a, Numbers
<1>s. /\ sq' \in Seq(Requests) /\ Len(sq) >= 1 /\ Len(sq') = Len(sq) - 1
      /\ \A i \in 1 .. Len(sq') : i + 1 \in 1 .. Len(sq) /\ sq'[i] = sq[i + 1]
      /\ Head(sq) = sq[1] /\ 1 \in 1 .. Len(sq)
  BY <1>a, <1>b, TailEntries DEF TypeOK, QueuesTyped
<1>n. new \in Completions /\ new.wr = sq[1].wr /\ new.wr \in Nat
      /\ new = [wr |-> sq[1].wr, ok |-> ok]
  BY <1>c, <1>s DEF Completions
<1> HIDE DEF new
<1>q. /\ cq' \in Seq(Completions) /\ Len(cq') = Len(cq) + 1
      /\ \A i \in 1 .. Len(cq) : cq'[i] = cq[i]
      /\ cq'[Len(cq) + 1] = new
  BY <1>a, <1>b, <1>n, AppendEntries DEF TypeOK, QueuesTyped
<1>1. QueuesTyped'
  BY <1>a, <1>b, <1>q, <1>s DEF TypeOK, QueuesTyped
<1>2. Queued'
  BY <1>a, <1>b, <1>s DEF Queued
<1>3. Ordered'
  <2>1. \A i \in 1 .. Len(sq') : sq'[i].wr < nextWr'
    BY <1>a, <1>b, <1>s DEF Ordered
  <2>2. \A i \in 1 .. Len(sq') : \A j \in 1 .. Len(sq') : i < j => sq'[i].wr < sq'[j].wr
    <3> SUFFICES ASSUME NEW i \in 1 .. Len(sq'), NEW j \in 1 .. Len(sq'), i < j
                 PROVE  sq'[i].wr < sq'[j].wr
      OBVIOUS
    <3> QED BY <1>a, <1>s, SMTT(30) DEF Ordered
  <2>3. \A i \in 1 .. Len(cq') : cq'[i].wr < nextWr'
    BY <1>a, <1>b, <1>c, <1>n, <1>q, <1>s DEF Ordered
  <2>4. \A i \in 1 .. Len(cq') : \A j \in 1 .. Len(sq') : cq'[i].wr < sq'[j].wr
    <3> SUFFICES ASSUME NEW i \in 1 .. Len(cq'), NEW j \in 1 .. Len(sq')
                 PROVE  cq'[i].wr < sq'[j].wr
      OBVIOUS
    <3>1. sq'[j] = sq[j + 1] /\ j + 1 \in 1 .. Len(sq) /\ 1 < j + 1
      BY <1>s
    <3>2. CASE i \in 1 .. Len(cq)
      BY <1>a, <1>q, <3>1, <3>2 DEF Ordered
    <3>3. CASE i = Len(cq) + 1
      BY <1>a, <1>n, <1>q, <1>s, <3>1, <3>3 DEF Ordered
    <3> QED BY <1>c, <1>q, <3>2, <3>3
  <2>5. \A i \in 1 .. Len(sq') : (~Idle' /\ sq'[i].call = calls') <=> (sq'[i].wr = wr')
    BY <1>a, <1>b, <1>s DEF Ordered
  <2>6. wr' < nextWr'
    BY <1>a, <1>b DEF Ordered
  <2> QED BY <2>1, <2>2, <2>3, <2>4, <2>5, <2>6 DEF Ordered
<1>4. Running'
  BY <1>a, <1>b DEF Running
<1>5. \A i \in 1 .. Len(cq) : cq[i].wr < sq[1].wr
  BY <1>a, <1>s DEF Ordered
<1> QED BY <1>b, <1>n, <1>q, <1>s, <1>1, <1>2, <1>3, <1>4, <1>5

(* The device only goes through the buffer of the call that is running.    *)
LEMMA RegisteredIsRunning ==
    ASSUME IInv, sq # <<>>, Head(sq) = sq[1], 1 \in 1 .. Len(sq), sq[1].call \in regs
    PROVE  /\ ~Idle /\ sq[1].call = calls /\ sq[1].wr = wr /\ calls \in Calls
           /\ result[calls] = "none" /\ sq[1].length = want[calls] % U32
<1>a. TypeOK /\ Running /\ Queued /\ Ordered
  BY DEF IInv
<1>1. ~Idle /\ sq[1].call = calls /\ result[calls] = "none" /\ calls >= 1
  BY <1>a DEF Running
<1>2. sq[1].wr = wr
  BY <1>a, <1>1 DEF Ordered
<1>3. calls \in Calls
  BY <1>a, <1>1, Numbers
<1>4. sq[1].length = want[calls] % U32
  BY <1>a, <1>1 DEF Queued
<1> QED BY <1>1, <1>2, <1>3, <1>4

(* The device carries out the running call's work request.                 *)
LEMMA ExecuteStep == IInv /\ Execute => IInv'
<1> SUFFICES ASSUME IInv, Execute PROVE IInv'
    OBVIOUS
<1>a. TypeOK /\ OkIsCut
  BY DEF IInv
<1>b. /\ sq # <<>> /\ Head(sq).call \in regs /\ Complete(TRUE)
      /\ moved' = [moved EXCEPT ![Head(sq).call] = Head(sq).length]
      /\ UNCHANGED <<broken, calls, wr, regs, want, result>>
  BY DEF Execute, Complete
<1>c. /\ QueuesTyped' /\ Queued' /\ Ordered' /\ Running' /\ (Idle' <=> Idle)
      /\ Head(sq) = sq[1] /\ 1 \in 1 .. Len(sq)
      /\ Len(cq') = Len(cq) + 1
      /\ \A i \in 1 .. Len(cq) : cq'[i] = cq[i] /\ cq[i].wr < sq[1].wr
      /\ cq'[Len(cq) + 1] = [wr |-> sq[1].wr, ok |-> TRUE]
  BY <1>a, <1>b, CompleteStep DEF TypeOK, QueuesTyped
<1>d. /\ ~Idle /\ sq[1].call = calls /\ sq[1].wr = wr /\ calls \in Calls
      /\ result[calls] = "none" /\ sq[1].length = want[calls] % U32
  BY <1>b, <1>c, RegisteredIsRunning
<1>e. sq[1].length \in Nat
  BY <1>a, <1>c, Entries
<1>m. /\ moved'[calls] = want[calls] % U32
      /\ \A c \in Calls : c # calls => moved'[c] = moved[c]
      /\ moved' \in [Calls -> Nat]
  BY <1>a, <1>b, <1>c, <1>d, <1>e DEF TypeOK, CallsTyped
<1>1. CallsTyped'
  BY <1>a, <1>b, <1>m DEF TypeOK, CallsTyped
<1>2. Truthful'
  BY <1>b, <1>m DEF Truthful
<1>3. OkIsCut'
  BY <1>a, <1>b, <1>d, <1>m DEF OkIsCut
<1> QED BY <1>c, <1>1, <1>2, <1>3 DEF IInv, TypeOK

(* A failed work request completes with an error.                          *)
LEMMA ExecuteFailsStep == IInv /\ ExecuteFails => IInv'
<1> SUFFICES ASSUME IInv, ExecuteFails PROVE IInv'
    OBVIOUS
<1>a. TypeOK /\ Truthful /\ OkIsCut
  BY DEF IInv
<1>b. /\ sq # <<>> /\ Complete(FALSE) /\ broken' = TRUE
      /\ UNCHANGED <<calls, wr, regs, want, result>>
  BY DEF ExecuteFails, Complete
<1>c. /\ QueuesTyped' /\ Queued' /\ Ordered' /\ Running' /\ (Idle' <=> Idle)
      /\ Head(sq) = sq[1] /\ 1 \in 1 .. Len(sq)
      /\ Len(cq') = Len(cq) + 1
      /\ \A i \in 1 .. Len(cq) : cq'[i] = cq[i] /\ cq[i].wr < sq[1].wr
      /\ cq'[Len(cq) + 1] = [wr |-> sq[1].wr, ok |-> FALSE]
  BY <1>a, <1>b, CompleteStep
<1>e. /\ sq[1].length \in Nat /\ sq[1].call \in Calls /\ Len(cq) \in Nat /\ sq[1].wr \in Nat
      /\ \A i \in 1 .. Len(cq) : cq[i].wr \in Nat
  BY <1>a, <1>c, Entries
<1>f. sq[1].length \div 2 \in Nat
  BY <1>e
<1>g. PICK n \in {0, Head(sq).length \div 2} :
        /\ n > 0 => ~broken /\ Head(sq).call \in regs
        /\ moved' = [moved EXCEPT ![Head(sq).call] = @ + n]
  BY DEF ExecuteFails
<1>h. n \in Nat /\ moved \in [Calls -> Nat]
  BY <1>a, <1>c, <1>f, <1>g DEF TypeOK, CallsTyped
<1>t. moved' \in [Calls -> Nat]
  BY <1>c, <1>e, <1>g, <1>h
<1>1. CallsTyped'
  BY <1>a, <1>b, <1>t DEF TypeOK, CallsTyped
<1>2. CASE n = 0
  <2>1. moved' = moved
    BY <1>c, <1>e, <1>g, <1>h, <1>2
  <2>2. Truthful'
    BY <1>a, <1>b, <1>c, <1>e, <2>1 DEF Truthful
  <2>3. OkIsCut'
    BY <1>a, <1>b, <2>1 DEF OkIsCut
  <2> QED BY <1>c, <1>1, <2>2, <2>3 DEF IInv, TypeOK
<1>3. CASE n > 0
  <2>1. /\ sq[1].call = calls /\ sq[1].wr = wr /\ calls \in Calls /\ result[calls] = "none"
    BY <1>b, <1>c, <1>g, <1>3, RegisteredIsRunning
  <2>2. \A c \in Calls : c # calls => moved'[c] = moved[c]
    BY <1>c, <1>g, <1>h, <2>1
  <2>3. Truthful'
    BY <1>b, <1>c, <1>e, <2>1 DEF Truthful
  <2>4. OkIsCut'
    BY <1>a, <1>b, <2>1, <2>2 DEF OkIsCut
  <2> QED BY <1>c, <1>1, <2>3, <2>4 DEF IInv, TypeOK
<1> QED BY <1>h, <1>2, <1>3

(* The invariant is inductive.                                             *)
LEMMA Inductive == IInv /\ [Next]_vars => IInv'
<1> SUFFICES ASSUME IInv, [Next]_vars PROVE IInv'
    OBVIOUS
<1>1. CASE Next
  <2>1. Steps
    BY <1>1, NextSteps
  <2> QED BY <2>1, RefusedStep, PostedStep, PollStep, GiveUpStep, ReconnectStep,
             ExecuteStep, ExecuteFailsStep DEF Steps
<1>2. CASE UNCHANGED vars
  BY <1>2 DEF vars, IInv, TypeOK, CallsTyped, QueuesTyped, Running, Queued, Ordered,
              Truthful, OkIsCut, Idle
<1> QED BY <1>1, <1>2 DEF vars

(* The invariant holds in every reachable state.                           *)
LEMMA Invariance == Spec => []IInv
BY InitHolds, Inductive, PTL DEF Spec

-----------------------------------------------------------------------------
(* The types of the calls and queues, for every depth and region.          *)
THEOREM TypesCorrect == Spec => []TypeOK
<1>1. IInv => TypeOK
  BY DEF IInv
<1> QED BY <1>1, Invariance, PTL

(* Every work request readers.rs gets past its bounds checks stays inside  *)
(* the remote region, for all offsets and counts in u64.                   *)
THEOREM RequestsInsideRegion == Spec => []InsideRegion
<1>1. IInv => InsideRegion
  <2> SUFFICES ASSUME IInv PROVE InsideRegion
      OBVIOUS
  <2>1. DOMAIN sq = 1 .. Len(sq)
    BY DEF IInv, TypeOK, QueuesTyped
  <2> QED BY <2>1 DEF IInv, Queued, InsideRegion
<1> QED BY <1>1, Invariance, PTL

(* one_sided returns Ok only for its own completion, with all its bytes    *)
(* moved if they are fewer than 2^32, however many calls                   *)
(* before it timed out and whenever the connection was replaced.           *)
THEOREM OkIsAlwaysOwn == Spec => []OkIsOwn
<1>1. IInv => OkIsOwn
  <2> SUFFICES ASSUME IInv, NEW c \in Calls, result[c] = "ok", want[c] < U32
               PROVE  moved[c] = want[c]
    BY DEF OkIsOwn
  <2>1. want[c] \in Nat /\ U32 \in Nat \ {0}
    BY RegionAssumption DEF IInv, TypeOK, CallsTyped
  <2>2. want[c] % U32 = want[c]
    BY <2>1
  <2> QED BY <2>2 DEF IInv, OkIsCut
<1> QED BY <1>1, Invariance, PTL

(* After a call has returned, the device no longer goes through its buffer:*)
(* the registration was dropped with the call.                             *)
THEOREM ReturnedBuffersQuiet == Spec => QuietAfterReturn
<1> DEFINE Quiet == \A c \in Calls : result[c] # "none" => moved'[c] = moved[c]
<1>1. IInv /\ Next => Quiet
  <2> SUFFICES ASSUME IInv, Next PROVE Quiet
      OBVIOUS
  <2>t. TypeOK
    BY DEF IInv
  <2>m. moved \in [Calls -> Nat]
    BY <2>t DEF TypeOK, CallsTyped
  <2>h. sq # <<>> => Head(sq) = sq[1] /\ 1 \in 1 .. Len(sq) /\ sq[1].call \in Calls
    <3> SUFFICES ASSUME sq # <<>>
                 PROVE  Head(sq) = sq[1] /\ 1 \in 1 .. Len(sq) /\ sq[1].call \in Calls
        OBVIOUS
    <3>1. Head(sq) = sq[1] /\ 1 \in 1 .. Len(sq)
      BY <2>t, TailEntries DEF TypeOK, QueuesTyped
    <3> QED BY <2>t, <3>1, Entries
  <2>1. Steps
    BY NextSteps
  <2>2. CASE Execute
    <3>1. sq # <<>> /\ Head(sq).call \in regs
          /\ moved' = [moved EXCEPT ![Head(sq).call] = Head(sq).length]
      BY <2>2 DEF Execute
    <3>2. sq[1].call = calls /\ result[calls] = "none"
      BY <2>h, <3>1, RegisteredIsRunning
    <3> QED BY <2>m, <2>h, <3>1, <3>2
  <2>3. CASE ExecuteFails
    <3>1. PICK n \in {0, Head(sq).length \div 2} :
            /\ n > 0 => ~broken /\ Head(sq).call \in regs
            /\ moved' = [moved EXCEPT ![Head(sq).call] = @ + n]
      BY <2>3 DEF ExecuteFails
    <3>2. sq # <<>>
      BY <2>3 DEF ExecuteFails
    <3>3. n \in Nat
      <4>1. sq[1].length \in Nat
        BY <2>t, <2>h, <3>2, Entries
      <4>2. sq[1].length \div 2 \in Nat
        BY <4>1
      <4> QED BY <2>h, <3>1, <3>2, <4>2
    <3>4. CASE n = 0
      BY <2>m, <2>h, <3>1, <3>2, <3>4
    <3>5. CASE n > 0
      <4>1. sq[1].call = calls /\ result[calls] = "none"
        BY <2>h, <3>1, <3>2, <3>5, RegisteredIsRunning
      <4> QED BY <2>m, <2>h, <3>1, <3>2, <4>1
    <3> QED BY <3>3, <3>4, <3>5
  <2>4. CASE UNCHANGED moved
    BY <2>4
  <2>5. CallRefused => UNCHANGED moved
    BY DEF CallRefused, Refuse, PostFails
  <2>6. \A o \in Nat, b \in Nat : CallPosted(o, b) => UNCHANGED moved
    BY DEF CallPosted, Post
  <2>7. Poll \/ GiveUp \/ Reconnect => UNCHANGED moved
    BY DEF Poll, GiveUp, Reconnect
  <2> QED BY <2>1, <2>2, <2>3, <2>4, <2>5, <2>6, <2>7 DEF Steps
<1>2. IInv /\ [Next]_vars => [Quiet]_vars
  BY <1>1
<1> QED BY <1>2, Invariance, PTL DEF Spec, QuietAfterReturn

-----------------------------------------------------------------------------
(* The calls that gave up are finitely many.                               *)
LEMMA GaveUpFinite ==
    ASSUME MaxCalls \in Nat, NEW S \in SUBSET Calls
    PROVE  IsFiniteSet(S) /\ Cardinality(S) \in Nat
<1>1. IsFiniteSet(Calls)
  BY FS_Interval DEF Calls
<1>2. IsFiniteSet(S)
  BY <1>1, FS_Subset
<1> QED BY <1>2, FS_CardinalityType

(* A step that leaves the queues no longer and loses none of those calls.  *)
LEMMA NoMoreEntries ==
    ASSUME TypeOK, TypeOK', EntriesAccounted, GaveUp \subseteq GaveUp',
           Len(sq') + Len(cq') <= Len(sq) + Len(cq), Idle' => Idle
    PROVE  EntriesAccounted'
<1>1. MaxCalls \in Nat
  BY Numbers
<1>2. GaveUp \subseteq Calls /\ GaveUp' \subseteq Calls
  BY DEF GaveUp
<1>3. /\ Cardinality(GaveUp) \in Nat /\ Cardinality(GaveUp') \in Nat
      /\ Cardinality(GaveUp) <= Cardinality(GaveUp')
  BY <1>1, <1>2, GaveUpFinite, FS_Subset
<1>4. Len(sq) \in Nat /\ Len(cq) \in Nat
  BY Entries
<1>5. Len(sq') \in Nat /\ Len(cq') \in Nat
  BY DEF TypeOK, QueuesTyped
<1>6. Len(sq) + Len(cq) <= Cardinality(GaveUp) + (IF Idle THEN 0 ELSE 1)
  BY DEF EntriesAccounted
<1>7. Len(sq') + Len(cq') <= Cardinality(GaveUp') + (IF Idle' THEN 0 ELSE 1)
  BY <1>3, <1>4, <1>5, <1>6
<1> QED BY <1>7 DEF EntriesAccounted

(* Nothing is queued at first.                                            *)
LEMMA AccountsInit == Init => EntriesAccounted
<1> SUFFICES ASSUME Init PROVE EntriesAccounted
    OBVIOUS
<1>0. TypeOK /\ Idle
  BY InitHolds DEF IInv, Init, Idle
<1>1. Cardinality(GaveUp) \in Nat
  BY <1>0, Numbers, GaveUpFinite DEF GaveUp
<1>2. Len(sq) = 0 /\ Len(cq) = 0
  BY EmptyQueue DEF Init
<1> QED BY <1>0, <1>1, <1>2 DEF EntriesAccounted

(* The call of a timed-out request is one more that gave up, and the one   *)
(* entry of the running call is now its.                                   *)
LEMMA AccountsReturn ==
    ASSUME IInv, IInv', EntriesAccounted, ~Idle, NEW r \in {"ok", "err", "gaveUp"}, Return(r),
           UNCHANGED <<calls, want>>,
           \/ r = "gaveUp" /\ Len(sq') + Len(cq') = Len(sq) + Len(cq)
           \/ Len(sq') + Len(cq') = Len(sq) + Len(cq) - 1
    PROVE  EntriesAccounted'
<1>0. TypeOK /\ TypeOK' /\ Running /\ calls \in Calls /\ MaxCalls \in Nat
  <2>1. TypeOK /\ TypeOK' /\ Running
    BY DEF IInv
  <2> QED BY <2>1, Numbers DEF Running
<1>1. result' = [result EXCEPT ![calls] = r] /\ Idle' /\ result[calls] = "none"
  BY <1>0 DEF Return, Idle, Running
<1>2. result \in [Calls -> {"none", "ok", "err", "gaveUp"}]
  BY <1>0 DEF TypeOK, CallsTyped
<1>3. GaveUp' = IF r = "gaveUp" THEN GaveUp \cup {calls} ELSE GaveUp
  BY <1>0, <1>1, <1>2 DEF GaveUp
<1>4. GaveUp \subseteq Calls /\ calls \notin GaveUp
  BY <1>1 DEF GaveUp
<1>5. IsFiniteSet(GaveUp) /\ Cardinality(GaveUp) \in Nat
  BY <1>0, <1>4, GaveUpFinite
<1>6. Cardinality(GaveUp \cup {calls}) = Cardinality(GaveUp) + 1
  BY <1>4, <1>5, FS_AddElement
<1>7. Len(sq) \in Nat /\ Len(cq) \in Nat /\ Len(sq') \in Nat /\ Len(cq') \in Nat
  BY <1>0 DEF TypeOK, QueuesTyped
<1>8. Len(sq) + Len(cq) <= Cardinality(GaveUp) + 1
  BY DEF EntriesAccounted
<1>9. Len(sq') + Len(cq') <= Cardinality(GaveUp')
  <2>1. CASE r = "gaveUp"
    <3>1. Cardinality(GaveUp') = Cardinality(GaveUp) + 1
      BY <1>3, <1>6, <2>1
    <3> QED BY <1>5, <1>7, <1>8, <3>1
  <2>2. CASE r # "gaveUp"
    <3>1. Cardinality(GaveUp') = Cardinality(GaveUp)
      BY <1>3, <2>2
    <3> QED BY <1>5, <1>7, <1>8, <2>2, <3>1
  <2> QED BY <2>1, <2>2
<1>10. Cardinality(GaveUp') \in Nat
  BY <1>3, <1>5, <1>6
<1> QED BY <1>1, <1>9, <1>10 DEF EntriesAccounted

(* Every step keeps the entries accounted for.                             *)
LEMMA AccountsStep == IInv /\ IInv' /\ EntriesAccounted /\ [Next]_vars => EntriesAccounted'
<1> SUFFICES ASSUME IInv, IInv', EntriesAccounted, [Next]_vars PROVE EntriesAccounted'
    OBVIOUS
<1>0. TypeOK /\ TypeOK' /\ Running
  BY DEF IInv
<1>n. /\ Len(sq) \in Nat /\ Len(cq) \in Nat /\ calls \in Nat
      /\ \A c \in Calls : c \in Nat
  BY <1>0, Entries, Numbers
<1>t. want \in [Calls -> Nat] /\ result \in [Calls -> {"none", "ok", "err", "gaveUp"}]
  BY <1>0 DEF TypeOK, CallsTyped
<1>1. CASE CallRefused
  <2>1. /\ calls + 1 \in Calls /\ calls' = calls + 1 /\ Idle /\ UNCHANGED <<sq, cq, wr, want>>
        /\ result' = [result EXCEPT ![calls + 1] = "err"] /\ Idle'
    BY <1>0, <1>1, Numbers DEF CallRefused, Refuse, PostFails, queueVars, Idle
  <2>2. result[calls + 1] = "none"
    BY <1>0, <1>n, <2>1 DEF Running
  <2>3. GaveUp \subseteq GaveUp'
    BY <1>t, <2>1, <2>2 DEF GaveUp
  <2> QED BY <1>0, <1>n, <2>1, <2>3, NoMoreEntries
<1>2. ASSUME NEW o \in Nat, NEW b \in Nat, CallPosted(o, b) PROVE EntriesAccounted'
  <2>1. /\ calls + 1 \in Calls /\ calls' = calls + 1 /\ Idle /\ UNCHANGED <<cq, result>> /\ b > 0
        /\ want' = [want EXCEPT ![calls + 1] = b] /\ wr' = nextWr
        /\ sq' = Append(sq, [wr |-> nextWr, call |-> calls + 1,
                             addr |-> Base + o, length |-> Cut(b)])
    BY <1>0, <1>2, Numbers DEF CallPosted, Post
  <2>2. ~Idle'
    BY <1>0, <2>1, Numbers DEF Idle, None
  <2>3. Len(sq') = Len(sq) + 1
    BY <1>0, <2>1 DEF TypeOK, QueuesTyped
  <2>4. result[calls + 1] = "none"
    BY <1>0, <1>n, <2>1 DEF Running
  <2>5. GaveUp' = GaveUp
    BY <1>t, <2>1, <2>4 DEF GaveUp
  <2>6. Cardinality(GaveUp) \in Nat
    BY <1>0, Numbers, GaveUpFinite DEF GaveUp
  <2>7. Len(sq) + Len(cq) <= Cardinality(GaveUp)
    BY <2>1, <2>6 DEF EntriesAccounted
  <2> QED BY <1>n, <2>1, <2>2, <2>3, <2>5, <2>6, <2>7 DEF EntriesAccounted
<1>3. CASE Poll
  <2>1. ~Idle /\ cq # <<>> /\ cq' = Tail(cq) /\ UNCHANGED <<sq, calls, want>>
    BY <1>3 DEF Poll
  <2>2. Len(cq') = Len(cq) - 1
    BY <1>0, <2>1, TailEntries DEF TypeOK, QueuesTyped
  <2>3. Len(sq') + Len(cq') = Len(sq) + Len(cq) - 1
    BY <1>n, <2>1, <2>2
  <2>4. CASE Head(cq).wr = wr
    <3> DEFINE r == IF Head(cq).ok THEN "ok" ELSE "err"
    <3>1. Return(r) /\ r \in {"ok", "err"}
      BY <1>3, <2>4 DEF Poll
    <3> HIDE DEF r
    <3> QED BY <2>1, <2>3, <3>1, AccountsReturn
  <2>5. CASE Head(cq).wr # wr
    <3>1. UNCHANGED <<result, wr>>
      BY <1>3, <2>5 DEF Poll
    <3>2. GaveUp' = GaveUp /\ (Idle' <=> Idle)
      BY <2>1, <3>1 DEF GaveUp, Idle
    <3> QED BY <1>0, <1>n, <2>3, <3>2, NoMoreEntries
  <2> QED BY <2>4, <2>5
<1>4. CASE GiveUp
  <2>1. ~Idle /\ Return("gaveUp") /\ UNCHANGED <<sq, cq, calls, want>>
    BY <1>4 DEF GiveUp, queueVars
  <2> QED BY <2>1, AccountsReturn
<1>5. CASE Reconnect
  <2>1. Idle /\ sq' = <<>> /\ cq' = <<>> /\ UNCHANGED <<calls, wr, want, result>>
    BY <1>5 DEF Reconnect
  <2>2. GaveUp' = GaveUp /\ Idle' /\ Len(sq') = 0 /\ Len(cq') = 0
    BY <2>1, EmptyQueue DEF GaveUp, Idle
  <2> QED BY <1>0, <1>n, <2>1, <2>2, NoMoreEntries
<1>6. CASE Execute \/ ExecuteFails
  <2>1. PICK ok \in BOOLEAN : sq # <<>> /\ Complete(ok)
    BY <1>6 DEF Execute, ExecuteFails
  <2>2. /\ sq' = Tail(sq) /\ cq' = Append(cq, [wr |-> Head(sq).wr, ok |-> ok])
        /\ UNCHANGED <<calls, wr, want, result>>
    BY <2>1 DEF Complete
  <2>3. Len(sq') = Len(sq) - 1 /\ Len(cq') = Len(cq) + 1
    <3>1. Len(sq') = Len(sq) - 1
      BY <1>0, <2>1, <2>2, TailEntries DEF TypeOK, QueuesTyped
    <3>2. Len(cq') = Len(cq) + 1
      BY <1>0, <2>2 DEF TypeOK, QueuesTyped
    <3> QED BY <3>1, <3>2
  <2>4. GaveUp' = GaveUp /\ (Idle' <=> Idle)
    BY <2>2 DEF GaveUp, Idle
  <2> QED BY <1>0, <1>n, <2>3, <2>4, NoMoreEntries
<1>7. CASE UNCHANGED vars
  BY <1>7 DEF vars, EntriesAccounted, GaveUp, Idle
<1>8. CASE Next
  <2>1. Steps
    BY <1>8, NextSteps
  <2> QED BY <1>1, <1>2, <1>3, <1>4, <1>5, <1>6, <2>1 DEF Steps
<1> QED BY <1>7, <1>8

(* As long as fewer than CQ_SIZE calls gave up on a connection, the send   *)
(* queue has room for the next call: polling never leaves an entry of a    *)
(* call that was answered behind.                                          *)
THEOREM QueueEntriesAccounted == Spec => []EntriesAccounted
BY AccountsInit, AccountsStep, Invariance, PTL DEF Spec
=============================================================================
