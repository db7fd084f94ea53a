---------------------------- MODULE VmCore_proofs ----------------------------
(***************************************************************************)
(* Theorems about the execution loop (VmCore), for every size of its       *)
(* buffers, every delay and every program the guest may run: its type,     *)
(* that no interrupt request is forgotten unseen, that the guest's         *)
(* handlers nest by priority, and that a deferred VBL is neither forgotten *)
(* nor late nor early.                                                     *)
(***************************************************************************)
EXTENDS VmCore, SequenceTheorems, TLAPS

-----------------------------------------------------------------------------
(* The timer table with its two entries: what its operations return, and   *)
(* what becomes of the timer of a deferred VBL.                            *)

LEMMA TwoHandlers ==
  /\ Handlers = {0, 1}
  /\ IntNull \in Handlers /\ VblPending \in Handlers
BY CoreAssumption DEF Handlers, IntNull, VblPending

LEMMA HalfFacts == Half \in Nat /\ ShortMod = 2 * Half /\ ShortMod \in Nat \ {0}
BY TableAssumption DEF Half

\* A short is what it was converted from when that fits.
LEMMA ShortType ==
  ASSUME NEW x \in Int
  PROVE  Short(x) \in Int
BY HalfFacts DEF Short

LEMMA ShortId ==
  ASSUME NEW x \in Int, -Half <= x, x < Half
  PROVE  Short(x) = x
<1>1. x + Half \in 0 .. ShortMod - 1
  BY HalfFacts
<1>2. (x + Half) % ShortMod = x + Half
  BY HalfFacts, <1>1
<1> QED BY <1>2, HalfFacts DEF Short

\* A positive multiple of m is at least m.
LEMMA Multiples ==
  ASSUME NEW m \in Nat \ {0}, NEW x \in Int, x % m = 0, x > 0
  PROVE  /\ x >= m
         /\ (x - m) % m = 0
<1> DEFINE q == x \div m
<1>q. q \in Int /\ x = m * q
  <2>1. x = m * (x \div m) + (x % m) /\ x \div m \in Int
    OBVIOUS
  <2> QED BY <2>1
<1> HIDE DEF q
<1>1. PICK k \in Int : x = k * m
  <2>1. m * q = q * m
    BY <1>q
  <2> QED BY <2>1, <1>q
<1>2. k > 0
  BY <1>1
<1>3. x - m = (k - 1) * m /\ k - 1 \in Int
  BY <1>1
<1>4. ASSUME NEW j \in Int PROVE (j * m) % m = 0
  OBVIOUS
<1> QED BY <1>1, <1>2, <1>3, <1>4

-----------------------------------------------------------------------------

LEMMA LowestNone ==
  ASSUME NEW t \in Tables, ~t.used[0], ~t.used[1]
  PROVE  Lowest(t) = 0
<1>1. Eligible(t) = {}
  BY TwoHandlers DEF Eligible
<1> QED BY <1>1 DEF Lowest

LEMMA LowestOne ==
  ASSUME NEW t \in Tables, ~t.used[0], t.used[1], t.cycles[1] < NoInterrupt
  PROVE  Lowest(t) = 1
<1>1. Eligible(t) = {1}
  BY TwoHandlers DEF Eligible
<1>2. \A h \in {1} : \A k \in {1} :
        \/ t.cycles[h] < t.cycles[k]
        \/ t.cycles[h] = t.cycles[k] /\ h <= k
  OBVIOUS
<1>3. Eligible(t) # {}
  BY <1>1
<1>4. Lowest(t) \in {1}
  BY <1>1, <1>2, <1>3 DEF Lowest
<1> QED BY <1>4

LEMMA LowestType ==
  ASSUME NEW t \in Tables
  PROVE  Lowest(t) \in Handlers
<1>1. CASE Eligible(t) = {}
  BY <1>1, TwoHandlers DEF Lowest
<1>2. CASE Eligible(t) # {}
  <2>1. t.cycles[0] \in Int /\ t.cycles[1] \in Int
    BY TwoHandlers DEF Tables
  <2>2. \E h \in Eligible(t) : \A k \in Eligible(t) :
          \/ t.cycles[h] < t.cycles[k]
          \/ t.cycles[h] = t.cycles[k] /\ h <= k
    BY <1>2, <2>1, TwoHandlers DEF Eligible
  <2>3. Lowest(t) \in Eligible(t)
    BY <1>2, <2>2 DEF Lowest
  <2> QED BY <2>3 DEF Eligible
<1> QED BY <1>1, <1>2

\* The fields of a table and of what the operations make of it.
LEMMA TableFields ==
  ASSUME NEW t \in Tables
  PROVE  /\ t.used \in [Handlers -> BOOLEAN]
         /\ t.cycles \in [Handlers -> Int]
         /\ t.count \in Int /\ t.over \in Int
         /\ t.active \in Handlers
         /\ t.fn \in {HandlerFn[h] : h \in Handlers} \cup {NoFn}
BY DEF Tables

LEMMA SetNewType ==
  ASSUME NEW t \in Tables
  PROVE  SetNew(t) \in Tables
<1>1. Lowest(t) \in Handlers
  BY LowestType
<1>2. t.cycles[Lowest(t)] \in Int
  BY <1>1, TableFields
<1>3. Short(t.cycles[Lowest(t)]) \in Int
  BY <1>2, ShortType
<1> QED BY <1>1, <1>3 DEF SetNew, Tables

LEMMA InitTableType == InitTable \in Tables
BY TwoHandlers DEF InitTable, Tables

LEMMA ResetType ==
  ASSUME NEW t \in Tables
  PROVE  Reset(t) \in Tables
<1> DEFINE u == [h \in Handlers |-> FALSE]
<1>1. u \in [Handlers -> BOOLEAN]
  OBVIOUS
<1>2. Reset(t) = [t EXCEPT !.used = u, !.count = 0, !.over = 0]
  BY DEF Reset
<1> HIDE DEF u
<1>3. Reset(t) = [used |-> u, cycles |-> t.cycles, count |-> 0, fn |-> t.fn,
                  active |-> t.active, over |-> 0]
  BY <1>2 DEF Tables
<1> QED BY <1>1, <1>3, TableFields DEF Tables

LEMMA AddAbsoluteType ==
  ASSUME NEW t \in Tables, NEW c \in Int, NEW h \in Handlers
  PROVE  AddAbsolute(t, c, h) \in Tables
<1> DEFINE u == [t.used EXCEPT ![h] = TRUE]
           n == c + t.over
           y == [t.cycles EXCEPT ![h] = n]
<1>1. u \in [Handlers -> BOOLEAN]
  BY TableFields
<1>2. n \in Int
  BY TableFields
<1> HIDE DEF n
<1>3. y \in [Handlers -> Int]
  BY TableFields, <1>2
<1>4. [t EXCEPT !.used[h] = TRUE, !.cycles[h] = n] = [t EXCEPT !.used = u, !.cycles = y]
  BY DEF Tables
<1> HIDE DEF u, y
<1>5. [t EXCEPT !.used = u, !.cycles = y] \in Tables
  BY <1>1, <1>3 DEF Tables
<1>6. AddAbsolute(t, c, h) = SetNew([t EXCEPT !.used = u, !.cycles = y])
  BY <1>4 DEF AddAbsolute, n
<1> QED BY <1>5, <1>6, SetNewType

LEMMA ChargeType ==
  ASSUME NEW t \in Tables
  PROVE  Charge(t) \in Tables
<1>1. t.count - InsnCycles \in Int
  BY TableFields, TableAssumption
<1>2. Short(t.count - InsnCycles) \in Int
  BY <1>1, ShortType
<1> QED BY <1>2 DEF Charge, Tables

LEMMA AcknowledgeType ==
  ASSUME NEW t \in Tables
  PROVE  Acknowledge(t) \in Tables
<1>1. Elapsed(t) \in Int
  BY TableFields DEF Elapsed
<1> DEFINE e == Elapsed(t)
           y == [h \in Handlers |-> IF t.used[h] THEN t.cycles[h] - e ELSE t.cycles[h]]
           u == [t.used EXCEPT ![t.active] = FALSE]
<1>2. Update(t) = [t EXCEPT !.over = t.count, !.cycles = y]
  BY DEF Update
<1> HIDE DEF e
<1>3. y \in [Handlers -> Int]
  BY <1>1, TableFields DEF e
<1>4. u \in [Handlers -> BOOLEAN]
  BY TableFields
<1> HIDE DEF y
<1>5. [Update(t) EXCEPT !.used[t.active] = FALSE]
        = [t EXCEPT !.over = t.count, !.cycles = y, !.used = u]
  BY <1>2 DEF Tables
<1> HIDE DEF u
<1>6. [t EXCEPT !.over = t.count, !.cycles = y, !.used = u] \in Tables
  BY <1>3, <1>4, TableFields DEF Tables
<1> QED BY <1>5, <1>6, SetNewType DEF Acknowledge

-----------------------------------------------------------------------------
(* The timer of a deferred VBL. *)

\* The table when it is all that runs, and when no timer runs.
Armed(t) ==
  /\ t.fn = HandlerFn[1] /\ t.active = 1
  /\ t.cycles[1] = PendingDelay
  /\ t.count \in 1 .. PendingDelay
  /\ t.count % InsnCycles = 0

Settled(t) == IF t.used[1] THEN Armed(t) ELSE t.fn = NoFn

\* Set for the first time, or again once it was acknowledged.
LEMMA ArmedBy ==
  ASSUME NEW t \in Tables, ~t.used[0], t.over = 0
  PROVE  /\ AddAbsolute(t, PendingDelay, VblPending).over = 0
         /\ ~AddAbsolute(t, PendingDelay, VblPending).used[0]
         /\ AddAbsolute(t, PendingDelay, VblPending).used[1]
         /\ AddAbsolute(t, PendingDelay, VblPending).count = PendingDelay
         /\ Settled(AddAbsolute(t, PendingDelay, VblPending))
<1> DEFINE u == [t.used EXCEPT ![1] = TRUE]
           y == [t.cycles EXCEPT ![1] = PendingDelay]
           w == [t EXCEPT !.used = u, !.cycles = y]
           a == SetNew(w)
<1>0. /\ PendingDelay \in Nat \ {0} /\ PendingDelay % InsnCycles = 0
      /\ PendingDelay < Half /\ PendingDelay < NoInterrupt
  BY CoreAssumption
<1>1. PendingDelay + t.over = PendingDelay
  BY <1>0
<1>2. AddAbsolute(t, PendingDelay, VblPending)
        = SetNew([t EXCEPT !.used[1] = TRUE, !.cycles[1] = PendingDelay])
  BY <1>1 DEF AddAbsolute, VblPending
<1>3. [t EXCEPT !.used[1] = TRUE, !.cycles[1] = PendingDelay] = w
  BY DEF Tables
<1>4. /\ u \in [Handlers -> BOOLEAN] /\ ~u[0] /\ u[1]
      /\ y \in [Handlers -> Int] /\ y[1] = PendingDelay
  BY <1>0, TableFields, TwoHandlers
<1> HIDE DEF u, y
<1>5. w \in Tables /\ w.used = u /\ w.cycles = y /\ w.over = 0
  BY <1>4 DEF Tables
<1> HIDE DEF w
<1>6. Lowest(w) = 1
  BY <1>0, <1>4, <1>5, LowestOne
<1>7. Short(PendingDelay) = PendingDelay
  BY <1>0, ShortId, HalfFacts
<1>8. a = [w EXCEPT !.count = PendingDelay, !.fn = HandlerFn[1], !.active = 1]
  BY <1>4, <1>5, <1>6, <1>7 DEF SetNew
<1>9. /\ a.over = 0 /\ a.used = u /\ a.cycles = y
      /\ a.count = PendingDelay /\ a.fn = HandlerFn[1] /\ a.active = 1
  BY <1>5, <1>8 DEF Tables
<1> HIDE DEF a
<1>10. Settled(a)
  BY <1>0, <1>4, <1>9 DEF Settled, Armed
<1> QED BY <1>2, <1>3, <1>4, <1>9, <1>10 DEF a

\* It has run out, and nothing of it is left.
LEMMA Acknowledged ==
  ASSUME NEW t \in Tables, ~t.used[0], t.count = 0, t.active = 1
  PROVE  /\ Acknowledge(t).over = 0
         /\ ~Acknowledge(t).used[0] /\ ~Acknowledge(t).used[1]
         /\ Settled(Acknowledge(t))
<1> DEFINE e == Elapsed(t)
           y == [h \in Handlers |-> IF t.used[h] THEN t.cycles[h] - e ELSE t.cycles[h]]
           u == [t.used EXCEPT ![1] = FALSE]
           w == [t EXCEPT !.over = 0, !.cycles = y, !.used = u]
           a == SetNew(w)
<1>1. e \in Int
  BY TableFields DEF Elapsed
<1>2. Update(t) = [t EXCEPT !.over = 0, !.cycles = y]
  BY DEF Update
<1> HIDE DEF e
<1>3. y \in [Handlers -> Int]
  BY <1>1, TableFields
<1>4. u \in [Handlers -> BOOLEAN] /\ ~u[0] /\ ~u[1]
  BY TableFields, TwoHandlers
<1> HIDE DEF y
<1>5. [Update(t) EXCEPT !.used[t.active] = FALSE] = w
  BY <1>2 DEF Tables
<1> HIDE DEF u
<1>6. w \in Tables /\ w.used = u /\ w.over = 0
  BY <1>3, <1>4 DEF Tables
<1>7. Acknowledge(t) = a
  BY <1>5 DEF Acknowledge
<1> HIDE DEF w
<1>8. Lowest(w) = 0
  BY <1>4, <1>6, LowestNone
<1>9. a = [w EXCEPT !.count = Short(w.cycles[0]), !.fn = NoFn, !.active = 0]
  BY <1>8, CoreAssumption DEF SetNew
<1>10. a.over = 0 /\ a.used = u /\ a.fn = NoFn
  BY <1>6, <1>9 DEF Tables
<1> HIDE DEF a
<1> QED BY <1>4, <1>7, <1>10 DEF Settled

\* One instruction less to wait: it has run out exactly, or it still runs.
LEMMA Charged ==
  ASSUME NEW t \in Tables, ~t.used[0], t.over = 0, Settled(t)
  PROVE  /\ Charge(t) \in Tables
         /\ Charge(t).over = 0 /\ ~Charge(t).used[0]
         /\ Due(Charge(t)) => Charge(t).count = 0 /\ Charge(t).active = 1
         /\ ~Due(Charge(t)) => Settled(Charge(t))
         /\ Charge(t).used = t.used
         /\ ~t.used[1] => ~Due(Charge(t))
         /\ t.used[1] => /\ Charge(t).count = t.count - InsnCycles
                         /\ Due(Charge(t)) <=> t.count = InsnCycles
                         /\ t.count >= InsnCycles
<1> DEFINE n == Short(t.count - InsnCycles)
           c == Charge(t)
<1>1. c \in Tables
  BY ChargeType
<1>2. /\ c.used = t.used /\ c.cycles = t.cycles /\ c.fn = t.fn
      /\ c.active = t.active /\ c.over = t.over /\ c.count = n
  BY DEF Charge, Tables
<1> HIDE DEF c
<1>3. CASE ~t.used[1]
  <2>1. ~Due(c)
    BY <1>2, <1>3 DEF Due, Settled
  <2> QED BY <1>1, <1>2, <1>3, <2>1 DEF Settled, c
<1>4. CASE t.used[1]
  <2>0. /\ t.count \in Int /\ InsnCycles \in Nat \ {0} /\ t.count \in 1 .. PendingDelay
        /\ t.count % InsnCycles = 0 /\ PendingDelay \in Nat /\ PendingDelay < Half /\ Half \in Nat
        /\ t.fn = HandlerFn[1] /\ t.active = 1 /\ t.cycles[1] = PendingDelay
    BY <1>4, TableAssumption, CoreAssumption, HalfFacts DEF Settled, Armed
  <2> DEFINE d == t.count - InsnCycles
  <2>1. t.count >= InsnCycles /\ d % InsnCycles = 0
    BY <2>0, Multiples
  <2>2. d \in 0 .. PendingDelay
    BY <2>0, <2>1
  <2>3. n = d
    BY <2>0, <2>2, ShortId
  <2>8. Due(c) <=> t.count = InsnCycles
    BY <1>2, <2>0, <2>2, <2>3, CoreAssumption DEF Due
  <2>9. c.count = t.count - InsnCycles
    BY <1>2, <2>3
  <2> HIDE DEF d, n
  <2>4. Due(c) => c.count = 0
    BY <1>2, <2>2, <2>3, <2>0 DEF Due
  <2>5. ~Due(c) => c.count # 0
    BY <1>2, <2>0, CoreAssumption DEF Due
  <2>6. c.count # 0 => c.count \in 1 .. PendingDelay
    BY <1>2, <2>0, <2>2, <2>3
  <2>7. ~Due(c) => Armed(c)
    BY <1>2, <2>0, <2>1, <2>3, <2>5, <2>6 DEF Armed, d
  <2> QED BY <1>1, <1>2, <1>4, <2>0, <2>1, <2>4, <2>7, <2>8, <2>9 DEF Settled, c
<1> QED BY <1>3, <1>4

-----------------------------------------------------------------------------
(* The loop.                                                               *)

\* The type of the variables, and what SetupInsn's count relies on.
TypeInv ==
  /\ TypeOK
  /\ guest = "setup" => step < SetupLen

LEMMA RequestType ==
  ASSUME TypeOK, NEW level \in Levels
  PROVE  /\ AfterTest(level) \in {None} \cup Levels
         /\ AfterRaise(level) \subseteq Flags
BY DEF TypeOK, AfterTest, AfterRaise, CanRaise, Flags

LEMMA InputUpdateType ==
  ASSUME TypeOK, NEW cleared \in SUBSET Flags, InputUpdate(cleared)
  PROVE  /\ requested' \in {None} \cup Levels
         /\ spc' \subseteq Flags
<1>1. AfterTest(Input) \in {None} \cup Levels /\ AfterRaise(Input) \subseteq Flags
  BY RequestType DEF Levels
<1> QED BY <1>1 DEF InputUpdate, TypeOK

LEMMA PushedType ==
  ASSUME TypeOK, NEW b \in Buffers, NEW n \in 1 .. 2
  PROVE  Pushed(b, n) \in [Buffers -> 0 .. BufSize - 1]
<1>1. BufSize \in Nat \ {0}
  BY CoreAssumption
<1>2. queued \in [Buffers -> 0 .. BufSize - 1]
  BY DEF TypeOK
<1>3. queued[b] + n \in Nat
  BY <1>1, <1>2
<1> DEFINE v == (queued[b] + n) % BufSize
<1>4. v \in 0 .. BufSize - 1
  BY <1>1, <1>3
<1>5. Pushed(b, n) = [queued EXCEPT ![b] = v]
  BY DEF Pushed
<1> HIDE DEF v
<1> QED BY <1>2, <1>4, <1>5

LEMMA PoppedType ==
  ASSUME TypeOK, NEW b \in Buffers
  PROVE  Popped(b) \in [Buffers -> 0 .. BufSize - 1]
<1>1. BufSize \in Nat \ {0}
  BY CoreAssumption
<1>2. queued \in [Buffers -> 0 .. BufSize - 1]
  BY DEF TypeOK
<1> DEFINE v == IF queued[b] = 0 THEN 0 ELSE queued[b] - 1
<1>4. v \in 0 .. BufSize - 1
  BY <1>1, <1>2
<1>5. Popped(b) = [queued EXCEPT ![b] = v]
  BY DEF Popped
<1> HIDE DEF v
<1> QED BY <1>2, <1>4, <1>5

HostType ==
  /\ quit \in BOOLEAN
  /\ shortcut \in Shortcuts \cup {"none"}
  /\ queued \in [Buffers -> 0 .. BufSize - 1]
  /\ moved \in BOOLEAN

LEMMA HostEventType ==
  ASSUME TypeOK, HostEvent
  PROVE  HostType'
<1>1. HostType
  BY DEF TypeOK, HostType
<1>2. CASE NoEvent
  BY <1>1, <1>2 DEF NoEvent, HostType, hostVars
<1>3. CASE QuitEvent
  BY <1>1, <1>3 DEF QuitEvent, HostType
<1>4. CASE MotionEvent
  BY <1>1, <1>4 DEF MotionEvent, HostType
<1>5. CASE KeyEvent
  <2>1. queued' \in [Buffers -> 0 .. BufSize - 1]
    BY <1>5, PushedType DEF KeyEvent, Buffers
  <2> QED BY <1>1, <1>5, <2>1 DEF KeyEvent, HostType
<1>6. CASE ButtonEvent
  <2>1. queued' \in [Buffers -> 0 .. BufSize - 1]
    BY <1>6, PushedType DEF ButtonEvent, Buffers
  <2> QED BY <1>1, <1>6, <2>1 DEF ButtonEvent, HostType
<1>7. CASE \E k \in Shortcuts : ShortcutEvent(k)
  BY <1>1, <1>7 DEF ShortcutEvent, HostType
<1> QED BY <1>2, <1>3, <1>4, <1>5, <1>6, <1>7 DEF HostEvent

CpuType ==
  /\ mask \in 0 .. 7
  /\ spc \subseteq Flags
  /\ requested \in {None} \cup Levels

GuestType ==
  /\ guest \in {"boot", "setup", "main"}
  /\ step \in 0 .. SetupLen
  /\ guest = "setup" => step < SetupLen
  /\ saved \in Seq(0 .. 7)
  /\ hpc \in [Levels -> Nat]

LEMMA TypeParts ==
  TypeInv <=> /\ phase \in Phases
              /\ iters \in 0 .. PollPeriod - 1
              /\ tab \in Tables
              /\ CpuType /\ HostType /\ GuestType
BY DEF TypeInv, TypeOK, CpuType, HostType, GuestType

\* What one instruction of the guest may change.
InsnType ==
  /\ CpuType /\ GuestType
  /\ queued \in [Buffers -> 0 .. BufSize - 1]
  /\ moved \in BOOLEAN

LEMMA LastSaved ==
  ASSUME NEW S, NEW s \in Seq(S), s # << >>
  PROVE  /\ Len(s) \in Nat \ {0}
         /\ s[Len(s)] \in S
         /\ SubSeq(s, 1, Len(s) - 1) \in Seq(S)
         /\ Len(SubSeq(s, 1, Len(s) - 1)) = Len(s) - 1
         /\ \A i \in 1 .. Len(s) - 1 : SubSeq(s, 1, Len(s) - 1)[i] = s[i]
<1> DEFINE n == Len(s)
<1>1. n \in Nat \ {0} /\ \A i \in 1 .. n : s[i] \in S
  OBVIOUS
<1> HIDE DEF n
<1>2. n - 1 \in Int /\ 1 \in Int /\ n \in 1 .. n /\ \A i \in 1 .. n - 1 : s[i] \in S
  BY <1>1
<1>3. /\ SubSeq(s, 1, n - 1) \in Seq(S)
      /\ Len(SubSeq(s, 1, n - 1)) = IF 1 <= n - 1 THEN n - 1 - 1 + 1 ELSE 0
      /\ \A i \in 1 .. n - 1 - 1 + 1 : SubSeq(s, 1, n - 1)[i] = s[1 + i - 1]
  BY <1>2, SubSeqProperties
<1>4. (IF 1 <= n - 1 THEN n - 1 - 1 + 1 ELSE 0) = n - 1 /\ n - 1 - 1 + 1 = n - 1
  BY <1>1
<1>5. \A i \in 1 .. n - 1 : 1 + i - 1 = i
  OBVIOUS
<1> QED BY <1>1, <1>2, <1>3, <1>4, <1>5 DEF n

LEMMA GuestInsnType ==
  ASSUME TypeInv, GuestInsn
  PROVE  InsnType'
<1> USE DEF InsnType, CpuType, GuestType
<1>0. InsnType /\ TypeOK /\ SetupLen \in Nat \ {0} /\ VblLen \in Nat /\ SrMasks \subseteq 0 .. 7
  BY CoreAssumption DEF TypeInv, TypeOK
<1>1. CASE EnableInterrupts
  BY <1>0, <1>1 DEF EnableInterrupts, LoadSr, Flags
<1>2. CASE SetupInsn
  <2>1. step + 1 \in 0 .. SetupLen /\ (step + 1 # SetupLen => step + 1 < SetupLen)
    BY <1>0, <1>2 DEF SetupInsn
  <2> QED BY <1>0, <1>2, <2>1 DEF SetupInsn
<1>3. CASE OrdinaryInsn
  BY <1>0, <1>3 DEF OrdinaryInsn, guestVars
<1>4. ASSUME NEW m \in SrMasks, MoveToSr(m) \/ StopInsn(m) PROVE InsnType'
  BY <1>0, <1>4 DEF MoveToSr, StopInsn, LoadSr, Flags, guestVars
<1>5. CASE ResetInsn
  BY <1>0, <1>5 DEF ResetInsn, guestVars
<1>6. CASE GetMouseInput
  <2>1. Popped("button") \in [Buffers -> 0 .. BufSize - 1]
    BY <1>0, PoppedType DEF Buffers
  <2> QED BY <1>0, <1>6, <2>1 DEF GetMouseInput
<1>7. CASE GetKeyboardEvent
  <2>1. Popped("key") \in [Buffers -> 0 .. BufSize - 1]
    BY <1>0, PoppedType DEF Buffers
  <2> QED BY <1>0, <1>7, <2>1 DEF GetKeyboardEvent
<1>8. CASE VblankInsn
  BY <1>0, <1>8 DEF VblankInsn, Levels
<1>9. ASSUME NEW level \in Levels, Rte(level) PROVE InsnType'
  <2>1. saved \in Seq(0 .. 7) /\ saved # << >>
    BY <1>0, <1>9 DEF Rte, InHandler
  <2>2. /\ saved[Len(saved)] \in 0 .. 7
        /\ SubSeq(saved, 1, Len(saved) - 1) \in Seq(0 .. 7)
    BY <2>1, LastSaved
  <2>3. [hpc EXCEPT ![level] = 0] \in [Levels -> Nat]
    BY <1>0
  <2> QED BY <1>0, <1>9, <2>2, <2>3 DEF Rte, LoadSr, Flags
<1> QED
  BY <1>1, <1>2, <1>3, <1>4, <1>5, <1>6, <1>7, <1>8, <1>9 DEF GuestInsn

LEMMA InterruptedType ==
  ASSUME TypeInv, NEW level \in Levels, Interrupted(level)
  PROVE  GuestType'
<1>1. GuestType /\ SetupLen \in Nat /\ mask \in 0 .. 7
  BY TypeParts, CoreAssumption DEF CpuType
<1>2. Append(saved, mask) \in Seq(0 .. 7)
  BY <1>1 DEF GuestType
<1>3. CASE guest = "main"
  BY <1>1, <1>2, <1>3 DEF Interrupted, GuestType
<1>4. CASE guest # "main"
  <2>1. guest' = "boot" /\ step' = 0 /\ saved' = saved /\ hpc' = hpc
    BY <1>4 DEF Interrupted
  <2>2. 0 \in 0 .. SetupLen
    BY <1>1
  <2> QED BY <1>1, <2>1, <2>2 DEF GuestType
<1> QED BY <1>3, <1>4

LEMMA HandlerType ==
  ASSUME TypeOK, NEW t \in Tables, VblPendingHandler(t)
  PROVE  /\ tab' \in Tables
         /\ requested' \in {None} \cup Levels
         /\ spc' \subseteq Flags
<1>1. Acknowledge(t) \in Tables
  BY AcknowledgeType
<1>2. AddAbsolute(Acknowledge(t), PendingDelay, VblPending) \in Tables
  BY <1>1, AddAbsoluteType, TwoHandlers, CoreAssumption
<1>3. AfterTest(Vblank) \in {None} \cup Levels /\ AfterRaise(Vblank) \subseteq Flags
  BY RequestType DEF Levels
<1> QED BY <1>1, <1>2, <1>3 DEF VblPendingHandler

LEMMA DoCyclesType ==
  ASSUME TypeOK, DoCycles
  PROVE  /\ tab' \in Tables
         /\ requested' \in {None} \cup Levels
         /\ spc' \subseteq Flags
<1>1. Charge(tab) \in Tables
  BY ChargeType DEF TypeOK
<1>2. CASE Due(Charge(tab))
  BY <1>1, <1>2, HandlerType DEF DoCycles
<1>3. CASE ~Due(Charge(tab))
  BY <1>1, <1>3 DEF DoCycles, TypeOK
<1> QED BY <1>2, <1>3

LEMMA RaiseType ==
  ASSUME TypeOK
  PROVE  AddAbsolute(tab, PendingDelay, VblPending) \in Tables
BY AddAbsoluteType, TwoHandlers, CoreAssumption DEF TypeOK

LEMMA QuitType ==
  ASSUME TypeOK
  PROVE  AddAbsolute(tab, InsnCycles, IntNull) \in Tables
<1>1. InsnCycles \in Int
  BY TableAssumption
<1> QED BY <1>1, AddAbsoluteType, TwoHandlers DEF TypeOK

LEMMA InitType == Init => TypeInv
<1> SUFFICES ASSUME Init PROVE TypeInv
  OBVIOUS
<1>1. tab \in Tables
  BY InitTableType DEF Init
<1>2. CpuType
  BY DEF Init, CpuType, None
<1>3. HostType
  <2>1. 0 \in 0 .. BufSize - 1
    BY CoreAssumption
  <2>2. [b \in Buffers |-> 0] \in [Buffers -> 0 .. BufSize - 1]
    BY <2>1
  <2> QED BY <2>2 DEF Init, HostType
<1>4. GuestType
  BY CoreAssumption DEF Init, GuestType
<1>5. phase \in Phases /\ iters \in 0 .. PollPeriod - 1
  BY CoreAssumption DEF Init, Phases
<1> QED BY <1>1, <1>2, <1>3, <1>4, <1>5, TypeParts

\* What TypeParts says of the next state.
LEMMA TypePartsNext ==
  ASSUME phase' \in Phases, iters' \in 0 .. PollPeriod - 1, tab' \in Tables,
         CpuType', HostType', GuestType'
  PROVE  TypeInv'
BY DEF TypeInv, TypeOK, CpuType, HostType, GuestType

LEMMA NextType == TypeInv /\ [Next]_vars => TypeInv'
<1> SUFFICES ASSUME TypeInv, [Next]_vars PROVE TypeInv'
  OBVIOUS
<1> USE DEF Phases, StopPhases, VblPhases, Goto
<1>0. /\ phase \in Phases /\ iters \in 0 .. PollPeriod - 1 /\ tab \in Tables
      /\ CpuType /\ HostType /\ GuestType /\ TypeOK
      /\ PollPeriod \in Nat \ {0}
  BY TypeParts, CoreAssumption DEF TypeInv
<1>1. CASE Execute
  <2>1. InsnType'
    BY <1>1, GuestInsnType DEF Execute
  <2>2. HostType'
    BY <1>0, <1>1, <2>1 DEF Execute, HostType, InsnType
  <2> QED BY <1>0, <1>1, <2>1, <2>2, TypePartsNext DEF Execute, InsnType
<1>2. CASE Halt
  BY <1>0, <1>2, TypePartsNext DEF Halt, irqVars, hostVars, guestVars, CpuType, HostType, GuestType
<1>3. CASE Exited \/ UNCHANGED vars
  BY <1>0, <1>3, TypePartsNext
     DEF Exited, vars, irqVars, hostVars, guestVars, CpuType, HostType, GuestType
<1>4. CASE Cycles
  <2>1. tab' \in Tables /\ requested' \in {None} \cup Levels /\ spc' \subseteq Flags
    BY <1>0, <1>4, DoCyclesType DEF Cycles
  <2>2. (iters + 1) % PollPeriod \in 0 .. PollPeriod - 1
    BY <1>0
  <2> QED BY <1>0, <1>4, <2>1, <2>2, TypePartsNext
          DEF Cycles, hostVars, guestVars, CpuType, HostType, GuestType
<1>5. CASE EnterStop \/ StopNoEvents \/ NoPoll \/ SameMillisecond \/ VblDue \/ VblNotDue
  BY <1>0, <1>5, TypePartsNext
     DEF EnterStop, StopNoEvents, NoPoll, SameMillisecond, VblDue, VblNotDue,
         irqVars, hostVars, guestVars, CpuType, HostType, GuestType
<1>6. CASE Deliver \/ StopDeliver
  <2>1. requested \in Levels /\ Interrupted(requested)
    BY <1>0, <1>6 DEF Deliver, StopDeliver, Deliverable, CpuType
  <2>2. GuestType'
    BY <2>1, InterruptedType
  <2>3. CpuType'
    BY <1>6, <2>1 DEF Deliver, StopDeliver, CpuType, Flags, Levels, Vblank, Input
  <2> QED BY <1>0, <1>6, <2>2, <2>3, TypePartsNext
          DEF Deliver, StopDeliver, hostVars, HostType
<1>7. CASE NoDelivery \/ StopNoDelivery
  <2>1. CpuType'
    BY <1>0, <1>7 DEF NoDelivery, StopNoDelivery, CpuType, Flags
  <2> QED BY <1>0, <1>7, <2>1, TypePartsNext
          DEF NoDelivery, StopNoDelivery, AfterStop, hostVars, guestVars, HostType, GuestType
<1>8. CASE StopCycles
  <2>1. tab' \in Tables /\ requested' \in {None} \cup Levels /\ spc' \subseteq Flags
    BY <1>0, <1>8, DoCyclesType DEF StopCycles
  <2> QED BY <1>0, <1>8, <2>1, TypePartsNext
          DEF StopCycles, hostVars, guestVars, CpuType, HostType, GuestType
<1>9. CASE StopEvents
  <2>1. HostType'
    BY <1>0, <1>9, HostEventType DEF StopEvents
  <2>2. PICK cleared \in SUBSET Flags : InputUpdate(cleared)
    BY <1>9 DEF StopEvents, Flags
  <2>3. CpuType'
    BY <1>0, <1>9, <2>2, InputUpdateType DEF StopEvents, CpuType
  <2> QED BY <1>0, <1>9, <2>1, <2>3, TypePartsNext DEF StopEvents, guestVars, GuestType
<1>10. CASE PollEvents \/ VblEvents
  <2>1. HostEvent /\ InputUpdate({})
    BY <1>10 DEF PollEvents, VblEvents, EventHandler
  <2>2. HostType'
    BY <1>0, <2>1, HostEventType
  <2>3. CpuType'
    BY <1>0, <1>10, <2>1, InputUpdateType DEF PollEvents, VblEvents, CpuType
  <2> QED BY <1>0, <1>10, <2>2, <2>3, TypePartsNext
          DEF PollEvents, VblEvents, guestVars, GuestType
<1>11. CASE ColdReset
  <2>1. Reset(tab) \in Tables
    BY <1>0, ResetType
  <2>2. CpuType' /\ HostType'
    BY <1>0, <1>11 DEF ColdReset, CpuType, HostType, Flags
  <2>3. GuestType'
    BY <1>11, CoreAssumption DEF ColdReset, GuestType
  <2> QED BY <1>0, <1>11, <2>1, <2>2, <2>3, TypePartsNext DEF ColdReset
<1>12. CASE OtherShortcut
  <2>1. HostType'
    BY <1>0, <1>12 DEF OtherShortcut, HostType
  <2> QED BY <1>0, <1>12, <2>1, TypePartsNext
          DEF OtherShortcut, irqVars, guestVars, CpuType, GuestType
<1>13. CASE RaiseVbl
  <2>1. tab' \in Tables
    BY <1>0, <1>13, RaiseType DEF RaiseVbl
  <2>2. AfterTest(Vblank) \in {None} \cup Levels /\ AfterRaise(Vblank) \subseteq Flags
    BY <1>0, RequestType DEF Levels
  <2>3. CpuType'
    BY <1>0, <1>13, <2>2 DEF RaiseVbl, CpuType
  <2> QED BY <1>0, <1>13, <2>1, <2>3, TypePartsNext
          DEF RaiseVbl, hostVars, guestVars, HostType, GuestType
<1>14. CASE VblQuit
  <2>1. tab' \in Tables
    BY <1>0, <1>14, QuitType DEF VblQuit
  <2> QED BY <1>0, <1>14, <2>1, TypePartsNext
          DEF VblQuit, hostVars, guestVars, CpuType, HostType, GuestType
<1> QED
  BY <1>1, <1>2, <1>3, <1>4, <1>5, <1>6, <1>7, <1>8, <1>9, <1>10, <1>11,
     <1>12, <1>13, <1>14 DEF Next

(***************************************************************************)
(* The variables of the execution loop keep their types: neither buffer    *)
(* overruns its array, no interrupt of another level is ever requested,    *)
(* and a return from interrupt always finds a frame on the guest's stack.  *)
(***************************************************************************)
THEOREM TypeCorrect == Spec => []TypeOK
<1>1. Init => TypeInv
  BY InitType
<1>2. TypeInv /\ [Next]_vars => TypeInv'
  BY NextType
<1>3. TypeInv => TypeOK
  BY DEF TypeInv
<1> QED BY <1>1, <1>2, <1>3, PTL DEF Spec

-----------------------------------------------------------------------------
(* No request is left unseen. *)

LEMMA RaiseSeen ==
  ASSUME RequestSeen, NEW level,
         requested' = AfterTest(level), AfterRaise(level) \ {"STOP"} \subseteq spc',
         guest' = guest
  PROVE  RequestSeen'
BY DEF RequestSeen, AfterTest, AfterRaise

LEMMA UpdateSeen ==
  ASSUME RequestSeen, NEW cleared \in SUBSET {"STOP"}, InputUpdate(cleared), guest' = guest
  PROVE  RequestSeen'
<1>1. CASE Waiting(queued', moved')
  BY <1>1, RaiseSeen DEF InputUpdate
<1>2. CASE ~Waiting(queued', moved')
  BY <1>2 DEF InputUpdate, RequestSeen
<1> QED BY <1>1, <1>2

LEMMA DoCyclesSeen ==
  ASSUME RequestSeen, DoCycles, guest' = guest
  PROVE  RequestSeen'
<1>1. CASE Due(Charge(tab))
  BY <1>1, RaiseSeen DEF DoCycles, VblPendingHandler
<1>2. CASE ~Due(Charge(tab))
  BY <1>2 DEF DoCycles, RequestSeen
<1> QED BY <1>1, <1>2

LEMMA NextSeen ==
  ASSUME RequestSeen, [Next]_vars
  PROVE  RequestSeen'
<1>1. CASE Execute
  <2>1. CASE \/ EnableInterrupts
             \/ \E m \in SrMasks : MoveToSr(m) \/ StopInsn(m)
             \/ \E level \in Levels : Rte(level)
    BY <2>1 DEF EnableInterrupts, MoveToSr, StopInsn, Rte, LoadSr, RequestSeen
  <2>2. CASE ResetInsn
    BY <2>2 DEF ResetInsn, RequestSeen
  <2>3. CASE SetupInsn
    BY <2>3 DEF SetupInsn, RequestSeen
  <2>4. CASE OrdinaryInsn \/ GetMouseInput \/ GetKeyboardEvent \/ VblankInsn
    BY <2>4 DEF OrdinaryInsn, GetMouseInput, GetKeyboardEvent, VblankInsn, guestVars, RequestSeen
  <2> QED BY <1>1, <2>1, <2>2, <2>3, <2>4 DEF Execute, GuestInsn
<1>2. CASE \/ Halt \/ Exited \/ UNCHANGED vars \/ EnterStop \/ StopNoEvents
           \/ NoPoll \/ SameMillisecond \/ VblDue \/ VblNotDue \/ OtherShortcut \/ VblQuit
  BY <1>2 DEF Halt, Exited, EnterStop, StopNoEvents, NoPoll, SameMillisecond, VblDue,
              VblNotDue, OtherShortcut, VblQuit, vars, irqVars, guestVars, RequestSeen
<1>3. CASE Cycles \/ StopCycles
  BY <1>3, DoCyclesSeen DEF Cycles, StopCycles, guestVars
<1>4. CASE Deliver \/ StopDeliver
  BY <1>4 DEF Deliver, StopDeliver, RequestSeen
<1>5. CASE NoDelivery \/ StopNoDelivery
  BY <1>5 DEF NoDelivery, StopNoDelivery, guestVars, RequestSeen
<1>6. CASE StopEvents
  <2>1. PICK cleared \in SUBSET {"STOP"} : InputUpdate(cleared)
    BY <1>6 DEF StopEvents
  <2> QED BY <1>6, <2>1, UpdateSeen DEF StopEvents, guestVars
<1>7. CASE PollEvents \/ VblEvents
  BY <1>7, UpdateSeen DEF PollEvents, VblEvents, EventHandler, guestVars
<1>8. CASE ColdReset
  BY <1>8 DEF ColdReset, RequestSeen
<1>9. CASE RaiseVbl
  BY <1>9, RaiseSeen DEF RaiseVbl, guestVars
<1> QED
  BY <1>1, <1>2, <1>3, <1>4, <1>5, <1>6, <1>7, <1>8, <1>9 DEF Next

(***************************************************************************)
(* A request is only ever left where do_specialties will look at it, or    *)
(* where a cold reset left it for the guest's first instruction: every     *)
(* path that notes a request, changes the mask or clears the flags agrees. *)
(***************************************************************************)
THEOREM RequestsSeen == Spec => []RequestSeen
<1>1. Init => RequestSeen
  BY DEF Init, RequestSeen
<1>2. RequestSeen /\ [Next]_vars => RequestSeen'
  BY NextSeen
<1> QED BY <1>1, <1>2, PTL DEF Spec

-----------------------------------------------------------------------------
(* The guest's handlers nest. *)

NestInv == TypeInv /\ Nesting

\* With nothing on the guest's stack no handler is under way.
LEMMA EmptyStack ==
  ASSUME TypeInv, saved = << >>, Nesting
  PROVE  \A level \in Levels : hpc[level] = 0
BY DEF Nesting, ActiveLevels

LEMMA NoFrames ==
  ASSUME saved' = << >>, \A level \in Levels : hpc'[level] = 0
  PROVE  Nesting'
<1>1. Len(saved') = 0 /\ \A i \in 2 .. Len(saved') : FALSE
  BY DEF Levels
<1> QED BY <1>1 DEF Nesting

\* Handing the guest an interrupt.
LEMMA DeliveryNests ==
  ASSUME TypeInv, Nesting, NEW level \in Levels, mask < level,
         Interrupted(level), mask' = level
  PROVE  Nesting'
<1>0. saved \in Seq(0 .. 7) /\ mask \in 0 .. 7 /\ level \in {4, 5} /\ hpc \in [Levels -> Nat]
  BY DEF TypeInv, TypeOK, Levels, Vblank, Input
<1>1. CASE guest # "main"
  <2>1. saved = << >>
    BY <1>1 DEF Nesting
  <2>2. saved' = << >> /\ hpc' = hpc
    BY <1>1, <2>1 DEF Interrupted
  <2> QED BY <2>1, <2>2, EmptyStack, NoFrames
<1>2. CASE guest = "main"
  <2> DEFINE n == Len(saved)
             s == Append(saved, mask)
  <2>1. saved' = s /\ guest' = guest /\ hpc' = hpc
    BY <1>2 DEF Interrupted
  <2>2. n \in Nat /\ Len(s) = n + 1 /\ s[n + 1] = mask /\ \A i \in 1 .. n : s[i] = saved[i]
    BY <1>0
  <2>3. s # << >>
    BY <2>2, <1>0
  <2>4. saved # << >> => mask \in Levels /\ saved[n] < mask
    BY DEF Nesting
  <2>5. saved # << >> <=> n > 0
    BY <1>0
  <2> HIDE DEF n, s
  <2>6. ASSUME NEW i \in 2 .. n + 1 PROVE s[i] = Vblank /\ s[i - 1] < s[i]
    <3>1. CASE i = n + 1
      <4>1. n > 0 /\ n \in 1 .. n /\ i - 1 = n
        BY <3>1, <2>2
      <4>2. mask \in Levels /\ saved[n] < mask
        BY <4>1, <2>4, <2>5
      <4>3. mask = Vblank
        BY <4>2, <1>0 DEF Levels, Vblank, Input
      <4> QED BY <3>1, <4>1, <4>2, <4>3, <2>2
    <3>2. CASE i # n + 1
      <4>1. i \in 2 .. n /\ i \in 1 .. n /\ i - 1 \in 1 .. n
        BY <3>2, <2>2
      <4>2. saved[i] = Vblank /\ saved[i - 1] < saved[i]
        BY <4>1 DEF Nesting, n
      <4> QED BY <4>1, <4>2, <2>2
    <3> QED BY <3>1, <3>2
  <2>7. ASSUME NEW k \in Levels, hpc[k] # 0 PROVE \E i \in 2 .. n + 1 : s[i] = k
    <3>1. k \in ActiveLevels
      BY <2>7 DEF Nesting
    <3>2. saved # << >> /\ (mask = k \/ \E i \in 2 .. n : saved[i] = k)
      BY <3>1 DEF ActiveLevels, n
    <3>3. n > 0 /\ n + 1 \in 2 .. n + 1
      BY <3>2, <2>5, <2>2
    <3>4. CASE mask = k
      BY <3>4, <3>3, <2>2
    <3>5. CASE \E i \in 2 .. n : saved[i] = k
      <4>1. PICK i \in 2 .. n : saved[i] = k
        BY <3>5
      <4>2. i \in 1 .. n /\ i \in 2 .. n + 1
        BY <2>2
      <4> QED BY <4>1, <4>2, <2>2
    <3> QED BY <3>2, <3>4, <3>5
  <2>8. level \in Levels /\ s[n + 1] < level
    BY <2>2
  <2> QED BY <1>2, <2>1, <2>2, <2>3, <2>6, <2>7, <2>8 DEF Nesting, ActiveLevels
<1> QED BY <1>1, <1>2

\* Returning from one.
LEMMA ReturnNests ==
  ASSUME TypeInv, Nesting, NEW level \in Levels, Rte(level)
  PROVE  Nesting'
<1> DEFINE n == Len(saved)
           s == SubSeq(saved, 1, n - 1)
<1>0. /\ saved \in Seq(0 .. 7) /\ saved # << >> /\ mask = level
      /\ mask' = saved[n] /\ saved' = s /\ guest' = guest
      /\ hpc' = [hpc EXCEPT ![level] = 0] /\ hpc \in [Levels -> Nat]
  BY DEF TypeInv, TypeOK, Rte, InHandler, LoadSr
<1>1. /\ n \in Nat \ {0} /\ Len(s) = n - 1 /\ s \in Seq(0 .. 7)
      /\ \A i \in 1 .. n - 1 : s[i] = saved[i]
  BY <1>0, LastSaved
<1>2. s # << >> <=> n - 1 > 0
  <2> HIDE DEF s, n
  <2>1. s = << >> <=> Len(s) = 0
    BY <1>1
  <2> QED BY <1>1, <2>1
<1>3. guest = "main" /\ \A i \in 2 .. n : saved[i] = Vblank /\ saved[i - 1] < saved[i]
  BY <1>0 DEF Nesting
<1>4. \A k \in Levels : hpc[k] # 0 => mask = k \/ \E i \in 2 .. n : saved[i] = k
  BY DEF Nesting, ActiveLevels
<1> HIDE DEF n, s
<1>5. ASSUME s # << >>
      PROVE  saved[n] \in Levels /\ s[n - 1] < saved[n]
  <2>1. n \in 2 .. n /\ n - 1 \in 1 .. n - 1
    BY <1>5, <1>2, <1>1
  <2> QED BY <2>1, <1>3, <1>1 DEF Levels
<1>6. ASSUME NEW i \in 2 .. n - 1 PROVE s[i] = Vblank /\ s[i - 1] < s[i]
  <2>1. i \in 2 .. n /\ i \in 1 .. n - 1 /\ i - 1 \in 1 .. n - 1
    BY <1>1
  <2> QED BY <2>1, <1>3, <1>1
<1>7. ASSUME NEW k \in Levels, hpc'[k] # 0
      PROVE  s # << >> /\ (saved[n] = k \/ \E i \in 2 .. n - 1 : s[i] = k)
  <2>1. k # level /\ hpc[k] # 0
    BY <1>0, <1>7
  <2>2. PICK i \in 2 .. n : saved[i] = k
    BY <2>1, <1>0, <1>4
  <2>3. n - 1 > 0
    BY <1>1
  <2>4. CASE i = n
    BY <2>2, <2>3, <2>4, <1>2
  <2>5. CASE i # n
    <3>1. i \in 2 .. n - 1 /\ i \in 1 .. n - 1
      BY <2>5, <1>1
    <3> QED BY <3>1, <2>2, <2>3, <1>1, <1>2
  <2> QED BY <2>4, <2>5
<1> QED BY <1>0, <1>1, <1>3, <1>5, <1>6, <1>7 DEF Nesting, ActiveLevels

\* A step of a handler.
LEMMA HandlerNests ==
  ASSUME TypeInv, Nesting, NEW level \in Levels, InHandler(level), NEW v \in Nat,
         hpc' = [hpc EXCEPT ![level] = v],
         UNCHANGED <<guest, saved, mask>>
  PROVE  Nesting'
<1>1. hpc \in [Levels -> Nat]
  BY DEF TypeInv, TypeOK
<1>2. level \in ActiveLevels
  BY DEF InHandler, ActiveLevels
<1>3. \A k \in Levels : hpc'[k] # 0 => k \in ActiveLevels
  BY <1>1, <1>2 DEF Nesting
<1>4. ActiveLevels' = ActiveLevels
  BY DEF ActiveLevels
<1> QED BY <1>3, <1>4 DEF Nesting

\* Everything else leaves the stack alone, and the mask unless it is empty.
LEMMA NothingNests ==
  ASSUME TypeInv, Nesting, UNCHANGED <<saved, hpc>>,
         \/ saved = << >>
         \/ UNCHANGED <<mask, guest>>
  PROVE  Nesting'
<1>1. CASE saved = << >>
  BY <1>1, EmptyStack, NoFrames
<1>2. CASE UNCHANGED <<mask, guest>>
  <2>1. ActiveLevels' = ActiveLevels
    BY <1>2 DEF ActiveLevels
  <2> QED BY <1>2, <2>1 DEF Nesting
<1> QED BY <1>1, <1>2

LEMMA InsnNests ==
  ASSUME TypeInv, Nesting, GuestInsn
  PROVE  Nesting'
<1>0. guest # "main" => saved = << >>
  BY DEF Nesting
<1>1. CASE EnableInterrupts \/ SetupInsn
  BY <1>0, <1>1, NothingNests DEF EnableInterrupts, SetupInsn
<1>2. CASE OrdinaryInsn \/ ResetInsn \/ \E m \in SrMasks : MoveToSr(m) \/ StopInsn(m)
  BY <1>2, NothingNests DEF OrdinaryInsn, ResetInsn, MoveToSr, StopInsn, guestVars
<1>3. CASE GetMouseInput
  BY <1>3, HandlerNests DEF GetMouseInput, Levels
<1>4. CASE GetKeyboardEvent
  BY <1>4, HandlerNests DEF GetKeyboardEvent, Levels
<1>5. CASE VblankInsn
  <2>1. hpc[Vblank] + 1 \in Nat /\ Vblank \in Levels
    BY DEF TypeInv, TypeOK, Levels
  <2> QED BY <1>5, <2>1, HandlerNests DEF VblankInsn
<1>6. CASE \E level \in Levels : Rte(level)
  BY <1>6, ReturnNests
<1> QED BY <1>1, <1>2, <1>3, <1>4, <1>5, <1>6 DEF GuestInsn

LEMMA NextNests ==
  ASSUME TypeInv, Nesting, [Next]_vars
  PROVE  Nesting'
<1>1. CASE Execute
  BY <1>1, InsnNests DEF Execute
<1>2. CASE Deliver \/ StopDeliver
  <2>1. requested \in Levels /\ mask < requested
    BY <1>2 DEF Deliver, StopDeliver, Deliverable, TypeInv, TypeOK, Levels, None, Vblank, Input
  <2> QED BY <1>2, <2>1, DeliveryNests DEF Deliver, StopDeliver
<1>3. CASE ColdReset
  <2>1. saved' = << >> /\ \A level \in Levels : hpc'[level] = 0
    BY <1>3 DEF ColdReset
  <2> QED BY <2>1, NoFrames
<1>4. CASE \/ Halt \/ Exited \/ UNCHANGED vars \/ EnterStop \/ StopNoEvents
           \/ NoPoll \/ SameMillisecond \/ VblDue \/ VblNotDue \/ OtherShortcut
  BY <1>4, NothingNests
     DEF Halt, Exited, EnterStop, StopNoEvents, NoPoll, SameMillisecond, VblDue,
         VblNotDue, OtherShortcut, vars, irqVars, guestVars
<1>5. CASE \/ Cycles \/ NoDelivery \/ StopCycles \/ StopEvents \/ StopNoDelivery
           \/ PollEvents \/ RaiseVbl \/ VblEvents \/ VblQuit
  BY <1>5, NothingNests
     DEF Cycles, NoDelivery, StopCycles, StopEvents, StopNoDelivery, PollEvents,
         RaiseVbl, VblEvents, VblQuit, guestVars
<1> QED BY <1>1, <1>2, <1>3, <1>4, <1>5 DEF Next

(***************************************************************************)
(* The guest's handlers nest strictly by priority, whatever masks the      *)
(* guest's main program loads and whenever it is reset: its stack never    *)
(* holds more than one frame per interrupt level.                          *)
(***************************************************************************)
THEOREM HandlersNest == Spec => []Nesting
<1>1. Init => NestInv
  <2>1. ASSUME Init PROVE Nesting
    <3>1. saved = << >> /\ \A level \in Levels : hpc[level] = 0
      BY <2>1 DEF Init
    <3>2. \A i \in 2 .. Len(saved) : FALSE
      BY <3>1
    <3> QED BY <3>1, <3>2 DEF Nesting
  <2> QED BY <2>1, InitType DEF NestInv
<1>2. NestInv /\ [Next]_vars => NestInv'
  BY NextType, NextNests DEF NestInv
<1>3. NestInv => Nesting
  BY DEF NestInv
<1> QED BY <1>1, <1>2, <1>3, PTL DEF Spec

-----------------------------------------------------------------------------
(* A deferred VBL is kept. *)

(***************************************************************************)
(* RetryKept alone is not inductive: it needs that nothing is carried over *)
(* when no timer runs, that the timer of bQuitProgram only ever runs in    *)
(* the loop's last step, and that a cold reset masks all interrupts before *)
(* the VBL handler arms the timer whose table it has half forgotten.       *)
(***************************************************************************)
TableInv ==
  /\ tab.over = 0
  /\ tab.used[0] => quit /\ phase \in {"exec", "halted"}
  /\ ~tab.used[0] => \/ phase = "raise" /\ mask = 7 /\ ~tab.used[1]
                     \/ Settled(tab)

RetryInv == TypeInv /\ TableInv

\* Where no timer of bQuitProgram runs and no reset is half done.
LEMMA DoCyclesSettles ==
  ASSUME TypeOK, TableInv, phase \notin {"exec", "halted", "raise"}, DoCycles
  PROVE  tab'.over = 0 /\ ~tab'.used[0] /\ Settled(tab')
<1> DEFINE c == Charge(tab)
<1>0. tab \in Tables /\ tab.over = 0 /\ ~tab.used[0] /\ Settled(tab)
  BY DEF TypeOK, TableInv
<1>1. /\ c \in Tables /\ c.over = 0 /\ ~c.used[0]
      /\ Due(c) => c.count = 0 /\ c.active = 1
      /\ ~Due(c) => Settled(c)
  BY <1>0, Charged
<1> HIDE DEF c
<1>2. CASE ~Due(c)
  BY <1>1, <1>2 DEF DoCycles, c
<1>3. CASE Due(c)
  <2> DEFINE a == Acknowledge(c)
  <2>1. a \in Tables /\ a.over = 0 /\ ~a.used[0] /\ Settled(a)
    BY <1>1, <1>3, Acknowledged, AcknowledgeType
  <2>2. tab' = IF CanRaise(Vblank) THEN a ELSE AddAbsolute(a, PendingDelay, VblPending)
    BY <1>3 DEF DoCycles, VblPendingHandler, c
  <2> HIDE DEF a
  <2> QED BY <2>1, <2>2, ArmedBy
<1> QED BY <1>2, <1>3

LEMMA SettledInv ==
  ASSUME tab'.over = 0, ~tab'.used[0], Settled(tab')
  PROVE  TableInv'
BY DEF TableInv

\* The table untouched by a step that neither starts nor ends a reset.
LEMMA TableUntouched ==
  ASSUME TypeOK, TableInv, tab' = tab, phase # "raise", phase' # "raise",
         tab.used[0] => quit' /\ phase' \in {"exec", "halted"}
  PROVE  TableInv'
BY DEF TableInv, Settled, Armed

LEMMA NextTable ==
  ASSUME TypeInv, TableInv, [Next]_vars
  PROVE  TableInv'
<1>0. TypeOK /\ tab \in Tables
  BY DEF TypeInv, TypeOK
<1>00. phase \notin {"exec", "halted"} => ~tab.used[0]
  BY DEF TableInv
<1>1. CASE Execute
  <2>1. ~tab.used[0]
    BY <1>1 DEF Execute, TableInv
  <2> QED BY <1>0, <1>1, <2>1, TableUntouched DEF Execute, Goto
<1>2. CASE Halt \/ Exited
  BY <1>0, <1>2, TableUntouched DEF Halt, Exited, Goto, vars, irqVars, hostVars, TableInv
<1>3. CASE UNCHANGED vars
  BY <1>3 DEF vars, irqVars, hostVars, TableInv, Settled, Armed
<1>4. CASE Cycles \/ StopCycles
  BY <1>0, <1>4, DoCyclesSettles, SettledInv DEF Cycles, StopCycles
<1>5. CASE \/ EnterStop \/ Deliver \/ NoDelivery \/ StopEvents \/ StopNoEvents
           \/ StopDeliver \/ StopNoDelivery \/ NoPoll \/ PollEvents \/ SameMillisecond
           \/ VblDue \/ VblNotDue \/ VblEvents
  <2>1. tab' = tab /\ phase \notin {"exec", "halted", "raise"} /\ phase' # "raise"
    BY <1>5 DEF EnterStop, Deliver, NoDelivery, StopEvents, StopNoEvents, StopDeliver,
                StopNoDelivery, NoPoll, PollEvents, SameMillisecond, VblDue, VblNotDue,
                VblEvents, Goto, AfterStop, irqVars
  <2> QED BY <1>0, <1>00, <2>1, TableUntouched
<1>6. CASE ColdReset
  <2>1. /\ tab' = Reset(tab) /\ mask' = 7 /\ phase' = "raise"
    BY <1>6 DEF ColdReset, Goto
  <2>2. Reset(tab).over = 0 /\ ~Reset(tab).used[0] /\ ~Reset(tab).used[1]
    BY <1>0, TwoHandlers DEF Reset, Tables
  <2> QED BY <2>1, <2>2 DEF TableInv
<1>7. CASE OtherShortcut
  <2>1. tab' = tab /\ phase = "vbl"
    BY <1>7 DEF OtherShortcut, irqVars
  <2>2. tab.over = 0 /\ ~tab.used[0] /\ Settled(tab)
    BY <2>1 DEF TableInv
  <2> QED BY <2>1, <2>2, SettledInv
<1>8. CASE RaiseVbl
  <2>0. /\ phase = "raise" /\ tab.over = 0 /\ ~tab.used[0]
        /\ (mask = 7 /\ ~tab.used[1]) \/ Settled(tab)
        /\ tab' = IF CanRaise(Vblank) \/ tab.used[1]
                  THEN tab ELSE AddAbsolute(tab, PendingDelay, VblPending)
    BY <1>8 DEF RaiseVbl, TableInv, InterruptActive, VblPending
  <2>1. CASE CanRaise(Vblank) \/ tab.used[1]
    <3>1. mask = 7 => ~CanRaise(Vblank)
      BY DEF CanRaise, Vblank
    <3> QED BY <2>0, <2>1, <3>1, SettledInv
  <2>2. CASE ~(CanRaise(Vblank) \/ tab.used[1])
    BY <1>0, <2>0, <2>2, ArmedBy, SettledInv
  <2> QED BY <2>1, <2>2
<1>9. CASE VblQuit
  <2>1. phase = "vblQuit" /\ phase' = "exec" /\ quit' = quit
    BY <1>9 DEF VblQuit, Goto, hostVars
  <2>2. CASE ~quit
    BY <1>0, <1>00, <1>9, <2>1, <2>2, TableUntouched DEF VblQuit
  <2>3. CASE quit
    <3>1. tab' = AddAbsolute(tab, InsnCycles, IntNull)
      BY <1>9, <2>3 DEF VblQuit
    <3>2. tab.over = 0
      BY DEF TableInv
    <3>3. tab'.over = 0 /\ tab'.used[0]
      BY <1>0, <3>1, <3>2, TwoHandlers DEF AddAbsolute, SetNew, Tables, IntNull
    <3> QED BY <2>1, <2>3, <3>3 DEF TableInv
  <2> QED BY <2>2, <2>3
<1> QED
  BY <1>1, <1>2, <1>3, <1>4, <1>5, <1>6, <1>7, <1>8, <1>9 DEF Next

(***************************************************************************)
(* A VBL the guest does not let through is tried again within PendingDelay *)
(* cycles, for every delay that is a whole number of instructions: no path *)
(* leaves its timer armed without being the one that is counted down.      *)
(***************************************************************************)
THEOREM RetriesKept == Spec => []RetryKept
<1>1. Init => RetryInv
  <2>1. ASSUME Init PROVE TableInv
    BY <2>1, TwoHandlers DEF Init, InitTable, TableInv, Settled
  <2> QED BY <2>1, InitType DEF RetryInv
<1>2. RetryInv /\ [Next]_vars => RetryInv'
  BY NextType, NextTable DEF RetryInv
<1>3. RetryInv => RetryKept
  BY DEF RetryInv, TableInv, RetryKept, Settled, Armed, IntNull, VblPending
<1> QED BY <1>1, <1>2, <1>3, PTL DEF Spec

-----------------------------------------------------------------------------
(* A deferred VBL is tried again in time. *)

\* do_cycles takes an instruction from the timer, or tries the VBL.
LEMMA DoCyclesCounts ==
  ASSUME TypeOK, TableInv, phase \notin {"exec", "halted", "raise"}, DoCycles
  PROVE  /\ ~tab.used[0] /\ ~tab'.used[0]
         /\ ~tab.used[1] => ~tab'.used[1]
         /\ tab.used[1] =>
              \/ /\ tab.count > InsnCycles
                 /\ tab'.used[1] /\ tab'.count = tab.count - InsnCycles
              \/ /\ tab.count = InsnCycles
                 /\ CanRaise(Vblank) => ~tab'.used[1]
                 /\ ~CanRaise(Vblank) => tab'.used[1] /\ tab'.count = PendingDelay
<1> DEFINE c == Charge(tab)
<1>0. /\ tab \in Tables /\ tab.over = 0 /\ ~tab.used[0] /\ Settled(tab)
      /\ tab.count \in Int /\ InsnCycles \in Int
  BY TableFields, TableAssumption DEF TypeOK, TableInv
<1>1. /\ c \in Tables /\ c.over = 0 /\ ~c.used[0] /\ c.used = tab.used
      /\ Due(c) => c.count = 0 /\ c.active = 1
      /\ ~tab.used[1] => ~Due(c)
      /\ tab.used[1] => /\ c.count = tab.count - InsnCycles
                        /\ Due(c) <=> tab.count = InsnCycles
                        /\ tab.count >= InsnCycles
  BY <1>0, Charged
<1>2. ~tab'.used[0]
  BY DoCyclesSettles
<1> HIDE DEF c
<1>3. CASE ~Due(c)
  <2>1. tab' = c
    BY <1>3 DEF DoCycles, c
  <2> QED BY <1>0, <1>1, <1>2, <1>3, <2>1
<1>4. CASE Due(c)
  <2> DEFINE a == Acknowledge(c)
  <2>1. a \in Tables /\ a.over = 0 /\ ~a.used[0] /\ ~a.used[1]
    BY <1>1, <1>4, Acknowledged, AcknowledgeType
  <2>2. tab' = IF CanRaise(Vblank) THEN a ELSE AddAbsolute(a, PendingDelay, VblPending)
    BY <1>4 DEF DoCycles, VblPendingHandler, c
  <2>3. tab.used[1] /\ tab.count = InsnCycles
    BY <1>1, <1>4
  <2> HIDE DEF a
  <2> QED BY <1>0, <1>2, <2>1, <2>2, <2>3, ArmedBy
<1> QED BY <1>3, <1>4

Charging == phase \in {"cycles", "stopCycles"}

\* A step that keeps the table and is not about to defer a VBL.
LEMMA LeftKept ==
  ASSUME tab' = tab, phase # "raise", phase' # "raise"
  PROVE  Left' = Left
BY DEF Left

LEMMA NextRetries ==
  ASSUME RetryInv, RetryInv', [Next]_vars
  PROVE  [Retry!Next]_(Retry!vars)
<1>0. /\ TypeOK /\ TableInv /\ TableInv' /\ tab \in Tables /\ tab.count \in Int
      /\ PendingDelay \in Nat \ {0} /\ InsnCycles \in Nat \ {0}
      /\ NotDeferred \in Int /\ NotDeferred < 0
      /\ VblPending = 1 /\ IntNull = 0
  BY TableFields, TableAssumption, CoreAssumption
     DEF RetryInv, TypeInv, TypeOK, NotDeferred, VblPending, IntNull
<1>00. phase \notin {"exec", "halted", "raise"} => ~tab.used[0] /\ Settled(tab)
  BY <1>0 DEF TableInv
<1>1. CASE Execute \/ EnterStop
  <2>1. /\ ~Charging /\ Charging' /\ tab' = tab
        /\ phase # "raise" /\ phase' # "raise"
    BY <1>1 DEF Execute, EnterStop, Goto, Charging, irqVars
  <2> QED BY <2>1, LeftKept DEF Retry!Next, Retry!Instruction, Charging
<1>2. CASE Cycles \/ StopCycles
  <2>1. /\ Charging /\ ~Charging' /\ DoCycles
        /\ phase \notin {"exec", "halted", "raise"} /\ phase' # "raise"
    BY <1>2 DEF Cycles, StopCycles, Goto, Charging
  <2>2. /\ ~tab.used[0] /\ ~tab'.used[0]
        /\ ~tab.used[1] => ~tab'.used[1]
        /\ tab.used[1] =>
             \/ /\ tab.count > InsnCycles
                /\ tab'.used[1] /\ tab'.count = tab.count - InsnCycles
             \/ /\ tab.count = InsnCycles
                /\ CanRaise(Vblank) => ~tab'.used[1]
                /\ ~CanRaise(Vblank) => tab'.used[1] /\ tab'.count = PendingDelay
    BY <1>0, <2>1, DoCyclesCounts
  <2>3. /\ Left = IF tab.used[1] THEN tab.count ELSE NotDeferred
        /\ Left' = IF tab'.used[1] THEN tab'.count ELSE NotDeferred
    BY <1>0, <2>1, <2>2 DEF Left, NotDeferred, IntNull, VblPending
  <2>4. tab.used[1] => Left # NotDeferred
    BY <1>0, <2>2, <2>3
  <2>5. Retry!Charge
    BY <1>0, <2>1, <2>2, <2>3, <2>4 DEF Retry!Charge, Retry!Try, Charging
  <2> QED BY <2>5 DEF Retry!Next
<1>3. CASE StopNoDelivery
  <2>1. /\ ~Charging /\ tab' = tab /\ phase # "raise" /\ phase' # "raise"
    BY <1>3 DEF StopNoDelivery, Goto, AfterStop, Charging
  <2>2. CASE Charging'
    BY <2>1, <2>2, LeftKept DEF Retry!Next, Retry!Instruction, Charging
  <2>3. CASE ~Charging'
    BY <2>1, <2>3, LeftKept DEF Retry!vars, Charging
  <2> QED BY <2>2, <2>3
<1>4. CASE \/ Halt \/ Exited \/ Deliver \/ NoDelivery \/ StopEvents \/ StopNoEvents
           \/ StopDeliver \/ NoPoll \/ PollEvents \/ SameMillisecond
           \/ VblDue \/ VblNotDue \/ VblEvents
  <2>1. /\ ~Charging /\ ~Charging' /\ tab' = tab /\ phase # "raise" /\ phase' # "raise"
    BY <1>4 DEF Halt, Exited, Deliver, NoDelivery, StopEvents, StopNoEvents, StopDeliver,
                NoPoll, PollEvents, SameMillisecond, VblDue, VblNotDue, VblEvents,
                Goto, Charging, vars, irqVars
  <2> QED BY <2>1, LeftKept DEF Retry!vars, Charging
<1>5. CASE UNCHANGED vars
  <2>1. tab' = tab /\ phase' = phase /\ mask' = mask /\ requested' = requested
    BY <1>5 DEF vars, irqVars
  <2> QED BY <2>1 DEF Retry!vars, Left, CanRaise
<1>6. CASE ColdReset
  <2>1. /\ phase = "vbl" /\ phase' = "raise" /\ mask' = 7 /\ tab' = Reset(tab)
        /\ shortcut = "reset" /\ shortcut' = "none"
    BY <1>6 DEF ColdReset, Goto
  <2>2. ~tab'.used[1]
    BY <1>0, <2>1, TwoHandlers DEF Reset, Tables
  <2>3. ~CanRaise(Vblank)'
    BY <2>1 DEF CanRaise, Vblank
  <2>4. Left' = PendingDelay
    BY <1>0, <2>1, <2>2, <2>3 DEF Left
  <2>5. Retry!ColdReset
    BY <2>1, <2>3, <2>4 DEF Retry!ColdReset
  <2> QED BY <2>5 DEF Retry!Next
<1>7. CASE OtherShortcut
  <2>1. /\ phase = "vbl" /\ phase' = "raise"
        /\ tab' = tab /\ mask' = mask /\ requested' = requested /\ ~tab.used[0]
    BY <1>00, <1>7 DEF OtherShortcut, Goto, irqVars
  <2>2. CASE tab.used[1] \/ CanRaise(Vblank)'
    <3>1. Left' = Left
      BY <1>0, <2>1, <2>2 DEF Left, CanRaise
    <3> QED BY <2>1, <3>1 DEF Retry!vars
  <2>3. CASE ~tab.used[1] /\ ~CanRaise(Vblank)'
    <3>1. Left = NotDeferred /\ Left' = PendingDelay
      BY <1>0, <2>1, <2>3 DEF Left
    <3>2. Retry!Defer
      BY <2>1, <2>3, <3>1 DEF Retry!Defer
    <3> QED BY <3>2 DEF Retry!Next
  <2> QED BY <2>2, <2>3
<1>8. CASE RaiseVbl
  <2>1. /\ phase = "raise" /\ phase' = "vblEvents" /\ ~tab.used[0] /\ tab.over = 0
        /\ tab' = IF CanRaise(Vblank) \/ tab.used[1]
                  THEN tab ELSE AddAbsolute(tab, PendingDelay, VblPending)
    BY <1>0, <1>8 DEF RaiseVbl, Goto, TableInv, InterruptActive
  <2>2. CASE CanRaise(Vblank) \/ tab.used[1]
    <3>1. Left' = Left
      BY <1>0, <2>1, <2>2 DEF Left
    <3> QED BY <2>1, <3>1 DEF Retry!vars
  <2>3. CASE ~(CanRaise(Vblank) \/ tab.used[1])
    <3>1. tab'.used[1] /\ ~tab'.used[0] /\ tab'.count = PendingDelay
      BY <1>0, <2>1, <2>3, ArmedBy
    <3>2. Left' = PendingDelay /\ Left = PendingDelay
      BY <1>0, <2>1, <2>3, <3>1 DEF Left
    <3> QED BY <2>1, <3>2 DEF Retry!vars
  <2> QED BY <2>2, <2>3
<1>9. CASE VblQuit
  <2>1. phase = "vblQuit" /\ phase' = "exec" /\ tab.over = 0
    BY <1>0, <1>9 DEF VblQuit, Goto, TableInv
  <2>2. CASE ~quit
    <3>1. tab' = tab
      BY <1>9, <2>2 DEF VblQuit
    <3> QED BY <2>1, <3>1, LeftKept DEF Retry!vars
  <2>3. CASE quit
    <3>1. tab' = AddAbsolute(tab, InsnCycles, IntNull)
      BY <1>9, <2>3 DEF VblQuit
    <3>2. tab'.used[0]
      BY <1>0, <2>1, <3>1, TwoHandlers DEF AddAbsolute, SetNew, Tables
    <3>3. Left' = NotDeferred
      BY <1>0, <2>1, <3>2 DEF Left
    <3>4. Retry!Quit
      BY <2>1, <2>3, <3>3 DEF Retry!Quit
    <3> QED BY <3>4 DEF Retry!Next
  <2> QED BY <2>2, <2>3
<1> QED
  BY <1>1, <1>2, <1>3, <1>4, <1>5, <1>6, <1>7, <1>8, <1>9 DEF Next

(***************************************************************************)
(* A deferred VBL is tried exactly every PendingDelay cycles, for every    *)
(* delay that is a whole number of instructions, width of the count and    *)
(* guest: the shared count, the overshoot carried from one try to the next *)
(* and the table a cold reset half forgets implement RetryTimer.           *)
(***************************************************************************)
THEOREM RetriesOnTime == Spec => KeepsTime
<1>1. Init => RetryInv /\ Retry!Init
  <2> SUFFICES ASSUME Init PROVE RetryInv /\ Retry!Init
    OBVIOUS
  <2>1. TableInv
    BY TwoHandlers DEF Init, InitTable, TableInv, Settled
  <2>2. phase = "exec" /\ ~tab.used[1]
    BY TwoHandlers DEF Init, InitTable
  <2>3. Retry!Init
    BY <2>2 DEF Retry!Init, Left, VblPending
  <2> QED BY <2>1, <2>3, InitType DEF RetryInv
<1>2. RetryInv /\ [Next]_vars => RetryInv'
  BY NextType, NextTable DEF RetryInv
<1>3. RetryInv /\ RetryInv' /\ [Next]_vars => [Retry!Next]_(Retry!vars)
  BY NextRetries
<1> QED BY <1>1, <1>2, <1>3, PTL DEF Spec, KeepsTime, Retry!Spec

-----------------------------------------------------------------------------
(* No VBL is lost unnoticed.                                               *)

LEMMA UsedByAdding ==
  ASSUME NEW t \in Tables, NEW n \in Int, NEW h \in Handlers
  PROVE  AddAbsolute(t, n, h).used = [t.used EXCEPT ![h] = TRUE]
BY DEF AddAbsolute, SetNew, Tables

\* A VBL is raised, or deferred.
LEMMA RaisedOrDeferred ==
  ASSUME NEW t \in Tables, requested' = AfterTest(Vblank),
         \/ CanRaise(Vblank)
         \/ tab' = AddAbsolute(t, PendingDelay, VblPending)
         \/ tab'.used[VblPending]
  PROVE  VblOutstanding'
<1>1. CASE CanRaise(Vblank)
  BY <1>1 DEF AfterTest, VblOutstanding
<1>2. CASE tab' = AddAbsolute(t, PendingDelay, VblPending)
  <2>1. VblPending \in Handlers /\ PendingDelay \in Int
    BY TwoHandlers, CoreAssumption DEF VblPending
  <2>2. tab'.used = [t.used EXCEPT ![VblPending] = TRUE]
    BY <1>2, <2>1, UsedByAdding
  <2>. QED
    BY <2>1, <2>2 DEF Tables, VblOutstanding
<1>3. CASE tab'.used[VblPending]
  BY <1>3 DEF VblOutstanding
<1>. QED
  BY <1>1, <1>2, <1>3

LEMMA DoCyclesAccounts ==
  ASSUME TypeInv, VblOutstanding, DoCycles
  PROVE  VblOutstanding'
<1>1. tab \in Tables /\ Charge(tab) \in Tables /\ Charge(tab).used = tab.used
  BY ChargeType DEF TypeInv, TypeOK, Charge, Tables
<1>2. CASE Due(Charge(tab))
  <2>1. Acknowledge(Charge(tab)) \in Tables
    BY <1>1, AcknowledgeType
  <2>. QED
    BY <1>2, <2>1, RaisedOrDeferred DEF DoCycles, VblPendingHandler
<1>3. CASE ~Due(Charge(tab))
  BY <1>1, <1>3 DEF DoCycles, VblOutstanding
<1>. QED
  BY <1>2, <1>3

\* An input interrupt takes the request's place, or leaves it.
LEMMA UpdateAccounts ==
  ASSUME TypeInv, VblOutstanding, NEW cleared, InputUpdate(cleared), tab' = tab
  PROVE  VblOutstanding' \/ requested' = Input
<1>1. requested \in {-1, 4, 5} /\ mask \in 0 .. 7
  BY DEF TypeInv, TypeOK, None, Levels, Vblank, Input
<1>2. requested' = AfterTest(Input) \/ requested' = requested
  BY DEF InputUpdate
<1>3. requested = Vblank => AfterTest(Input) \in {Input, requested}
  BY <1>1 DEF AfterTest, CanRaise, Vblank, Input
<1>. QED
  BY <1>2, <1>3 DEF VblOutstanding

\* Taking the request delivers it, or the mask does not let it through.
LEMMA TakingAccounts ==
  ASSUME TypeInv, VblOutstanding, tab' = tab, requested' = None
  PROVE  \/ VblOutstanding'
         \/ Deliverable /\ requested = Vblank /\ mask < Vblank
         \/ ~Deliverable /\ mask >= Vblank
<1>1. requested \in {-1, 4, 5} /\ mask \in 0 .. 7
  BY DEF TypeInv, TypeOK, None, Levels, Vblank, Input
<1>2. requested = Vblank \/ VblOutstanding'
  BY DEF VblOutstanding
<1>. QED
  BY <1>1, <1>2 DEF Deliverable, Vblank, None

LEMMA NextAccounts ==
  ASSUME TypeInv, [Next]_vars, VblOutstanding, ~VblOutstanding'
  PROVE  \/ mask < Vblank /\ mask' = Vblank
         \/ requested' = Input
         \/ mask >= Vblank /\ phase \in {"special", "stopInt"}
         \/ phase = "exec" /\ "reset" \in GuestInsns
         \/ shortcut = "reset"
<1>0. UNCHANGED <<requested, tab>> => FALSE
  BY DEF VblOutstanding
<1>1. CASE Execute
  <2>1. phase = "exec" /\ tab' = tab
    BY <1>1 DEF Execute
  <2>2. requested' = requested \/ ResetInsn
    BY <1>1 DEF Execute, GuestInsn, EnableInterrupts, SetupInsn, OrdinaryInsn, MoveToSr,
                StopInsn, GetMouseInput, GetKeyboardEvent, VblankInsn, Rte
  <2>. QED
    BY <1>0, <2>1, <2>2 DEF ResetInsn
<1>2. CASE \/ Halt \/ Exited \/ UNCHANGED vars \/ EnterStop \/ StopNoEvents
           \/ NoPoll \/ SameMillisecond \/ VblDue \/ VblNotDue \/ OtherShortcut
  BY <1>0, <1>2 DEF Halt, Exited, EnterStop, StopNoEvents, NoPoll, SameMillisecond, VblDue,
                    VblNotDue, OtherShortcut, vars, irqVars
<1>3. CASE Cycles \/ StopCycles
  BY <1>3, DoCyclesAccounts DEF Cycles, StopCycles
<1>4. CASE Deliver \/ StopDeliver
  <2>1. tab' = tab /\ requested' = None /\ Deliverable /\ mask' = requested
    BY <1>4 DEF Deliver, StopDeliver
  <2>. QED
    BY <2>1, TakingAccounts
<1>5. CASE NoDelivery \/ StopNoDelivery
  <2>1. tab' = tab /\ phase \in {"special", "stopInt"}
    BY <1>5 DEF NoDelivery, StopNoDelivery
  <2>2. requested' = requested \/ (requested' = None /\ ~Deliverable)
    BY <1>5 DEF NoDelivery, StopNoDelivery
  <2>. QED
    BY <1>0, <2>1, <2>2, TakingAccounts
<1>6. CASE StopEvents \/ PollEvents \/ VblEvents
  BY <1>6, UpdateAccounts DEF StopEvents, PollEvents, VblEvents, EventHandler
<1>7. CASE ColdReset
  BY <1>7 DEF ColdReset
<1>8. CASE RaiseVbl
  <2>1. tab \in Tables
    BY DEF TypeInv, TypeOK
  <2>2. requested' = AfterTest(Vblank)
        /\ \/ CanRaise(Vblank)
           \/ tab' = AddAbsolute(tab, PendingDelay, VblPending)
           \/ tab'.used[VblPending]
    BY <1>8 DEF RaiseVbl, InterruptActive
  <2>. QED
    BY <2>1, <2>2, RaisedOrDeferred
<1>9. CASE VblQuit
  <2>1. requested' = requested /\ (tab' = tab \/ tab' = AddAbsolute(tab, InsnCycles, IntNull))
    BY <1>9 DEF VblQuit
  <2>2. CASE tab' = AddAbsolute(tab, InsnCycles, IntNull)
    <3>1. tab \in Tables /\ IntNull \in Handlers /\ InsnCycles \in Int /\ IntNull # VblPending
          /\ VblPending \in Handlers
      BY TwoHandlers, TableAssumption DEF TypeInv, TypeOK, IntNull, VblPending
    <3>2. tab'.used = [tab.used EXCEPT ![IntNull] = TRUE]
      BY <2>2, <3>1, UsedByAdding
    <3>3. tab'.used[VblPending] = tab.used[VblPending]
      BY <3>1, <3>2 DEF Tables
    <3>. QED
      BY <2>1, <3>3 DEF VblOutstanding
  <2>. QED
    BY <1>0, <2>1, <2>2
<1>. QED
  BY <1>1, <1>2, <1>3, <1>4, <1>5, <1>6, <1>7, <1>8, <1>9 DEF Next

(***************************************************************************)
(* A VBL that was requested or deferred is delivered or goes by one of the *)
(* four losses, on whatever path, with whatever instructions the guest     *)
(* has and whatever masks it loads.                                        *)
(***************************************************************************)
THEOREM VblsAccounted == Spec => VblAccounted
<1>1. Init => TypeInv
  BY InitType
<1>2. TypeInv /\ [Next]_vars => TypeInv'
  BY NextType
<1>3. TypeInv /\ [Next]_vars =>
        [VblOutstanding /\ ~VblOutstanding' =>
           \/ mask < Vblank /\ mask' = Vblank
           \/ requested' = Input
           \/ mask >= Vblank /\ phase \in {"special", "stopInt"}
           \/ phase = "exec" /\ "reset" \in GuestInsns
           \/ shortcut = "reset"]_vars
  BY NextAccounts
<1>. QED
  BY <1>1, <1>2, <1>3, PTL DEF Spec, VblAccounted
=============================================================================
