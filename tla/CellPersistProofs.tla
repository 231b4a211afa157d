-------------------------- MODULE CellPersistProofs --------------------------
(***************************************************************************)
(* Proofs about CellPersist, for every set of lines, every width of the    *)
(* integrity codes and any number of updates, kills and losses of power.   *)
(***************************************************************************)
EXTENDS CellPersist, TLAPS

\* The process may be killed or power may be lost, but not both; and power only
\* where a barrier waits for write-back. The other cases are not safe: without
\* such a barrier see the run persist_barrier; with it, a reset after a kill may
\* have its lines written back before the header that says so.
Survivable == MaxLosses = 0 \/ (BarrierFlushes /\ MaxKills = 0)

\* The slab m holds what one completed update left behind.
Whole(m) == m.head.id \in DOMAIN good /\ m.data = good[m.head.id]

Torn(m) == m.head.entry # m.head.exit

-----------------------------------------------------------------------------
(* The inductive invariant                                                 *)

\* What the completed updates left is there for reference, and the update that
\* is being made has a number of its own.
GoodInv ==
    /\ 1 \in DOMAIN good /\ good[1] = [l \in Lines |-> EmptyLine(l)]
    /\ pc = "updating" => id \notin DOMAIN good

\* The slab as the CPU sees it. From the entry code to the exit code it does not
\* look sane; whenever it does, it is whole.
CpuInv ==
    /\ Sane(cpu) => Whole(cpu)
    /\ pc \in {"idle", "leaving"} => Sane(cpu)
    /\ pc = "entered" => Torn(cpu) /\ Whole(cpu)
    /\ pc = "updating" => Torn(cpu)
    /\ pc \in {"entered", "updating"} => cpu.head.magic
    /\ pc = "clearing" =>
         /\ ~cpu.head.magic /\ cpu.head.entry = cpu.head.exit /\ cpu.head.id = 1
         /\ \A l \in Lines \ todo : cpu.data[l] = EmptyLine(l)

\* The slab as a loss of power would leave it. The barriers make it agree with
\* the CPU's before the entry code is believed and before the exit code is set.
NvmInv ==
    /\ Sane(nvm) => Whole(nvm)
    /\ pc \in {"idle", "down"} => nvm = cpu
    /\ pc = "entered" => nvm.data = cpu.data /\ nvm.head.id = cpu.head.id
    /\ pc \in {"updating", "clearing"} => ~Sane(nvm)
    /\ pc = "leaving" => nvm.data = cpu.data /\ (nvm.head = cpu.head \/ ~Sane(nvm))

IInv ==
    /\ TypeOK /\ GoodInv /\ CpuInv
    /\ BarrierFlushes /\ MaxKills = 0 => NvmInv

-----------------------------------------------------------------------------
(* Type correctness                                                        *)

\* The widths of the codes allow for a next one that differs.
LEMMA NextCode ==
    ASSUME NEW e \in 0 .. CodeMod - 1
    PROVE  (e + 1) % CodeMod \in 0 .. CodeMod - 1 /\ (e + 1) % CodeMod # e
<1>1. CodeMod \in Nat /\ CodeMod > 1
  BY CellPersistAssumption
<1>2. CASE e + 1 < CodeMod
  <2>1. (e + 1) % CodeMod = e + 1
    BY <1>1, <1>2
  <2>2. QED
    BY <1>1, <1>2, <2>1
<1>3. CASE e + 1 = CodeMod
  <2>1. (e + 1) % CodeMod = 0
    BY <1>1, <1>3
  <2>2. QED
    BY <1>1, <1>3, <2>1
<1>4. QED
  BY <1>1, <1>2, <1>3

\* A header stored to, or a line written to or written back, is what it should be.
LEMMA Stores ==
    ASSUME NEW m \in Slabs
    PROVE  /\ m.head \in Heads /\ m.data \in [Lines -> Nat]
           /\ m = [head |-> m.head, data |-> m.data]
           /\ \A h \in Heads : [m EXCEPT !.head = h] = [head |-> h, data |-> m.data]
           /\ \A h \in Heads : [m EXCEPT !.head = h] \in Slabs
           /\ \A l \in Lines, v \in Nat :
                /\ [m EXCEPT !.data[l] = v] =
                        [head |-> m.head, data |-> [m.data EXCEPT ![l] = v]]
                /\ [m EXCEPT !.data[l] = v] \in Slabs
BY DEF Slabs

\* A cache line of an empty cell has a value.
LEMMA EmptyLineType == \A l \in Lines : EmptyLine(l) \in Nat
BY DEF EmptyLine

\* Every variable has its type in a new slab.
LEMMA InitTypeOK == Init => TypeOK
<1> SUFFICES ASSUME Init PROVE TypeOK
  OBVIOUS
<1>1. Blank \in Slabs
  BY CellPersistAssumption DEF Blank, Slabs, Heads
<1>2. /\ MaxUpdates \in Nat /\ MaxKills \in Nat /\ MaxLosses \in Nat
  BY CellPersistAssumption
<1>3. [l \in Lines |-> EmptyLine(l)] \in [Lines -> Nat]
  BY EmptyLineType
<1> QED
  BY <1>1, <1>2, <1>3 DEF Init, TypeOK

\* Every variable keeps its type.
LEMMA StepTypeOK == TypeOK /\ GoodInv /\ [Next]_vars => TypeOK'
<1> SUFFICES ASSUME TypeOK, GoodInv, [Next]_vars
             PROVE  TypeOK'
  OBVIOUS
<1>0. /\ cpu \in Slabs /\ nvm \in Slabs /\ id \in Nat
      /\ cpu.head \in Heads /\ nvm.head \in Heads
      /\ cpu.data \in [Lines -> Nat] /\ nvm.data \in [Lines -> Nat]
      /\ MaxUpdates \in Nat /\ MaxKills \in Nat /\ MaxLosses \in Nat
  BY Stores, CellPersistAssumption DEF TypeOK
<1>1. CASE OnEntry
  <2>1. cpu.head.entry \in 0 .. CodeMod - 1
    BY <1>0 DEF Heads
  <2>2. [cpu.head EXCEPT !.entry = (@ + 1) % CodeMod] \in Heads
    BY <1>0, <2>1, NextCode DEF Heads
  <2>3. cpu' \in Slabs
    BY <1>0, <1>1, <2>2, Stores DEF OnEntry, StoreHead
  <2> QED
    BY <1>0, <1>1, <2>3 DEF OnEntry, TypeOK
<1>2. CASE BeginUpdate
  <2>1. DOMAIN good \subseteq 1 .. id + 1
    BY <1>0 DEF TypeOK
  <2> QED
    BY <1>0, <1>2, <2>1 DEF BeginUpdate, TypeOK
<1>3. ASSUME NEW l \in Lines, Update(l) \/ Clear(l)
      PROVE  TypeOK'
  <2>1. PICK v \in Nat : StoreLine(l, v)
    BY <1>0, <1>3, EmptyLineType DEF Update, Clear
  <2>2. cpu' \in Slabs
    BY <1>0, <2>1, Stores DEF StoreLine
  <2> QED
    BY <2>1, <2>2 DEF StoreLine, TypeOK
<1>4. CASE StoreOffsets
  <2>1. [cpu.head EXCEPT !.id = id] \in Heads
    BY <1>0 DEF Heads
  <2>2. cpu' \in Slabs
    BY <1>0, <1>4, <2>1, Stores DEF StoreOffsets, StoreHead
  <2> QED
    BY <1>4, <2>2 DEF StoreOffsets, TypeOK
<1>5. CASE OnExit
  <2>1. [cpu.head EXCEPT !.exit = cpu.head.entry] \in Heads
    BY <1>0 DEF Heads
  <2>2. cpu' \in Slabs
    BY <1>0, <1>5, <2>1, Stores DEF OnExit, StoreHead
  <2>3. DOMAIN good' = DOMAIN good \cup {id} /\ id \in 1 .. id
    BY <1>0, <1>5 DEF OnExit, GoodInv, TypeOK
  <2>4. \A i \in DOMAIN good' : good'[i] \in [Lines -> Nat]
    BY <1>0, <1>5 DEF OnExit, TypeOK
  <2> QED
    BY <1>0, <1>5, <2>2, <2>3, <2>4 DEF OnExit, TypeOK
<1>6. CASE Leave
  BY <1>6 DEF Leave, TypeOK
<1>7. CASE OpenSane
  BY <1>7 DEF OpenSane, TypeOK
<1>8. CASE OpenReset
  <2>1. [magic |-> FALSE, entry |-> 0, exit |-> 0, id |-> 1] \in Heads
    BY CellPersistAssumption DEF Heads
  <2>2. cpu' \in Slabs
    BY <1>0, <1>8, <2>1, Stores DEF OpenReset, StoreHead
  <2> QED
    BY <1>8, <2>2 DEF OpenReset, TypeOK
<1>9. CASE SetMagic
  <2>1. [cpu.head EXCEPT !.magic = TRUE] \in Heads
    BY <1>0 DEF Heads
  <2>2. cpu' \in Slabs
    BY <1>0, <1>9, <2>1, Stores DEF SetMagic, StoreHead
  <2> QED
    BY <1>9, <2>2 DEF SetMagic, TypeOK
<1>10. CASE WriteBack
  <2>1. nvm' \in Slabs
    BY <1>0, <1>10, Stores DEF WriteBack, WriteBackHead, WriteBackLine
  <2> QED
    BY <1>10, <2>1 DEF WriteBack, TypeOK
<1>11. CASE Kill
  BY <1>0, <1>11 DEF Kill, Stop, TypeOK
<1>12. CASE PowerLoss
  BY <1>0, <1>12 DEF PowerLoss, Stop, TypeOK
<1>13. CASE UNCHANGED vars
  BY <1>13 DEF vars, TypeOK
<1> QED
  BY <1>1, <1>2, <1>3, <1>4, <1>5, <1>6, <1>7, <1>8, <1>9, <1>10, <1>11, <1>12, <1>13
  DEF Next, Process

-----------------------------------------------------------------------------
(* The slab as the CPU sees it                                             *)

\* Every step keeps the record of completed updates, without the one being made.
LEMMA StepGoodInv == TypeOK /\ GoodInv /\ [Next]_vars => GoodInv'
<1> SUFFICES ASSUME TypeOK, GoodInv, [Next]_vars
             PROVE  GoodInv'
  OBVIOUS
<1>1. CASE BeginUpdate
  <2>1. id + 1 \notin DOMAIN good
    BY DEF TypeOK
  <2> QED
    BY <1>1, <2>1 DEF BeginUpdate, GoodInv
<1>2. CASE OnExit
  <2>1. id # 1
    BY <1>2 DEF OnExit, GoodInv
  <2> QED
    BY <1>2, <2>1 DEF OnExit, GoodInv
<1>3. CASE UNCHANGED <<good, id>> /\ (pc' = "updating" => pc = "updating")
  BY <1>3 DEF GoodInv
<1>4. CASE UNCHANGED vars
  BY <1>4 DEF vars, GoodInv
<1> QED
  BY <1>1, <1>2, <1>3, <1>4
  DEF Next, Process, OnEntry, Update, Clear, StoreLine, StoreOffsets, Leave, OpenSane,
      OpenReset, SetMagic, WriteBack, Kill, PowerLoss, Stop

\* Completing an update keeps what earlier ones left.
LEMMA StaysWhole ==
    ASSUME TypeOK, GoodInv, [Next]_vars, NEW m, Whole(m)
    PROVE  m.head.id \in DOMAIN good' /\ m.data = good'[m.head.id]
<1>1. CASE OnExit
  BY <1>1 DEF OnExit, GoodInv, Whole
<1>2. CASE UNCHANGED good
  BY <1>2 DEF Whole
<1> QED
  BY <1>1, <1>2
  DEF Next, Process, OnEntry, BeginUpdate, Update, Clear, StoreLine, StoreOffsets, Leave,
      OpenSane, OpenReset, SetMagic, WriteBack, Kill, PowerLoss, Stop, vars

\* Every step keeps the slab as the CPU sees it whole whenever it looks sane.
LEMMA StepCpuInv ==
    ASSUME TypeOK, GoodInv, CpuInv, [Next]_vars,
           PowerLoss => (Sane(nvm) => Whole(nvm))
    PROVE  CpuInv'
<1>0. /\ cpu \in Slabs /\ nvm \in Slabs /\ id \in Nat
      /\ cpu.head \in Heads /\ nvm.head \in Heads
      /\ cpu.data \in [Lines -> Nat] /\ nvm.data \in [Lines -> Nat]
  BY Stores DEF TypeOK
<1>1. CASE OnEntry
  <2> DEFINE h == [cpu.head EXCEPT !.entry = (@ + 1) % CodeMod]
  <2>1. cpu.head.entry \in 0 .. CodeMod - 1
    BY <1>0 DEF Heads
  <2>2. /\ h \in Heads /\ h.entry = (cpu.head.entry + 1) % CodeMod
        /\ h.exit = cpu.head.exit /\ h.id = cpu.head.id /\ h.magic = cpu.head.magic
    BY <1>0, <2>1, NextCode DEF Heads
  <2>3. cpu' = [head |-> h, data |-> cpu.data]
    BY <1>0, <1>1, <2>2, Stores DEF OnEntry, StoreHead
  <2>4. cpu.head.entry = cpu.head.exit /\ cpu.head.magic /\ Whole(cpu)
    BY <1>1 DEF OnEntry, CpuInv, Sane
  <2>5. h.entry # h.exit
    BY <2>1, <2>2, <2>4, NextCode
  <2> HIDE DEF h
  <2> QED
    BY <1>1, <2>2, <2>3, <2>4, <2>5 DEF OnEntry, CpuInv, Sane, Torn, Whole
<1>2. CASE BeginUpdate
  BY <1>2, StaysWhole DEF BeginUpdate, CpuInv, Sane, Torn, Whole
<1>3. ASSUME NEW l \in Lines, Update(l)
      PROVE  CpuInv'
  <2>1. cpu'.head = cpu.head
    BY <1>0, <1>3, Stores DEF Update, StoreLine
  <2> QED
    BY <1>3, <2>1 DEF Update, StoreLine, CpuInv, Sane, Torn
<1>4. ASSUME NEW l \in Lines, Clear(l)
      PROVE  CpuInv'
  <2>1. cpu' = [head |-> cpu.head, data |-> [cpu.data EXCEPT ![l] = EmptyLine(l)]]
    BY <1>0, <1>4, Stores, EmptyLineType DEF Clear, StoreLine
  <2> QED
    BY <1>0, <1>4, <2>1 DEF Clear, StoreLine, CpuInv, Sane, Torn
<1>5. CASE StoreOffsets
  <2> DEFINE h == [cpu.head EXCEPT !.id = id]
  <2>1. /\ h \in Heads /\ h.magic = cpu.head.magic
        /\ h.entry = cpu.head.entry /\ h.exit = cpu.head.exit
    BY <1>0 DEF Heads
  <2>2. cpu' = [head |-> h, data |-> cpu.data]
    BY <1>0, <1>5, <2>1, Stores DEF StoreOffsets, StoreHead
  <2> HIDE DEF h
  <2> QED
    BY <1>5, <2>1, <2>2 DEF StoreOffsets, CpuInv, Sane, Torn
<1>6. CASE OnExit
  <2> DEFINE h == [cpu.head EXCEPT !.exit = cpu.head.entry]
  <2>1. h \in Heads /\ h.id = id /\ h.entry = h.exit /\ h.magic
    BY <1>0, <1>6 DEF Heads, OnExit, CpuInv
  <2>2. cpu' = [head |-> h, data |-> cpu.data]
    BY <1>0, <1>6, <2>1, Stores DEF OnExit, StoreHead
  <2>3. id \in DOMAIN good' /\ good'[id] = cpu.data
    BY <1>6 DEF OnExit
  <2> HIDE DEF h
  <2> QED
    BY <1>6, <2>1, <2>2, <2>3 DEF OnExit, CpuInv, Sane, Torn, Whole
<1>7. CASE Leave
  BY <1>7 DEF Leave, CpuInv, Sane, Whole
<1>8. CASE OpenSane
  BY <1>8 DEF OpenSane, CpuInv, Sane, Whole
<1>9. CASE OpenReset
  <2> DEFINE h == [magic |-> FALSE, entry |-> 0, exit |-> 0, id |-> 1]
  <2>1. h \in Heads /\ h.magic = FALSE /\ h.entry = h.exit /\ h.id = 1
    BY CellPersistAssumption DEF Heads
  <2>2. cpu' = [head |-> h, data |-> cpu.data]
    BY <1>0, <1>9, <2>1, Stores DEF OpenReset, StoreHead
  <2> HIDE DEF h
  <2> QED
    BY <1>9, <2>1, <2>2 DEF OpenReset, CpuInv, Sane, Torn
<1>10. CASE SetMagic
  <2> DEFINE h == [cpu.head EXCEPT !.magic = TRUE]
  <2>1. h \in Heads /\ h.magic = TRUE /\ h.entry = h.exit /\ h.id = 1
    BY <1>0, <1>10 DEF Heads, SetMagic, CpuInv
  <2>2. cpu' = [head |-> h, data |-> cpu.data]
    BY <1>0, <1>10, <2>1, Stores DEF SetMagic, StoreHead
  <2>3. cpu.data = good[1]
    BY <1>0, <1>10 DEF SetMagic, CpuInv, GoodInv
  <2> HIDE DEF h
  <2> QED
    BY <1>10, <2>1, <2>2, <2>3 DEF SetMagic, CpuInv, GoodInv, Sane, Torn, Whole
<1>11. CASE WriteBack
  BY <1>11 DEF WriteBack, CpuInv, Sane, Torn, Whole
<1>12. CASE Kill
  BY <1>12 DEF Kill, Stop, CpuInv, Sane, Torn, Whole
<1>13. CASE PowerLoss
  BY <1>13 DEF PowerLoss, Stop, CpuInv, Sane, Torn, Whole
<1>14. CASE UNCHANGED vars
  BY <1>14 DEF vars, CpuInv, Sane, Torn, Whole
<1> QED
  BY <1>1, <1>2, <1>3, <1>4, <1>5, <1>6, <1>7, <1>8, <1>9, <1>10, <1>11, <1>12, <1>13,
     <1>14
  DEF Next, Process

-----------------------------------------------------------------------------
(* The slab as a loss of power would leave it                              *)

\* Every step keeps the slab as a loss of power would leave it, if barriers flush.
LEMMA StepNvmInv ==
    ASSUME BarrierFlushes, MaxKills = 0,
           TypeOK, GoodInv, CpuInv, NvmInv, [Next]_vars
    PROVE  NvmInv'
<1>0. /\ cpu \in Slabs /\ nvm \in Slabs /\ id \in Nat
      /\ cpu.head \in Heads /\ nvm.head \in Heads
      /\ cpu.data \in [Lines -> Nat] /\ nvm.data \in [Lines -> Nat]
  BY Stores DEF TypeOK
<1>1. CASE OnEntry
  <2> DEFINE h == [cpu.head EXCEPT !.entry = (@ + 1) % CodeMod]
  <2>1. cpu.head.entry \in 0 .. CodeMod - 1
    BY <1>0 DEF Heads
  <2>2. h \in Heads /\ h.id = cpu.head.id
    BY <1>0, <2>1, NextCode DEF Heads
  <2>3. cpu' = [head |-> h, data |-> cpu.data]
    BY <1>0, <1>1, <2>2, Stores DEF OnEntry, StoreHead
  <2> HIDE DEF h
  <2> QED
    BY <1>1, <2>2, <2>3 DEF OnEntry, NvmInv, Sane, Whole
<1>2. CASE BeginUpdate
  BY <1>2 DEF BeginUpdate, Barrier, CpuInv, NvmInv, Sane, Torn, Whole
<1>3. ASSUME NEW l \in Lines, Update(l) \/ Clear(l)
      PROVE  NvmInv'
  BY <1>3 DEF Update, Clear, StoreLine, NvmInv, Sane, Whole
<1>4. CASE StoreOffsets
  BY <1>4 DEF StoreOffsets, NvmInv, Sane, Whole
<1>5. CASE OnExit
  <2>1. nvm = cpu /\ ~Sane(nvm)
    BY <1>5 DEF OnExit, Barrier, NvmInv
  <2>2. [cpu.head EXCEPT !.exit = cpu.head.entry] \in Heads
    BY <1>0 DEF Heads
  <2>3. cpu'.data = cpu.data
    BY <1>0, <1>5, <2>2, Stores DEF OnExit, StoreHead
  <2> QED
    BY <1>5, <2>1, <2>3 DEF OnExit, NvmInv, Sane
<1>6. CASE Leave
  BY <1>6 DEF Leave, Barrier, NvmInv, Sane, Whole
<1>7. CASE OpenSane
  BY <1>7 DEF OpenSane, NvmInv, Sane, Whole
<1>8. CASE OpenReset
  BY <1>8 DEF OpenReset, NvmInv, Sane
<1>9. CASE SetMagic
  <2>1. nvm = cpu /\ ~Sane(nvm)
    BY <1>9 DEF SetMagic, Barrier, NvmInv
  <2>2. [cpu.head EXCEPT !.magic = TRUE] \in Heads
    BY <1>0 DEF Heads
  <2>3. cpu'.data = cpu.data
    BY <1>0, <1>9, <2>2, Stores DEF SetMagic, StoreHead
  <2> QED
    BY <1>9, <2>1, <2>3 DEF SetMagic, NvmInv, Sane
<1>10. CASE WriteBack
  <2>1. CASE WriteBackHead
    <3>1. nvm' = [head |-> cpu.head, data |-> nvm.data]
      BY <1>0, <2>1, Stores DEF WriteBackHead
    <3> QED
      BY <1>10, <3>1, <1>0, Stores DEF WriteBack, CpuInv, NvmInv, Sane, Torn, Whole, TypeOK
  <2>2. ASSUME NEW l \in Lines, WriteBackLine(l)
        PROVE  NvmInv'
    <3>1. nvm' = [head |-> nvm.head, data |-> [nvm.data EXCEPT ![l] = cpu.data[l]]]
      BY <1>0, <2>2, Stores DEF WriteBackLine
    <3>2. nvm.data = cpu.data => nvm' = nvm
      BY <1>0, <3>1, Stores
    <3>3. nvm.data # cpu.data
      BY <1>10, <3>2 DEF WriteBack
    <3>4. pc \in {"updating", "clearing"} /\ ~Sane(nvm)
      BY <3>3 DEF TypeOK, NvmInv
    <3> QED
      BY <1>10, <3>1, <3>4 DEF WriteBack, NvmInv, Sane
  <2> QED
    BY <1>10, <2>1, <2>2 DEF WriteBack
<1>11. CASE Kill
  BY <1>11 DEF Kill, TypeOK
<1>12. CASE PowerLoss
  BY <1>12 DEF PowerLoss, Stop, NvmInv, Sane, Whole
<1>13. CASE UNCHANGED vars
  BY <1>13 DEF vars, NvmInv, Sane, Whole
<1> QED
  BY <1>1, <1>2, <1>3, <1>4, <1>5, <1>6, <1>7, <1>8, <1>9, <1>10, <1>11, <1>12, <1>13
  DEF Next, Process

-----------------------------------------------------------------------------
(* The theorems                                                            *)

\* The inductive invariant holds of a new slab.
LEMMA InitIInv == Init => IInv
<1> SUFFICES ASSUME Init PROVE IInv
  OBVIOUS
<1>1. TypeOK
  BY InitTypeOK
<1>2. ~cpu.head.magic /\ nvm = cpu
  BY DEF Init, Blank
<1>3. GoodInv /\ CpuInv /\ NvmInv
  BY <1>2 DEF Init, GoodInv, CpuInv, NvmInv, Sane
<1> QED
  BY <1>1, <1>3 DEF IInv

\* If the failures that can happen are survivable, every step keeps the inductive invariant.
LEMMA StepIInv ==
    ASSUME Survivable
    PROVE  IInv /\ [Next]_vars => IInv'
<1> SUFFICES ASSUME IInv, [Next]_vars
             PROVE  IInv'
  OBVIOUS
<1>1. TypeOK' /\ GoodInv'
  BY StepTypeOK, StepGoodInv DEF IInv
<1>2. PowerLoss => (Sane(nvm) => Whole(nvm))
  BY CellPersistAssumption DEF IInv, NvmInv, Survivable, PowerLoss, TypeOK
<1>3. CpuInv'
  BY <1>2, StepCpuInv DEF IInv
<1>4. BarrierFlushes /\ MaxKills = 0 => NvmInv'
  BY StepNvmInv DEF IInv
<1> QED
  BY <1>1, <1>3, <1>4 DEF IInv

\* Types: in particular no integrity code leaves its width, and the reference
\* copies are those of updates that were made.
THEOREM PersistTypeOK == Spec => []TypeOK
<1>1. Init => TypeOK /\ GoodInv
  BY InitIInv DEF IInv
<1>2. TypeOK /\ GoodInv /\ [Next]_vars => (TypeOK /\ GoodInv)'
  BY StepTypeOK, StepGoodInv
<1> QED
  BY <1>1, <1>2, PTL DEF Spec

\* cell_init and the integrity codes: a cell in use holds all of one completed
\* update, after any number of kills at any store, or, where the barrier waits
\* for write-back, after any number of losses of power with any lines written
\* back in any order.
THEOREM PersistOpenIsWhole ==
    ASSUME Survivable
    PROVE  Spec => []OpenIsWhole
<1>1. Init => IInv
  BY InitIInv
<1>2. IInv /\ [Next]_vars => IInv'
  BY StepIInv
<1>3. IInv => OpenIsWhole
  BY DEF IInv, CpuInv, OpenIsWhole, Whole
<1> QED
  BY <1>1, <1>2, <1>3, PTL DEF Spec
=============================================================================
