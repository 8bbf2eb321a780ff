---------------------------- MODULE AuditProofs ----------------------------
(***************************************************************************)
(* Theorems about TamperScan for any entries, any logs, any faults and any *)
(* page size: the audit log is well formed, and linear when one Log writes *)
(* it; the detector reports nothing that is not so, and everything that    *)
(* was wrong when its pass began and still is.                             *)
(***************************************************************************)
EXTENDS TamperScan, FunctionTheorems, FiniteSetTheorems, WellFoundedInduction, TLAPS

\* A step of the log, or of the world around it.
LogAction ==
    \/ \E e \in Entry : Lock(e) \/ AppendStep(e) \/ Outside(e)
    \/ \E l \in Log : Crash(l)

\* A step of the whole is a step of the log or leaves the log as it is.
LEMMA ScanStepIsLogStep ==
    ASSUME [ScanNext]_scanVars PROVE LogAction \/ UNCHANGED logVars
BY DEF ScanNext, scanVars, LogAction, LogNext, CrashWith, DetectorStep, StartPass,
       FetchPage, ScanRow, EndPage, EndPass, ScanFails, ScanRowUnread

----------------------------------------------------------------------------
(* Type correctness *)

LEMMA LogTypeInit == LogInit => LogTypeOK
BY AuditAssumption
   DEF LogInit, LogTypeOK, Row, NoRow, Frame, AppendPc, Object

LEMMA FaultIsCounted ==
    ASSUME faults \in 0..FaultBudget, NEW kind, Fault(kind)
    PROVE  faults' \in 0..FaultBudget
BY AuditAssumption DEF Fault

LEMMA ReturnTypes ==
    ASSUME LogTypeOK, NEW e \in Entry, Return(e)
    PROVE  append' \in [Entry -> Frame] /\ mu' \in [Log -> Entry \cup {None}]
BY AuditAssumption DEF LogTypeOK, Return, Goto, Frame, AppendPc

LEMMA WriteRowTypes ==
    ASSUME LogTypeOK, NEW e \in Entry, WriteRow(e)
    PROVE  /\ row' \in [Entry -> Row] /\ nextId' \in Nat \ {0}
           /\ \A f \in Entry : row'[f].id < nextId'
<1>1. append[e].prev \in Entry \cup {None}
  BY DEF LogTypeOK, Frame
<1>2. [NoRow EXCEPT !.id = nextId, !.prev = append[e].prev] \in Row
  BY <1>1 DEF LogTypeOK, NoRow, Row
<1>3. row' \in [Entry -> Row] /\ nextId' \in Nat \ {0}
  BY <1>2 DEF LogTypeOK, WriteRow
<1>4. ASSUME NEW f \in Entry PROVE row'[f].id < nextId'
  <2>1. row[f].id < nextId /\ row[f].id \in Nat /\ nextId \in Nat
    BY DEF LogTypeOK, Row
  <2>2. row'[f].id = row[f].id \/ row'[f].id = nextId
    BY DEF LogTypeOK, WriteRow, NoRow
  <2> QED BY <2>1, <2>2 DEF WriteRow
<1> QED BY <1>3, <1>4

LEMMA AppendTypes ==
    ASSUME LogTypeOK, NEW e \in Entry, Lock(e) \/ AppendStep(e) PROVE LogTypeOK'
<1>1. CASE Lock(e)
  BY <1>1, AuditAssumption DEF Lock, Goto, LogTypeOK, Frame, AppendPc
<1>2. CASE LastHash(e)
  BY <1>2 DEF LastHash, LogTypeOK, Frame, AppendPc
<1>3. CASE Insert(e)
  <2>1. WriteRow(e) /\ UNCHANGED <<mirror, faults>>
    BY <1>3 DEF Insert
  <2>2. append' \in [Entry -> Frame] /\ mu' \in [Log -> Entry \cup {None}]
    <3>1. CASE LogOf[e] \in Streams
      BY <1>3, <3>1 DEF Insert, Goto, LogTypeOK, Frame, AppendPc
    <3>2. CASE LogOf[e] \notin Streams
      BY <1>3, <3>2, ReturnTypes DEF Insert
    <3> QED BY <3>1, <3>2
  <2> QED BY <2>1, <2>2, WriteRowTypes DEF LogTypeOK
<1>4. CASE WriteFails(e)
  <2>1. append' \in [Entry -> Frame] /\ mu' \in [Log -> Entry \cup {None}]
    BY <1>4, ReturnTypes DEF WriteFails
  <2>2. faults' \in 0..FaultBudget
    BY <1>4, FaultIsCounted DEF WriteFails, LogTypeOK
  <2>3. /\ row' \in [Entry -> Row] /\ nextId' \in Nat \ {0}
        /\ \A f \in Entry : row'[f].id < nextId'
    <3>1. CASE UNCHANGED <<row, nextId>>
      BY <3>1 DEF LogTypeOK
    <3>2. CASE WriteRow(e)
      BY <3>2, WriteRowTypes
    <3> QED BY <1>4, <3>1, <3>2 DEF WriteFails
  <2> QED BY <1>4, <2>1, <2>2, <2>3 DEF WriteFails, LogTypeOK
<1>5. CASE PutEntry(e)
  <2>1. append' \in [Entry -> Frame] /\ mu' \in [Log -> Entry \cup {None}]
    <3>1. CASE Goto(e, "etag") /\ UNCHANGED mu
      BY <3>1 DEF Goto, LogTypeOK, Frame, AppendPc
    <3>2. CASE Return(e)
      BY <3>2, ReturnTypes
    <3> QED BY <1>5, <3>1, <3>2 DEF PutEntry
  <2> QED BY <1>5, <2>1 DEF PutEntry, LogTypeOK, Object
<1>6. CASE PutFails(e)
  BY <1>6, ReturnTypes, FaultIsCounted DEF PutFails, LogTypeOK, Object
<1>7. CASE SetEtag(e)
  <2>1. Present(e) \in BOOLEAN
    BY DEF Present
  <2>2. row' = [row EXCEPT ![e].etag = Present(e)]
    BY <1>7 DEF SetEtag
  <2>3. row' \in [Entry -> Row] /\ \A f \in Entry : row'[f].id = row[f].id
    BY <2>1, <2>2 DEF LogTypeOK, Row
  <2> QED BY <1>7, <2>3, ReturnTypes DEF SetEtag, LogTypeOK
<1>8. CASE EtagFails(e)
  BY <1>8, ReturnTypes, FaultIsCounted DEF EtagFails, LogTypeOK
<1> QED BY <1>1, <1>2, <1>3, <1>4, <1>5, <1>6, <1>7, <1>8 DEF AppendStep

LEMMA OutsideTypes ==
    ASSUME LogTypeOK, LogAction, ~\E e \in Entry : Lock(e) \/ AppendStep(e)
    PROVE  LogTypeOK'
<1>1. CASE \E e \in Entry : DamageObject(e)
  BY <1>1, FaultIsCounted DEF DamageObject, LogTypeOK, Object
<1>2. CASE \E e \in Entry : LoseRow(e)
  <2>1. PICK e \in Entry : LoseRow(e)
    BY <1>2
  <2>2. row' \in [Entry -> Row] /\ \A f \in Entry : row'[f].id = row[f].id
    BY <2>1 DEF LoseRow, LogTypeOK, Row
  <2> QED BY <2>1, <2>2, FaultIsCounted DEF LoseRow, LogTypeOK
<1>3. CASE \E l \in Log : Crash(l)
  <2>1. PICK l \in Log : Crash(l)
    BY <1>3
  <2>2. append' \in [Entry -> Frame]
    BY <2>1 DEF Crash, LogTypeOK, Frame, AppendPc
  <2> QED BY <2>1, <2>2, FaultIsCounted DEF Crash, LogTypeOK
<1> QED BY <1>1, <1>2, <1>3 DEF LogAction, Outside

LEMMA LogTypeStep ==
    ASSUME LogTypeOK, [ScanNext]_scanVars PROVE LogTypeOK'
<1>1. CASE UNCHANGED logVars
  BY <1>1 DEF logVars, LogTypeOK
<1>2. CASE LogAction
  BY <1>2, AppendTypes, OutsideTypes
<1> QED BY <1>1, <1>2, ScanStepIsLogStep

\* In every reachable state the table, the calls, the mutexes and the mirror
\* are of their types, and every id in use has been handed out (audit.go:345).
THEOREM LogTypeCorrect == ScanSpec => []LogTypeOK
<1>1. ScanInit => LogTypeOK
  BY LogTypeInit DEF ScanInit
<1>2. LogTypeOK /\ [ScanNext]_scanVars => LogTypeOK'
  BY LogTypeStep
<1> QED BY <1>1, <1>2, PTL DEF ScanSpec

----------------------------------------------------------------------------
(* The chain *)

\* In the table tab, a hash p read for an id n leads to the last row below n that is not lost.
LinksTo(tab, p, n) ==
    /\ p # None => p \in Entry /\ tab[p].id # 0 /\ tab[p].id < n
    /\ \A f \in Entry :
          tab[f].id # 0 /\ tab[f].id < n /\ (p # None => tab[p].id < tab[f].id)
          => tab[f].gone

\* A call that is under way holds its Log's mutex.
HoldsMutex == \A e \in Entry : InAppend(e) => mu[LogOf[e]] = e

\* A call writes its row once, in its INSERT.
WritesOnce == \A e \in Entry : append[e].pc \in {"new", "last", "insert"} => row[e].id = 0

RowsLink == \A e \in Entry : row[e].id # 0 => LinksTo(row, row[e].prev, row[e].id)

\* The hash a call has read is still the last one when it writes its row.
ReadIsLast == \A e \in Entry : At(e, "insert") => LinksTo(row, append[e].prev, nextId)

ChainInv == LogTypeOK /\ HoldsMutex /\ WritesOnce /\ RowsLink /\ ReadIsLast

OneLogAssumption == \A e, f \in Entry : LogOf[e] = LogOf[f]

LEMMA ChainInvInit == LogInit => ChainInv
<1> SUFFICES ASSUME LogInit PROVE ChainInv
  OBVIOUS
<1>1. HoldsMutex /\ WritesOnce /\ RowsLink /\ ReadIsLast
  BY DEF LogInit, NoRow, HoldsMutex, WritesOnce, RowsLink, ReadIsLast, InAppend, At
<1> QED BY <1>1, LogTypeInit DEF ChainInv

\* With one Log there is one call under way.
LEMMA OneCall ==
    ASSUME OneLogAssumption, HoldsMutex, NEW e \in Entry, NEW f \in Entry,
           InAppend(e), InAppend(f)
    PROVE  e = f
BY DEF OneLogAssumption, HoldsMutex

\* What the calls hold when one of them has moved on without writing a row.
LEMMA MutexKept ==
    ASSUME ChainInv, OneLogAssumption, NEW e \in Entry, InAppend(e), NEW pc,
           Goto(e, pc), UNCHANGED mu \/ Return(e)
    PROVE  HoldsMutex'
<1> SUFFICES ASSUME NEW f \in Entry, InAppend(f)' PROVE mu'[LogOf[f]] = f
  BY DEF HoldsMutex
<1>1. append \in [Entry -> Frame] /\ mu \in [Log -> Entry \cup {None}]
  BY DEF ChainInv, LogTypeOK
<1>2. f # e => InAppend(f)
  BY <1>1 DEF InAppend, Goto
<1>3. f = e
  BY <1>2, OneCall DEF ChainInv
<1>4. ~Return(e)
  BY <1>1, <1>3 DEF Return, Goto, InAppend, Frame
<1>5. UNCHANGED mu
  BY <1>4
<1>6. mu[LogOf[e]] = e
  BY DEF ChainInv, HoldsMutex
<1> QED BY <1>3, <1>5, <1>6

\* Links are kept by a step that writes no row.
LEMMA LinksKept ==
    ASSUME NEW p \in Entry \cup {None}, NEW n, LinksTo(row, p, n),
           \A f \in Entry : row'[f].id = row[f].id /\ (row[f].gone => row'[f].gone)
    PROVE  LinksTo(row', p, n)
BY DEF LinksTo

\* A step that writes no row and brings no call to its INSERT keeps the chain.
LEMMA ChainKept ==
    ASSUME ChainInv, LogTypeOK', HoldsMutex', nextId' = nextId,
           \A f \in Entry : /\ row'[f].id = row[f].id /\ row'[f].prev = row[f].prev
                            /\ row[f].gone => row'[f].gone,
           \A f \in Entry :
              \/ append'[f] = append[f]
              \/ append'[f].pc \in {"put", "etag", "done"}
              \/ append[f].pc = "new" /\ append'[f].pc = "last"
    PROVE  ChainInv'
<1>1. WritesOnce'
  BY DEF ChainInv, WritesOnce
<1>2. RowsLink'
  <2> SUFFICES ASSUME NEW e \in Entry, row'[e].id # 0
               PROVE  LinksTo(row', row'[e].prev, row'[e].id)
    BY DEF RowsLink
  <2>1. LinksTo(row, row[e].prev, row[e].id) /\ row[e].prev \in Entry \cup {None}
    BY DEF ChainInv, RowsLink, LogTypeOK, Row
  <2> QED BY <2>1, LinksKept DEF LinksTo
<1>3. ReadIsLast'
  <2> SUFFICES ASSUME NEW e \in Entry, append'[e].pc = "insert"
               PROVE  LinksTo(row', append'[e].prev, nextId')
    BY DEF ReadIsLast, At
  <2>1. append'[e] = append[e]
    OBVIOUS
  <2>2. LinksTo(row, append[e].prev, nextId) /\ append[e].prev \in Entry \cup {None}
    BY <2>1 DEF ChainInv, ReadIsLast, At, LogTypeOK, Frame
  <2> QED BY <2>1, <2>2, LinksKept DEF LinksTo
<1> QED BY <1>1, <1>2, <1>3 DEF ChainInv

LEMMA LockKeepsChain ==
    ASSUME ChainInv, OneLogAssumption, NEW e \in Entry, Lock(e), LogTypeOK'
    PROVE  ChainInv'
<1>1. append \in [Entry -> Frame] /\ mu \in [Log -> Entry \cup {None}] /\ LogOf[e] \in Log
  BY AuditAssumption DEF ChainInv, LogTypeOK
<1>2. HoldsMutex'
  <2> SUFFICES ASSUME NEW f \in Entry, InAppend(f)' PROVE mu'[LogOf[f]] = f
    BY DEF HoldsMutex
  <2>1. CASE f = e
    BY <1>1, <2>1 DEF Lock
  <2>2. CASE f # e
    <3>1. InAppend(f)
      BY <1>1, <2>2 DEF Lock, Goto, InAppend
    <3>2. mu[LogOf[f]] = f
      BY <3>1 DEF ChainInv, HoldsMutex
    <3> QED BY <3>2, AuditAssumption DEF Lock, Free, OneLogAssumption
  <2> QED BY <2>1, <2>2
<1>3. \A f \in Entry : \/ append'[f] = append[f]
                       \/ append[f].pc = "new" /\ append'[f].pc = "last"
  BY <1>1 DEF Lock, At, Goto
<1> QED BY <1>2, <1>3, ChainKept DEF Lock

\* lastHashLocked finds the last row.
LEMMA LastHashKeepsChain ==
    ASSUME ChainInv, OneLogAssumption, NEW e \in Entry, LastHash(e), LogTypeOK'
    PROVE  ChainInv'
<1>1. PICK p \in Entry \cup {None} :
         /\ IF p = None THEN \A f \in Entry : ~Present(f) ELSE IsLast(p)
         /\ append' = [append EXCEPT ![e] = [pc |-> "insert", prev |-> p]]
  BY DEF LastHash
<1>2. append \in [Entry -> Frame] /\ At(e, "last") /\ InAppend(e)
      /\ UNCHANGED <<row, nextId, mu>>
  BY DEF LastHash, ChainInv, LogTypeOK, At, InAppend
<1>3. LinksTo(row, p, nextId)
  <2>1. row \in [Entry -> Row] /\ \A f \in Entry : row[f].id < nextId
    BY DEF ChainInv, LogTypeOK
  <2>2. p # None => p \in Entry /\ IsLast(p)
    BY <1>1
  <2>3. ASSUME NEW f \in Entry, row[f].id # 0, p # None => row[p].id < row[f].id
        PROVE  row[f].gone
    <3>1. ~Present(f)
      <4>1. CASE p = None
        BY <1>1, <4>1
      <4>2. CASE p # None
        <5>1. row[p].id \in Nat /\ row[f].id \in Nat /\ row[p].id < row[f].id
          BY <2>1, <2>2, <2>3, <4>2 DEF Row
        <5> QED BY <2>2, <4>2, <5>1 DEF IsLast
      <4> QED BY <4>1, <4>2
    <3>2. row[f].gone \in BOOLEAN
      BY <2>1 DEF Row
    <3> QED BY <2>3, <3>1 DEF Present
  <2>4. p # None => row[p].id # 0 /\ row[p].id < nextId
    BY <2>1, <2>2 DEF IsLast, Present
  <2> QED BY <2>2, <2>3, <2>4 DEF LinksTo
<1>4. HoldsMutex'
  BY <1>1, <1>2 DEF ChainInv, HoldsMutex, InAppend, At
<1>5. WritesOnce'
  BY <1>1, <1>2 DEF ChainInv, WritesOnce, At
<1>6. RowsLink'
  BY <1>2 DEF ChainInv, RowsLink, LinksTo
<1>7. ReadIsLast'
  <2> SUFFICES ASSUME NEW f \in Entry, append'[f].pc = "insert"
               PROVE  LinksTo(row', append'[f].prev, nextId')
    BY DEF ReadIsLast, At
  <2>1. CASE f = e
    BY <1>1, <1>2, <1>3, <2>1 DEF LinksTo
  <2>2. CASE f # e
    BY <1>1, <1>2, <2>2 DEF ChainInv, ReadIsLast, At, LinksTo
  <2> QED BY <2>1, <2>2
<1> QED BY <1>4, <1>5, <1>6, <1>7 DEF ChainInv

\* The INSERT: the new row is linked to the last one, and no other call holds
\* a hash it has read.
LEMMA WriteKeepsChain ==
    ASSUME ChainInv, OneLogAssumption, NEW e \in Entry, At(e, "insert"), WriteRow(e),
           LogTypeOK', HoldsMutex', NEW pc \in {"put", "done"}, Goto(e, pc)
    PROVE  ChainInv'
<1>1. append \in [Entry -> Frame] /\ row \in [Entry -> Row] /\ nextId \in Nat \ {0}
      /\ append'[e].pc \in {"put", "done"} /\ (\A f \in Entry : row[f].id < nextId)
      /\ (\A f \in Entry \ {e} : append'[f] = append[f])
  BY DEF ChainInv, LogTypeOK, Goto
<1>2. /\ row'[e].id = nextId /\ row'[e].prev = append[e].prev /\ nextId' = nextId + 1
      /\ \A f \in Entry \ {e} : row'[f] = row[f]
  BY <1>1 DEF WriteRow, NoRow
<1>3. row[e].id = 0
  BY DEF ChainInv, WritesOnce, At
<1>4. WritesOnce'
  BY <1>1, <1>2 DEF ChainInv, WritesOnce
<1>5. ASSUME NEW p \in Entry \cup {None}, NEW n \in Nat, n <= nextId, LinksTo(row, p, n)
      PROVE  LinksTo(row', p, n)
  <2>1. p # None => p \in Entry /\ row[p].id # 0 /\ row[p].id < n
    BY <1>5 DEF LinksTo
  <2>2. p # None => p # e /\ row'[p] = row[p]
    BY <1>2, <1>3, <2>1
  <2>3. ASSUME NEW f \in Entry, row'[f].id # 0, row'[f].id < n,
               p # None => row'[p].id < row'[f].id
        PROVE  row'[f].gone
    <3>1. f # e
      BY <1>1, <1>2, <1>5, <2>3
    <3> QED BY <1>2, <1>5, <2>2, <2>3, <3>1 DEF LinksTo
  <2> QED BY <2>1, <2>2, <2>3 DEF LinksTo
<1>6. RowsLink'
  <2> SUFFICES ASSUME NEW f \in Entry, row'[f].id # 0
               PROVE  LinksTo(row', row'[f].prev, row'[f].id)
    BY DEF RowsLink
  <2>1. CASE f = e
    <3>1. LinksTo(row, append[e].prev, nextId) /\ append[e].prev \in Entry \cup {None}
      BY <1>1 DEF ChainInv, ReadIsLast, Frame
    <3>2. LinksTo(row', append[e].prev, nextId)
      <4>1. append[e].prev # None => append[e].prev # e
        BY <1>3, <3>1 DEF LinksTo
      <4>2. append[e].prev # None => row'[append[e].prev] = row[append[e].prev]
        BY <1>2, <3>1, <4>1
      <4>3. append[e].prev # None => /\ append[e].prev \in Entry
                                     /\ row'[append[e].prev].id # 0
                                     /\ row'[append[e].prev].id < nextId
        BY <3>1, <4>2 DEF LinksTo
      <4>4. ASSUME NEW g \in Entry, row'[g].id # 0, row'[g].id < nextId,
                   append[e].prev # None => row'[append[e].prev].id < row'[g].id
            PROVE  row'[g].gone
        <5>1. g # e
          BY <1>1, <1>2, <4>4
        <5> QED BY <1>2, <3>1, <4>2, <4>4, <5>1 DEF LinksTo
      <4> QED BY <4>3, <4>4 DEF LinksTo
    <3> QED BY <1>2, <2>1, <3>2
  <2>2. CASE f # e
    <3>1. row'[f] = row[f] /\ row[f].id \in Nat /\ row[f].id <= nextId
          /\ row[f].prev \in Entry \cup {None}
      BY <1>1, <1>2, <2>2 DEF Row
    <3>2. LinksTo(row, row[f].prev, row[f].id)
      BY <3>1 DEF ChainInv, RowsLink
    <3>3. LinksTo(row', row[f].prev, row[f].id)
      BY <1>5, <3>1, <3>2
    <3> QED BY <3>1, <3>3 DEF LinksTo
  <2> QED BY <2>1, <2>2
<1>7. ReadIsLast'
  <2> SUFFICES ASSUME NEW f \in Entry, append'[f].pc = "insert" PROVE FALSE
    BY DEF ReadIsLast, At
  <2>1. f # e
    BY <1>1
  <2>2. InAppend(f) /\ InAppend(e)
    BY <1>1, <2>1 DEF InAppend, At
  <2> QED BY <2>1, <2>2, OneCall DEF ChainInv
<1> QED BY <1>4, <1>6, <1>7 DEF ChainInv

LEMMA InsertKeepsChain ==
    ASSUME ChainInv, OneLogAssumption, NEW e \in Entry, Insert(e), LogTypeOK'
    PROVE  ChainInv'
<1>1. At(e, "insert") /\ InAppend(e) /\ WriteRow(e)
  BY DEF Insert, At, InAppend
<1>2. CASE LogOf[e] \in Streams
  BY <1>1, <1>2, MutexKept, WriteKeepsChain DEF Insert
<1>3. CASE LogOf[e] \notin Streams
  BY <1>1, <1>3, MutexKept, WriteKeepsChain DEF Insert, Return
<1> QED BY <1>2, <1>3

\* What a step of a call that only moves on does to the calls.
LEMMA CallEnds ==
    ASSUME ChainInv, NEW e \in Entry, NEW pc \in {"put", "etag", "done"}, Goto(e, pc)
    PROVE  \A f \in Entry : \/ append'[f] = append[f]
                            \/ append'[f].pc \in {"put", "etag", "done"}
BY DEF ChainInv, LogTypeOK, Frame, Goto

LEMMA WriteFailsKeepsChain ==
    ASSUME ChainInv, OneLogAssumption, NEW e \in Entry, WriteFails(e), LogTypeOK'
    PROVE  ChainInv'
<1>1. InAppend(e) /\ Goto(e, "done") /\ Return(e)
  BY DEF WriteFails, Return, InAppend
<1>2. HoldsMutex'
  BY <1>1, MutexKept
<1>3. CASE UNCHANGED <<row, nextId>>
  BY <1>1, <1>2, <1>3, CallEnds, ChainKept
<1>4. CASE At(e, "insert") /\ WriteRow(e)
  BY <1>1, <1>2, <1>4, WriteKeepsChain
<1> QED BY <1>3, <1>4 DEF WriteFails

\* PutEntry and the UPDATE of the ETag write no row.
LEMMA StreamKeepsChain ==
    ASSUME ChainInv, OneLogAssumption, NEW e \in Entry, LogTypeOK',
           PutEntry(e) \/ PutFails(e) \/ SetEtag(e) \/ EtagFails(e)
    PROVE  ChainInv'
<1>1. InAppend(e) /\ nextId' = nextId
  BY DEF PutEntry, PutFails, SetEtag, EtagFails, At, InAppend
<1>2. PICK pc \in {"etag", "done"} : Goto(e, pc) /\ (UNCHANGED mu \/ Return(e))
  BY DEF PutEntry, PutFails, SetEtag, EtagFails, Return
<1>3. HoldsMutex'
  BY <1>1, <1>2, MutexKept
<1>4. \A f \in Entry : /\ row'[f].id = row[f].id /\ row'[f].prev = row[f].prev
                       /\ row[f].gone => row'[f].gone
  BY DEF ChainInv, LogTypeOK, Row, PutEntry, PutFails, SetEtag, EtagFails
<1> QED BY <1>1, <1>2, <1>3, <1>4, CallEnds, ChainKept

LEMMA OutsideKeepsChain ==
    ASSUME ChainInv, NEW e \in Entry, Outside(e), LogTypeOK' PROVE ChainInv'
<1>1. UNCHANGED <<nextId, append, mu>>
  BY DEF Outside, DamageObject, LoseRow
<1>2. HoldsMutex'
  BY <1>1 DEF ChainInv, HoldsMutex, InAppend
<1>3. \A f \in Entry : /\ row'[f].id = row[f].id /\ row'[f].prev = row[f].prev
                       /\ row[f].gone => row'[f].gone
  BY DEF ChainInv, LogTypeOK, Row, Outside, DamageObject, LoseRow
<1> QED BY <1>1, <1>2, <1>3, ChainKept

\* The process dies with the one call under way.
LEMMA CrashKeepsChain ==
    ASSUME ChainInv, OneLogAssumption, NEW l \in Log, Crash(l), LogTypeOK' PROVE ChainInv'
<1>1. append \in [Entry -> Frame] /\ mu \in [Log -> Entry \cup {None}]
      /\ UNCHANGED <<row, nextId>>
  BY DEF ChainInv, LogTypeOK, Crash
<1>2. \A f \in Entry : append'[f] = append[f] \/ append'[f].pc = "done"
  BY <1>1 DEF Crash, Frame
<1>3. HoldsMutex'
  <2> SUFFICES ASSUME NEW f \in Entry, InAppend(f)' PROVE mu'[LogOf[f]] = f
    BY DEF HoldsMutex
  <2>1. InAppend(f) /\ LogOf[f] # l
    BY <1>1 DEF Crash, InAppend, Frame
  <2>2. mu[LogOf[f]] = f /\ LogOf[f] \in Log
    BY <2>1, AuditAssumption DEF ChainInv, HoldsMutex
  <2> QED BY <1>1, <2>1, <2>2 DEF Crash
<1> QED BY <1>1, <1>2, <1>3, ChainKept

LEMMA ChainInvStep ==
    ASSUME OneLogAssumption, ChainInv, [ScanNext]_scanVars PROVE ChainInv'
<1>1. LogTypeOK'
  BY LogTypeStep DEF ChainInv
<1>2. CASE UNCHANGED logVars
  BY <1>1, <1>2, ChainKept DEF logVars, ChainInv, HoldsMutex, InAppend
<1>3. CASE \E e \in Entry : Lock(e)
  BY <1>1, <1>3, LockKeepsChain
<1>4. CASE \E e \in Entry : AppendStep(e)
  BY <1>1, <1>4, LastHashKeepsChain, InsertKeepsChain, WriteFailsKeepsChain,
     StreamKeepsChain DEF AppendStep
<1>5. CASE \E e \in Entry : Outside(e)
  BY <1>1, <1>5, OutsideKeepsChain
<1>6. CASE \E l \in Log : Crash(l)
  BY <1>1, <1>6, CrashKeepsChain
<1> QED BY <1>2, <1>3, <1>4, <1>5, <1>6, ScanStepIsLogStep DEF LogAction

LEMMA ChainInvIsLinear == ChainInv => ChainIsLinear
<1> SUFFICES ASSUME ChainInv, \A e \in Entry : ~row[e].gone, NEW e \in Entry, Present(e)
             PROVE  IF row[e].prev = None
                    THEN ~\E f \in Entry : Present(f) /\ row[f].id < row[e].id
                    ELSE Precedes(row[e].prev, e)
  BY DEF ChainIsLinear, Verify
<1>1. LinksTo(row, row[e].prev, row[e].id)
  BY DEF ChainInv, RowsLink, Present
<1>2. CASE row[e].prev = None
  BY <1>1, <1>2 DEF LinksTo, Present
<1>3. CASE row[e].prev # None
  <2>1. row[e].prev \in Entry /\ row[row[e].prev].id # 0
        /\ row[row[e].prev].id < row[e].id
    BY <1>1, <1>3 DEF LinksTo
  <2>2. ~\E f \in Entry : Present(f) /\ Between(row[e].prev, f, e)
    BY <1>1, <1>3 DEF LinksTo, Present, Between
  <2> QED BY <1>3, <2>1, <2>2 DEF Precedes, Present
<1> QED BY <1>2, <1>3

\* When one Log writes the table, Append's mutex keeps the chain linear
\* (audit.go:290), whatever fails and however the process is restarted.
THEOREM OneLogIsLinear ==
    ASSUME OneLogAssumption PROVE ScanSpec => []ChainIsLinear
<1>1. ScanInit => ChainInv
  BY ChainInvInit DEF ScanInit
<1>2. ChainInv /\ [ScanNext]_scanVars => ChainInv'
  BY ChainInvStep
<1> QED BY <1>1, <1>2, ChainInvIsLinear, PTL DEF ScanSpec

----------------------------------------------------------------------------
(* The table under the detector: ids are handed out once, none is skipped, *)
(* and what has been written keeps its id                                  *)

OneId == \A e, f \in Entry : row[e].id # 0 /\ row[e].id = row[f].id => e = f

NoIdSkipped == \A i \in Nat \ {0} : i < nextId => \E e \in Entry : row[e].id = i

TableInv == LogTypeOK /\ WritesOnce /\ OneId /\ NoIdSkipped

\* What a step may do to a row, and to the copy of a call that has returned.
RowMayBecome(e) ==
    /\ row[e].id # 0 => row'[e].id = row[e].id
    /\ row[e].id = 0 => row'[e].id \in {0, nextId}
    /\ row[e].id # 0 /\ row[e].gone => row'[e].gone
    /\ At(e, "done") => /\ append'[e].pc = "done"
                        /\ row'[e].id = row[e].id
                        /\ mirror[e] # "good" => mirror'[e] # "good"

LogGrows == nextId <= nextId' /\ \A e \in Entry : RowMayBecome(e)

LEMMA TableInit == LogInit => TableInv
<1> SUFFICES ASSUME LogInit PROVE TableInv
  OBVIOUS
<1>1. WritesOnce /\ OneId /\ NoIdSkipped
  BY DEF LogInit, NoRow, WritesOnce, OneId, NoIdSkipped
<1> QED BY <1>1, LogTypeInit DEF TableInv

\* A step that leaves the ids alone.
LEMMA TableKept ==
    ASSUME TableInv, LogTypeOK', nextId' = nextId,
           \A f \in Entry : row'[f].id = row[f].id,
           \A f \in Entry :
              \/ append'[f].pc = append[f].pc
              \/ append'[f].pc \in {"put", "etag", "done"}
              \/ append[f].pc \in {"new", "last"}
    PROVE  TableInv'
<1>1. WritesOnce'
  BY DEF TableInv, WritesOnce
<1>2. OneId' /\ NoIdSkipped'
  BY DEF TableInv, OneId, NoIdSkipped
<1> QED BY <1>1, <1>2 DEF TableInv

\* A step that writes the next row.
LEMMA WriteKeepsTable ==
    ASSUME TableInv, LogTypeOK', NEW e \in Entry, At(e, "insert"), WriteRow(e),
           NEW pc \in {"put", "done"}, Goto(e, pc), UNCHANGED mirror
    PROVE  TableInv' /\ LogGrows
<1>1. append \in [Entry -> Frame] /\ row \in [Entry -> Row] /\ nextId \in Nat \ {0}
      /\ append'[e].pc \in {"put", "done"} /\ (\A f \in Entry : row[f].id < nextId)
      /\ (\A f \in Entry \ {e} : append'[f] = append[f])
  BY DEF TableInv, LogTypeOK, Goto
<1>2. /\ row'[e].id = nextId /\ nextId' = nextId + 1
      /\ \A f \in Entry \ {e} : row'[f] = row[f]
  BY <1>1 DEF WriteRow, NoRow
<1>3. row[e].id = 0
  BY DEF TableInv, WritesOnce, At
<1>4. WritesOnce'
  BY <1>1, <1>2 DEF TableInv, WritesOnce
<1>5. \A f \in Entry : row[f].id \in Nat
  BY <1>1 DEF Row
<1>6. OneId'
  BY <1>1, <1>2, <1>5 DEF TableInv, OneId
<1>7. NoIdSkipped'
  <2> SUFFICES ASSUME NEW i \in Nat \ {0}, i < nextId' PROVE \E f \in Entry : row'[f].id = i
    BY DEF NoIdSkipped
  <2>1. CASE i = nextId
    BY <1>2, <2>1
  <2>2. CASE i # nextId
    <3>1. i < nextId
      BY <1>1, <1>2, <2>2
    <3>2. PICK f \in Entry : row[f].id = i
      BY <3>1 DEF TableInv, NoIdSkipped
    <3>3. f # e
      BY <1>3, <3>2
    <3> QED BY <1>2, <3>2, <3>3
  <2> QED BY <2>1, <2>2
<1>8. ASSUME NEW f \in Entry PROVE RowMayBecome(f)
  <2>1. CASE f = e
    BY <1>1, <1>2, <1>3, <2>1 DEF RowMayBecome, At
  <2>2. CASE f # e
    BY <1>1, <1>2, <2>2 DEF RowMayBecome, At
  <2> QED BY <2>1, <2>2
<1> QED BY <1>1, <1>2, <1>4, <1>6, <1>7, <1>8 DEF TableInv, LogGrows

\* A step that writes no row, and changes the copy only of a call under way.
LEMMA NoRowWritten ==
    ASSUME TableInv, LogTypeOK', nextId' = nextId,
           \A f \in Entry : row'[f].id = row[f].id /\ (Present(f)' => Present(f)),
           \A f \in Entry :
              \/ append'[f].pc = append[f].pc
              \/ append[f].pc # "done" /\ append'[f].pc \in {"put", "etag", "done"}
              \/ append[f].pc \in {"new", "last"},
           \A f \in Entry : At(f, "done") /\ mirror'[f] = "good" => mirror[f] = "good"
    PROVE  TableInv' /\ LogGrows
<1>1. nextId \in Nat /\ row \in [Entry -> Row] /\ row' \in [Entry -> Row]
  BY DEF TableInv, LogTypeOK
<1>2. ASSUME NEW f \in Entry PROVE RowMayBecome(f)
  <2>1. row[f].id # 0 /\ row[f].gone => row'[f].gone
    BY <1>1 DEF Present, Row
  <2>2. At(f, "done") => append'[f].pc = "done"
    BY DEF At
  <2> QED BY <2>1, <2>2 DEF RowMayBecome
<1>3. TableInv'
  BY TableKept
<1> QED BY <1>1, <1>2, <1>3 DEF LogGrows

LEMMA CallKeepsTable ==
    ASSUME TableInv, LogTypeOK', NEW e \in Entry, Lock(e) \/ AppendStep(e)
    PROVE  TableInv' /\ LogGrows
<1> DEFINE Moves == \A f \in Entry :
              \/ append'[f].pc = append[f].pc
              \/ append[f].pc # "done" /\ append'[f].pc \in {"put", "etag", "done"}
              \/ append[f].pc \in {"new", "last"}
           Kept == \A f \in Entry : row'[f].id = row[f].id /\ (Present(f)' => Present(f))
           Copies == \A f \in Entry : At(f, "done") /\ mirror'[f] = "good"
                                      => mirror[f] = "good"
<1>1. append \in [Entry -> Frame] /\ row \in [Entry -> Row] /\ mirror \in [Entry -> Object]
  BY DEF TableInv, LogTypeOK
<1>2. CASE Lock(e) \/ LastHash(e)
  <2>1. Moves
    BY <1>1, <1>2 DEF Lock, LastHash, Goto, At
  <2>2. Kept /\ Copies /\ nextId' = nextId
    BY <1>2 DEF Lock, LastHash, Present
  <2> QED BY <2>1, <2>2, NoRowWritten
<1>3. CASE Insert(e)
  BY <1>3, WriteKeepsTable DEF Insert, Return
<1>4. CASE WriteFails(e)
  <2>1. Goto(e, "done") /\ UNCHANGED mirror /\ append[e].pc \in {"last", "insert"}
    BY <1>4 DEF WriteFails, Return
  <2>2. CASE UNCHANGED <<row, nextId>>
    <3>1. Moves
      BY <1>1, <2>1 DEF Goto
    <3>2. Kept /\ Copies
      BY <2>1, <2>2 DEF Present
    <3> QED BY <2>2, <3>1, <3>2, NoRowWritten
  <2>3. CASE At(e, "insert") /\ WriteRow(e)
    BY <2>1, <2>3, WriteKeepsTable
  <2> QED BY <1>4, <2>2, <2>3 DEF WriteFails
<1>5. CASE PutEntry(e) \/ PutFails(e) \/ SetEtag(e) \/ EtagFails(e)
  <2>1. append[e].pc \in {"put", "etag"} /\ nextId' = nextId
    BY <1>5 DEF PutEntry, PutFails, SetEtag, EtagFails, At
  <2>2. PICK pc \in {"etag", "done"} : Goto(e, pc)
    BY <1>5 DEF PutEntry, PutFails, SetEtag, EtagFails, Return
  <2>3. Moves
    BY <1>1, <2>1, <2>2 DEF Goto
  <2>4. Kept
    BY <1>1, <1>5 DEF PutEntry, PutFails, SetEtag, EtagFails, Row, Present
  <2>5. Copies
    BY <1>1, <1>5, <2>1 DEF PutEntry, PutFails, SetEtag, EtagFails, At
  <2> QED BY <2>1, <2>3, <2>4, <2>5, NoRowWritten
<1> QED BY <1>2, <1>3, <1>4, <1>5 DEF AppendStep

LEMMA WorldKeepsTable ==
    ASSUME TableInv, LogTypeOK', NEW e \in Entry, NEW l \in Log, Outside(e) \/ Crash(l)
    PROVE  TableInv' /\ LogGrows
<1>1. append \in [Entry -> Frame] /\ row \in [Entry -> Row] /\ mirror \in [Entry -> Object]
  BY DEF TableInv, LogTypeOK
<1>2. CASE DamageObject(e)
  BY <1>1, <1>2, NoRowWritten DEF DamageObject, Present
<1>3. CASE LoseRow(e)
  BY <1>1, <1>3, NoRowWritten DEF LoseRow, Present, Row
<1>4. CASE Crash(l)
  <2>1. \A f \in Entry : \/ append'[f].pc = append[f].pc
                         \/ append[f].pc # "done" /\ append'[f].pc = "done"
    BY <1>1, <1>4 DEF Crash, InAppend, Frame
  <2> QED BY <1>4, <2>1, NoRowWritten DEF Crash, Present
<1> QED BY <1>2, <1>3, <1>4 DEF Outside

LEMMA TableStep ==
    ASSUME TableInv, [ScanNext]_scanVars PROVE TableInv' /\ LogGrows
<1>1. LogTypeOK'
  BY LogTypeStep DEF TableInv
<1>2. CASE UNCHANGED logVars
  BY <1>1, <1>2, NoRowWritten DEF logVars, Present
<1>3. CASE \E e \in Entry : Lock(e) \/ AppendStep(e)
  BY <1>1, <1>3, CallKeepsTable
<1>4. CASE \E e \in Entry : Outside(e)
  <2>1. PICK e \in Entry : Outside(e)
    BY <1>4
  <2>2. LogOf[e] \in Log
    BY AuditAssumption
  <2> QED BY <1>1, <2>1, <2>2, WorldKeepsTable
<1>5. CASE \E l \in Log : Crash(l)
  <2>1. PICK l \in Log : Crash(l)
    BY <1>5
  <2>2. CASE Entry = {}
    BY <1>1, <2>1, <2>2, NoRowWritten DEF Crash
  <2>3. CASE Entry # {}
    BY <1>1, <2>1, <2>3, WorldKeepsTable
  <2> QED BY <2>2, <2>3
<1> QED BY <1>2, <1>3, <1>4, <1>5, ScanStepIsLogStep DEF LogAction

----------------------------------------------------------------------------
(* A page: LIMIT takes the first rows after the cursor, and takes them all *)
(* unless it is full                                                       *)

LEMMA LeastOf ==
    ASSUME NEW T \in SUBSET Nat, T # {} PROVE \E x \in T : \A y \in T : x <= y
<1>1. PICK x \in T : \A y \in T : ~(<<y, x>> \in OpToRel(<, Nat))
  BY WFMin, NatLessThanWellFounded
<1>2. ASSUME NEW y \in T PROVE x <= y
  <2>1. ~(y < x)
    BY <1>1 DEF OpToRel
  <2> QED BY <2>1
<1> QED BY <1>2

LEMMA GreatestOf ==
    ASSUME NEW T \in SUBSET Nat, T # {}, NEW n \in Nat, \A t \in T : t <= n
    PROVE  \E x \in T : \A y \in T : y <= x
<1> DEFINE U == {i \in Nat : \A t \in T : t <= i}
<1>1. PICK x \in U : \A y \in U : x <= y
  <2>1. U \in SUBSET Nat /\ U # {}
    OBVIOUS
  <2> HIDE DEF U
  <2> QED BY <2>1, LeastOf
<1>2. CASE x \in T
  BY <1>1, <1>2
<1>3. CASE x \notin T
  <2>1. PICK t \in T : TRUE
    OBVIOUS
  <2>2. x # 0 /\ x - 1 \in Nat
    BY <1>1, <1>3, <2>1
  <2>3. \A y \in T : y <= x - 1
    BY <1>1, <1>3, <2>2
  <2>4. x - 1 \in U
    BY <2>2, <2>3
  <2> QED BY <1>1, <2>2, <2>4
<1> QED BY <1>2, <1>3

\* Ids are numbers, and each is the id of one row: there are finitely many.
LEMMA RowsFinite == ASSUME TableInv PROVE IsFiniteSet({f \in Entry : After(f)})
<1> DEFINE W == {f \in Entry : row[f].id # 0}
           id == [f \in W |-> row[f].id]
<1>1. row \in [Entry -> Row] /\ nextId \in Nat /\ \A f \in Entry : row[f].id < nextId
  BY DEF TableInv, LogTypeOK
<1>2. \A f \in Entry : row[f].id \in Nat
  BY <1>1 DEF Row
<1>3. id \in Injection(W, 0..nextId)
  <2>1. id \in [W -> 0..nextId]
    BY <1>1, <1>2
  <2>2. ASSUME NEW a \in W, NEW b \in W, id[a] = id[b] PROVE a = b
    BY <2>2 DEF TableInv, OneId
  <2> HIDE DEF W, id
  <2>3. \A a, b \in W : id[a] = id[b] => a = b
    BY <2>2
  <2> QED BY <2>1, <2>3, Fun_IsInj
<1>4. IsFiniteSet(0..nextId)
  BY <1>1, FS_Interval
<1>5. IsFiniteSet(W)
  <2> HIDE DEF W, id
  <2> QED BY <1>3, <1>4, FS_Injection
<1>6. {f \in Entry : After(f)} \in SUBSET W
  BY DEF After, Present
<1> HIDE DEF W
<1> QED BY <1>5, <1>6, FS_Subset

UpTo(e) == {f \in Entry : After(f) /\ row[f].id <= row[e].id}

LEMMA UpToFinite ==
    ASSUME TableInv, NEW e \in Entry PROVE IsFiniteSet(UpTo(e)) /\ Cardinality(UpTo(e)) \in Nat
<1>1. UpTo(e) \in SUBSET {f \in Entry : After(f)}
  BY DEF UpTo
<1>2. IsFiniteSet(UpTo(e))
  BY <1>1, RowsFinite, FS_Subset
<1> QED BY <1>2, FS_CardinalityType

LEMMA PageIsUpTo == Page = {e \in Entry : After(e) /\ Cardinality(UpTo(e)) <= BatchSize}
BY DEF Page, UpTo

LEMMA PageFinite ==
    ASSUME TableInv PROVE IsFiniteSet(Page) /\ Cardinality(Page) \in Nat
<1>1. Page \in SUBSET {f \in Entry : After(f)}
  BY DEF Page
<1>2. IsFiniteSet(Page)
  BY <1>1, RowsFinite, FS_Subset
<1> QED BY <1>2, FS_CardinalityType

\* A page leaves out no row before one it has.
LEMMA PageHasEarlier ==
    ASSUME TableInv, NEW e \in Page, NEW f \in Entry, After(f), row[f].id <= row[e].id
    PROVE  f \in Page
<1>1. e \in Entry /\ Cardinality(UpTo(e)) <= BatchSize
  BY PageIsUpTo
<1>2. \A g \in Entry : row[g].id \in Nat
  BY DEF TableInv, LogTypeOK, Row
<1>3. UpTo(f) \in SUBSET UpTo(e)
  BY <1>1, <1>2 DEF UpTo
<1>4. Cardinality(UpTo(f)) <= Cardinality(UpTo(e))
  BY <1>1, <1>3, UpToFinite, FS_Subset
<1>5. Cardinality(UpTo(f)) <= BatchSize
  BY <1>1, <1>4, UpToFinite, ScanAssumption
<1> QED BY <1>5, PageIsUpTo

LEMMA PageIsLimited == ASSUME TableInv PROVE Cardinality(Page) <= BatchSize
<1>1. CASE Page = {}
  BY <1>1, FS_EmptySet, ScanAssumption
<1>2. CASE Page # {}
  <2> DEFINE T == {row[e].id : e \in Page}
  <2>1. nextId \in Nat /\ \A e \in Entry : row[e].id \in Nat
    BY DEF TableInv, LogTypeOK, Row
  <2>2. \A e \in Entry : row[e].id <= nextId
    <3>1. \A e \in Entry : row[e].id < nextId
      BY DEF TableInv, LogTypeOK
    <3> SUFFICES ASSUME NEW e \in Entry PROVE row[e].id <= nextId
      OBVIOUS
    <3>2. row[e].id \in Nat /\ row[e].id < nextId
      BY <2>1, <3>1
    <3> QED BY <2>1, <3>2
  <2>3. Page \subseteq Entry
    BY DEF Page
  <2>4. T \in SUBSET Nat /\ T # {} /\ (\A t \in T : t <= nextId) /\ nextId \in Nat
    BY <1>2, <2>1, <2>2, <2>3
  <2>5. \E x \in T : \A y \in T : y <= x
    <3> HIDE DEF T
    <3> QED BY <2>4, GreatestOf
  <2>6. PICK e \in Page : \A f \in Page : row[f].id <= row[e].id
    BY <2>5
  <2>7. Page \in SUBSET UpTo(e)
    BY <2>3, <2>6, PageIsUpTo DEF UpTo
  <2>8. Cardinality(Page) <= Cardinality(UpTo(e))
    BY <2>3, <2>7, UpToFinite, FS_Subset
  <2>9. Cardinality(UpTo(e)) <= BatchSize
    BY PageIsUpTo
  <2> QED BY <2>3, <2>8, <2>9, UpToFinite, PageFinite, ScanAssumption
<1> QED BY <1>1, <1>2

\* A page that is not full is the rest of the table (tamperdetect.go:471-513).
LEMMA ShortPageIsLast ==
    ASSUME TableInv, Cardinality(Page) # BatchSize, NEW e \in Entry, After(e)
    PROVE  e \in Page
<1> SUFFICES ASSUME e \notin Page PROVE FALSE
  OBVIOUS
<1> DEFINE Left == {f \in Entry : After(f) /\ f \notin Page}
           T == {row[f].id : f \in Left}
<1>1. \A f \in Entry : row[f].id \in Nat
  BY DEF TableInv, LogTypeOK, Row
<1>2. T \in SUBSET Nat /\ T # {}
  BY <1>1
<1>3. \E x \in T : \A y \in T : x <= y
  <2> HIDE DEF T
  <2> QED BY <1>2, LeastOf
<1>4. PICK g \in Left : \A f \in Left : row[g].id <= row[f].id
  BY <1>3
<1>5. UpTo(g) = Page \cup {g}
  <2>1. ASSUME NEW f \in Entry, After(f), row[f].id <= row[g].id PROVE f \in Page \cup {g}
    <3>1. CASE f \in Left
      <4>1. row[f].id = row[g].id
        BY <1>1, <1>4, <2>1, <3>1
      <4>2. f = g
        BY <1>4, <2>1, <4>1 DEF TableInv, OneId, After, Present
      <4> QED BY <4>2
    <3> QED BY <2>1, <3>1
  <2>2. ASSUME NEW f \in Page PROVE f \in UpTo(g)
    <3>1. f \in Entry /\ After(f)
      BY DEF Page
    <3>2. ~(row[g].id <= row[f].id)
      BY <1>4, <3>1, PageHasEarlier
    <3> QED BY <1>1, <1>4, <3>1, <3>2 DEF UpTo
  <2>3. g \in UpTo(g)
    BY <1>1, <1>4 DEF UpTo
  <2> QED BY <2>1, <2>2, <2>3 DEF UpTo
<1>6. Cardinality(UpTo(g)) = Cardinality(Page) + 1
  BY <1>4, <1>5, PageFinite, FS_AddElement
<1>7. ~(Cardinality(UpTo(g)) <= BatchSize)
  BY <1>4, PageIsUpTo
<1> QED BY <1>6, <1>7, PageFinite, PageIsLimited, ScanAssumption

LEMMA NoPageNoRow ==
    ASSUME TableInv, Page = {}, NEW e \in Entry PROVE ~After(e)
<1>1. Cardinality(Page) # BatchSize
  BY FS_EmptySet, ScanAssumption
<1> QED BY <1>1, ShortPageIsLast

----------------------------------------------------------------------------
(* The invariant of a pass *)

\* What the pass has to report, as long as it is there.
Tracked(e) == e \in start.damaged \/ \E p \in start.gaps : e = p[1] \/ e = p[2]

\* What was wrong when the pass began stays wrong: ids are not reused, rows do
\* not come back, and no copy is repaired once its call has returned.
SoundStart(s) ==
    /\ \A e \in Entry : ~At(e, "done") => e \in s.open
    /\ \A e \in s.damaged : At(e, "done") /\ row[e].id # 0 /\ mirror[e] # "good"
    /\ \A p \in s.gaps :
          /\ row[p[1]].id # 0 /\ row[p[1]].id < row[p[2]].id
          /\ row[p[1]].id + 1 # row[p[2]].id
          /\ \A f \in Entry : Present(f) => ~Between(p[1], f, p[2])

StartSound == SoundStart(start)

InPage(e) == \E m \in scan.page : m.entry = e

\* What is left of a page has been read from the table, each row once.
PageSound ==
    /\ \A m \in scan.page : m.id # 0 /\ row[m.entry].id = m.id
    /\ \A m, n \in scan.page : m.entry = n.entry => m = n
    /\ scan.pc # "rows" => scan.page = {}
    /\ scan.pc = "fetch" => scan.after = scan.prev

\* No row is passed over within a page, and none is left after the last page
\* of those there were when the pass began.
PageIsFull ==
    /\ \A m \in scan.page, e \in Entry :
          Present(e) /\ scan.prev < row[e].id /\ row[e].id <= m.id => InPage(e)
    /\ scan.pc = "rows" /\ ~scan.full =>
          \A e \in Entry : Tracked(e) /\ Present(e) /\ scan.prev < row[e].id => InPage(e)

NotInside(p, i) == ~(row[p[1]].id < i /\ i < row[p[2]].id)

\* The cursor steps over a gap in one step.
GapsAhead ==
    \A p \in start.gaps : NotInside(p, scan.prev) /\ \A m \in scan.page : NotInside(p, m.id)

DamageTold ==
    \A e \in start.damaged : HasReader /\ Present(e) /\ row[e].id <= scan.prev =>
        Reported(row[e].id, {"missing", "mismatch", "read_error"})

GapsTold ==
    \A p \in start.gaps : Present(p[1]) /\ Present(p[2]) /\ row[p[2]].id <= scan.prev =>
        Reported(row[p[1]].id + 1, {"gap"})

AllSeen ==
    scan.pc = "report" /\ ~scan.failed =>
        \A e \in Entry : Tracked(e) /\ Present(e) => row[e].id <= scan.prev

FoundHasId == \A f \in scan.found : f.id # 0

ScanInv ==
    /\ TableInv /\ ScanTypeOK /\ StartSound
    /\ PageSound /\ PageIsFull /\ GapsAhead
    /\ FoundHasId /\ NoFalseAlarm /\ DamageTold /\ GapsTold /\ AllSeen

LEMMA IdsAreNat == ASSUME TableInv PROVE nextId \in Nat /\ \A e \in Entry : row[e].id \in Nat
BY DEF TableInv, LogTypeOK, Row

LEMMA StartTypes ==
    ASSUME start \in Start
    PROVE  /\ start.damaged \subseteq Entry
           /\ \A p \in start.gaps : p[1] \in Entry /\ p[2] \in Entry
BY DEF Start

LEMMA PageTypes ==
    ASSUME scan \in Scan
    PROVE  /\ \A m \in scan.page : m \in RowMeta /\ m.entry \in Entry /\ m.id \in Nat
           /\ scan.prev \in Nat /\ scan.after \in Nat /\ scan.pc \in ScanPc
BY DEF Scan, RowMeta

\* What the detector has read is still so, and new rows come last.
LEMMA GrowthKeepsOld ==
    ASSUME TableInv, TableInv', LogGrows, NEW e \in Entry
    PROVE  /\ row[e].id # 0 => row'[e].id = row[e].id /\ (Present(e)' => Present(e))
           /\ \A i \in Nat : Present(e)' /\ row'[e].id <= i /\ i < nextId
                             => Present(e) /\ row'[e].id = row[e].id
<1>1. nextId \in Nat /\ row[e].id \in Nat /\ row \in [Entry -> Row] /\ row' \in [Entry -> Row]
  BY IdsAreNat DEF TableInv, LogTypeOK
<1>2. RowMayBecome(e)
  BY DEF LogGrows
<1>3. row[e].id # 0 => row'[e].id = row[e].id /\ (Present(e)' => Present(e))
  BY <1>1, <1>2 DEF RowMayBecome, Present, Row
<1>4. row[e].id = 0 => row'[e].id = 0 \/ row'[e].id = nextId
  BY <1>2 DEF RowMayBecome
<1>5. ASSUME NEW i \in Nat, Present(e)', row'[e].id <= i, i < nextId
      PROVE  Present(e) /\ row'[e].id = row[e].id
  <2>1. row[e].id # 0
    BY <1>1, <1>4, <1>5 DEF Present
  <2> QED BY <1>3, <1>5, <2>1
<1> QED BY <1>3, <1>5

LEMMA StartStaysSound ==
    ASSUME TableInv, TableInv', LogGrows, start \in Start, StartSound, UNCHANGED start
    PROVE  StartSound'
<1>1. ASSUME NEW e \in Entry, append'[e].pc # "done" PROVE e \in start'.open
  BY <1>1 DEF StartSound, SoundStart, LogGrows, RowMayBecome, At
<1>2. ASSUME NEW e \in start'.damaged
      PROVE  append'[e].pc = "done" /\ row'[e].id # 0 /\ mirror'[e] # "good"
  BY <1>2, StartTypes DEF StartSound, SoundStart, LogGrows, RowMayBecome
<1>3. ASSUME NEW p \in start'.gaps
      PROVE  /\ row'[p[1]].id # 0 /\ row'[p[1]].id < row'[p[2]].id
             /\ row'[p[1]].id + 1 # row'[p[2]].id
             /\ \A f \in Entry : Present(f)' => ~Between(p[1], f, p[2])'
  <2>1. p \in start.gaps /\ p[1] \in Entry /\ p[2] \in Entry
    BY <1>3, StartTypes
  <2>2. /\ row[p[1]].id # 0 /\ row[p[1]].id < row[p[2]].id
        /\ row[p[1]].id + 1 # row[p[2]].id
        /\ \A f \in Entry : Present(f) => ~Between(p[1], f, p[2])
    BY <2>1 DEF StartSound, SoundStart
  <2>3. row[p[1]].id \in Nat /\ row[p[2]].id \in Nat /\ row[p[2]].id # 0
        /\ row[p[2]].id < nextId
    BY <2>1, <2>2, IdsAreNat DEF TableInv, LogTypeOK
  <2>4. row'[p[1]].id = row[p[1]].id /\ row'[p[2]].id = row[p[2]].id
    BY <2>1, <2>2, <2>3, GrowthKeepsOld
  <2>5. ASSUME NEW f \in Entry, Present(f)', Between(p[1], f, p[2])' PROVE FALSE
    <3>1. row'[p[1]].id < row'[f].id /\ row'[f].id < row'[p[2]].id
      BY <2>5 DEF Between
    <3>2. row'[f].id \in Nat
      BY IdsAreNat DEF TableInv, LogTypeOK, Row
    <3>3. Present(f) /\ row'[f].id = row[f].id
      BY <2>3, <2>4, <2>5, <3>1, <3>2, GrowthKeepsOld
    <3> QED BY <2>2, <2>4, <3>1, <3>3 DEF Between
  <2> QED BY <2>2, <2>4, <2>5
<1> QED BY <1>1, <1>2, <1>3 DEF StartSound, SoundStart, At

\* Calls and the world beside a pass.
LEMMA GrowthKeepsPass ==
    ASSUME ScanInv, TableInv', LogGrows, UNCHANGED <<scan, start>>
    PROVE  ScanInv'
<1>1. /\ TableInv /\ scan \in Scan /\ start \in Start /\ nextId \in Nat /\ nextId' \in Nat
      /\ nextId <= nextId' /\ scan.prev < nextId /\ scan.prev \in Nat
  BY IdsAreNat, PageTypes DEF ScanInv, ScanTypeOK, LogGrows, TableInv, LogTypeOK
<1>2. ASSUME NEW m \in scan.page
      PROVE  /\ m.entry \in Entry /\ m.id \in Nat /\ m.id # 0 /\ row[m.entry].id = m.id
             /\ row'[m.entry].id = m.id /\ m.id < nextId
  <2>1. m.entry \in Entry /\ m.id \in Nat /\ m.id # 0 /\ row[m.entry].id = m.id
    BY <1>1, PageTypes DEF ScanInv, PageSound
  <2>2. row[m.entry].id < nextId
    BY <2>1 DEF ScanInv, TableInv, LogTypeOK
  <2> QED BY <1>1, <2>1, <2>2, GrowthKeepsOld
<1>3. ASSUME NEW e \in Entry, Tracked(e) PROVE row[e].id # 0
  BY <1>1, <1>3, StartTypes, IdsAreNat DEF ScanInv, StartSound, SoundStart, Tracked
<1>4. ScanTypeOK'
  BY <1>1 DEF ScanInv, ScanTypeOK
<1>5. StartSound'
  BY <1>1, StartStaysSound DEF ScanInv
<1>6. PageSound'
  BY <1>2 DEF ScanInv, PageSound
<1>7. PageIsFull'
  <2>1. ASSUME NEW m \in scan.page, NEW e \in Entry,
               Present(e)', scan.prev < row'[e].id, row'[e].id <= m.id
        PROVE  InPage(e)
    <3>1. Present(e) /\ row'[e].id = row[e].id
      BY <1>1, <1>2, <2>1, GrowthKeepsOld
    <3> QED BY <2>1, <3>1 DEF ScanInv, PageIsFull
  <2>2. ASSUME scan.pc = "rows", ~scan.full, NEW e \in Entry, Tracked(e), Present(e)',
               scan.prev < row'[e].id
        PROVE  InPage(e)
    <3>1. Present(e) /\ row'[e].id = row[e].id
      BY <1>1, <1>3, <2>2, GrowthKeepsOld
    <3> QED BY <2>2, <3>1 DEF ScanInv, PageIsFull
  <2> QED BY <2>1, <2>2 DEF PageIsFull, InPage, Tracked
<1>8. ASSUME NEW p \in start.gaps
      PROVE  /\ p[1] \in Entry /\ p[2] \in Entry
             /\ row'[p[1]].id = row[p[1]].id /\ row'[p[2]].id = row[p[2]].id
             /\ Present(p[1])' => Present(p[1])
             /\ Present(p[2])' => Present(p[2])
  <2>1. p[1] \in Entry /\ p[2] \in Entry
    BY <1>1, StartTypes
  <2>2. row[p[1]].id # 0 /\ row[p[2]].id # 0
    BY <1>3, <2>1 DEF Tracked
  <2> QED BY <1>1, <2>1, <2>2, GrowthKeepsOld
<1>9. GapsAhead'
  BY <1>8 DEF ScanInv, GapsAhead, NotInside
<1>10. NoFalseAlarm'
  <2> SUFFICES ASSUME NEW f \in scan.found
               PROVE  \E e \in Entry :
                         /\ row'[e].id = f.id
                         /\ f.kind = "gap" => row'[e].gone
                         /\ f.kind \in {"missing", "mismatch"} =>
                               mirror'[e] # "good" \/ e \in start.open
    BY DEF NoFalseAlarm
  <2>1. PICK e \in Entry :
           /\ row[e].id = f.id
           /\ f.kind = "gap" => row[e].gone
           /\ f.kind \in {"missing", "mismatch"} => mirror[e] # "good" \/ e \in start.open
    BY DEF ScanInv, NoFalseAlarm
  <2>2. RowMayBecome(e) /\ row[e].id # 0
    BY <2>1 DEF LogGrows, ScanInv, FoundHasId
  <2>3. f.kind = "gap" => row'[e].gone
    BY <2>1, <2>2 DEF RowMayBecome
  <2>4. f.kind \in {"missing", "mismatch"} => mirror'[e] # "good" \/ e \in start.open
    BY <2>1, <2>2 DEF RowMayBecome, ScanInv, StartSound, SoundStart
  <2> QED BY <2>1, <2>2, <2>3, <2>4 DEF RowMayBecome
<1>11. DamageTold'
  <2> SUFFICES ASSUME NEW e \in start.damaged, HasReader, Present(e)',
                      row'[e].id <= scan.prev
               PROVE  Reported(row'[e].id, {"missing", "mismatch", "read_error"})
    BY DEF DamageTold, Reported, HasReader
  <2>1. e \in Entry /\ Present(e) /\ row'[e].id = row[e].id
    BY <1>1, <1>3, StartTypes, GrowthKeepsOld DEF Tracked
  <2> QED BY <2>1 DEF ScanInv, DamageTold
<1>12. GapsTold'
  BY <1>8 DEF ScanInv, GapsTold, Reported
<1>13. AllSeen'
  <2> SUFFICES ASSUME scan.pc = "report", ~scan.failed, NEW e \in Entry, Tracked(e),
                      Present(e)'
               PROVE  row'[e].id <= scan.prev
    BY DEF AllSeen, Tracked
  <2>1. Present(e) /\ row'[e].id = row[e].id
    BY <1>1, <1>3, GrowthKeepsOld
  <2> QED BY <2>1 DEF ScanInv, AllSeen
<1>14. FoundHasId'
  BY DEF ScanInv, FoundHasId
<1> QED BY <1>4, <1>5, <1>6, <1>7, <1>9, <1>10, <1>11, <1>12, <1>13, <1>14 DEF ScanInv

LEMMA NowIsSound == ASSUME TableInv PROVE Now \in Start /\ SoundStart(Now)
<1>1. Now \in Start
  BY DEF Now, Start
<1>2. ASSUME NEW e \in Entry, ~At(e, "done") PROVE e \in Now.open
  BY <1>2 DEF Now
<1>3. ASSUME NEW e \in Now.damaged
      PROVE  At(e, "done") /\ row[e].id # 0 /\ mirror[e] # "good"
  BY DEF Now, Damaged, Present
<1>4. ASSUME NEW p \in Now.gaps
      PROVE  /\ row[p[1]].id # 0 /\ row[p[1]].id < row[p[2]].id
             /\ row[p[1]].id + 1 # row[p[2]].id
             /\ \A f \in Entry : Present(f) => ~Between(p[1], f, p[2])
  BY DEF Now, Gap, Precedes, Present
<1> QED BY <1>1, <1>2, <1>3, <1>4 DEF SoundStart

\* A pass that has read nothing, or has given up.
LEMMA NothingRead ==
    ASSUME TableInv', start' \in Start, StartSound', scan' \in Scan,
           scan'.page = {}, scan'.prev = 0, scan'.after = 0, scan'.found = {},
           scan'.pc # "rows", scan'.pc = "report" => scan'.failed
    PROVE  ScanInv'
<1>1. nextId' \in Nat \ {0} /\ \A e \in Entry : row'[e].id \in Nat
  BY DEF TableInv, LogTypeOK, Row
<1>2. ScanTypeOK'
  BY <1>1 DEF ScanTypeOK
<1>3. PageSound' /\ PageIsFull' /\ FoundHasId' /\ NoFalseAlarm' /\ AllSeen'
  BY DEF PageSound, PageIsFull, FoundHasId, NoFalseAlarm, AllSeen
<1>4. ASSUME NEW p \in start'.gaps
      PROVE  /\ p[1] \in Entry /\ p[2] \in Entry
             /\ row'[p[1]].id # 0 /\ row'[p[1]].id < row'[p[2]].id
  BY DEF Start, StartSound, SoundStart
<1>5. GapsAhead' /\ GapsTold'
  BY <1>1, <1>4 DEF GapsAhead, NotInside, GapsTold
<1>6. DamageTold'
  <2>1. ASSUME NEW e \in start'.damaged, row'[e].id <= 0 PROVE FALSE
    <3>1. e \in Entry /\ row'[e].id # 0
      BY DEF Start, StartSound, SoundStart
    <3> QED BY <1>1, <2>1, <3>1
  <2> QED BY <2>1 DEF DamageTold
<1> QED BY <1>2, <1>3, <1>5, <1>6 DEF ScanInv

\* SELECT ... LIMIT ?
LEMMA FetchKeepsPass == ASSUME ScanInv, FetchPage PROVE ScanInv'
<1>1. /\ TableInv /\ scan \in Scan /\ start \in Start /\ scan.pc = "fetch"
      /\ scan.page = {} /\ scan.after = scan.prev
      /\ nextId \in Nat /\ scan.prev \in Nat /\ (\A e \in Entry : row[e].id \in Nat)
  BY IdsAreNat, PageTypes DEF ScanInv, ScanTypeOK, PageSound, FetchPage
<1>2. /\ UNCHANGED <<row, nextId, append, mu, mirror, faults, start>>
      /\ scan'.page = {Meta(e) : e \in Page}
      /\ scan'.full = (Cardinality(Page) = BatchSize)
      /\ scan'.pc = IF Page = {} THEN "report" ELSE "rows"
      /\ scan'.after = scan.after /\ scan'.prev = scan.prev
      /\ scan'.found = scan.found /\ scan'.failed = scan.failed
  BY <1>1 DEF FetchPage, logVars, Scan
<1>3. ASSUME NEW e \in Entry
      PROVE  /\ e \in Page => Present(e) /\ scan.prev < row[e].id
             /\ Meta(e) \in RowMeta /\ Meta(e).entry = e /\ Meta(e).id = row[e].id
  <2>1. row[e].etag \in BOOLEAN
    BY <1>1 DEF TableInv, LogTypeOK, Row
  <2> QED BY <1>1, <2>1 DEF Page, After, Meta, RowMeta
<1>4. Page \subseteq Entry
  BY DEF Page
<1>5. TableInv'
  BY <1>1, <1>2 DEF TableInv, LogTypeOK, WritesOnce, OneId, NoIdSkipped
<1>6. ScanTypeOK'
  <2>1. scan' \in Scan
    <3>1. scan'.page \subseteq RowMeta
      BY <1>2, <1>3, <1>4
    <3>2. (Cardinality(Page) = BatchSize) \in BOOLEAN
      OBVIOUS
    <3>3. (IF Page = {} THEN "report" ELSE "rows") \in ScanPc
      BY DEF ScanPc
    <3> QED BY <1>1, <1>2, <3>1, <3>2, <3>3 DEF FetchPage, Scan
  <2>2. \A m \in scan'.page : m.id > scan.prev
    BY <1>1, <1>2, <1>3, <1>4
  <2> QED BY <1>1, <1>2, <2>1, <2>2 DEF ScanInv, ScanTypeOK
<1>7. StartSound'
  BY <1>2 DEF ScanInv, StartSound, SoundStart, At, Present, Between
<1>8. PageSound'
  BY <1>1, <1>2, <1>3, <1>4 DEF PageSound, Present
<1>9. ASSUME NEW e \in Page PROVE \E m \in scan'.page : m.entry = e
  BY <1>2, <1>3, <1>4
<1>10. PageIsFull'
  <2>1. ASSUME NEW m \in scan'.page, NEW e \in Entry,
               Present(e), scan.prev < row[e].id, row[e].id <= m.id
        PROVE  e \in Page
    <3>1. PICK f \in Page : m = Meta(f)
      BY <1>2
    <3>2. After(e) /\ row[e].id <= row[f].id
      BY <1>1, <1>3, <1>4, <2>1, <3>1 DEF After
    <3> QED BY <1>1, <3>2, PageHasEarlier
  <2>2. ASSUME ~scan'.full, NEW e \in Entry, Present(e), scan.prev < row[e].id
        PROVE  e \in Page
    <3>1. After(e)
      BY <1>1, <2>2 DEF After
    <3> QED BY <1>1, <1>2, <2>2, <3>1, ShortPageIsLast
  <2> QED BY <1>2, <1>9, <2>1, <2>2 DEF PageIsFull, InPage, Present
<1>11. GapsAhead'
  <2>1. ASSUME NEW p \in start.gaps, NEW m \in scan'.page
        PROVE  ~(row[p[1]].id < m.id /\ m.id < row[p[2]].id)
    <3>1. PICK f \in Page : m = Meta(f)
      BY <1>2
    <3>2. ~Between(p[1], f, p[2])
      BY <1>3, <1>4 DEF ScanInv, StartSound, SoundStart
    <3> QED BY <1>3, <1>4, <3>1, <3>2 DEF Between
  <2> QED BY <1>2, <2>1 DEF ScanInv, GapsAhead, NotInside
<1>12. NoFalseAlarm' /\ FoundHasId' /\ DamageTold' /\ GapsTold'
  BY <1>2 DEF ScanInv, NoFalseAlarm, FoundHasId, DamageTold, GapsTold, Reported, Present,
              HasReader
<1>13. AllSeen'
  <2> SUFFICES ASSUME Page = {}, NEW e \in Entry, Present(e) PROVE row[e].id <= scan.prev
    BY <1>2 DEF AllSeen, Present, Tracked
  <2>1. ~After(e)
    BY <1>1, NoPageNoRow
  <2> QED BY <1>1, <2>1 DEF After
<1> QED BY <1>5, <1>6, <1>7, <1>8, <1>10, <1>11, <1>12, <1>13 DEF ScanInv

\* The end of a page.
LEMMA EndPageKeepsPass == ASSUME ScanInv, EndPage PROVE ScanInv'
<1>1. /\ TableInv /\ scan \in Scan /\ start \in Start /\ scan.prev \in Nat
      /\ scan.pc = "rows" /\ scan.page = {}
      /\ nextId \in Nat /\ (\A e \in Entry : row[e].id \in Nat)
  BY IdsAreNat, PageTypes DEF ScanInv, ScanTypeOK, EndPage
<1>2. /\ UNCHANGED <<row, nextId, append, mu, mirror, faults, start>>
      /\ scan'.pc = AfterPage /\ AfterPage \in {"fetch", "report"}
      /\ scan'.page = scan.page /\ scan'.full = scan.full
      /\ scan'.after = scan.prev /\ scan'.prev = scan.prev
      /\ scan'.found = scan.found /\ scan'.failed = scan.failed
      /\ scan' \in Scan
  BY <1>1 DEF EndPage, logVars, Scan, AfterPage, ScanPc
<1>3. TableInv'
  BY <1>1, <1>2 DEF TableInv, LogTypeOK, WritesOnce, OneId, NoIdSkipped
<1>4. ScanTypeOK'
  BY <1>1, <1>2 DEF ScanInv, ScanTypeOK
<1>5. StartSound'
  BY <1>2 DEF ScanInv, StartSound, SoundStart, At, Present, Between
<1>6. PageSound' /\ PageIsFull'
  BY <1>1, <1>2 DEF PageSound, PageIsFull
<1>7. GapsAhead' /\ NoFalseAlarm' /\ FoundHasId' /\ DamageTold' /\ GapsTold'
  BY <1>1, <1>2 DEF ScanInv, GapsAhead, NotInside, NoFalseAlarm, FoundHasId, DamageTold,
                    GapsTold, Reported, Present, HasReader
<1>8. AllSeen'
  <2> SUFFICES ASSUME AfterPage = "report", NEW e \in Entry, Tracked(e), Present(e)
               PROVE  row[e].id <= scan.prev
    BY <1>2 DEF AllSeen, Present, Tracked
  <2>1. ~InPage(e)
    BY <1>1 DEF InPage
  <2>2. ~scan.full
    BY DEF AfterPage
  <2>3. ~(scan.prev < row[e].id)
    BY <1>1, <2>1, <2>2 DEF ScanInv, PageIsFull
  <2> QED BY <1>1, <2>3
<1> QED BY <1>3, <1>4, <1>5, <1>6, <1>7, <1>8 DEF ScanInv

\* What is reported of one row m: nothing that is not so, and the damage.
RowFindings(m, findings) ==
    /\ findings \subseteq Finding
    /\ \A f \in findings :
          /\ f.id = m.id /\ f.kind # "gap"
          /\ f.kind \in {"missing", "mismatch"} => mirror[m.entry] # "good"
    /\ HasReader /\ mirror[m.entry] # "good" =>
          \E f \in findings : f.id = m.id /\ f.kind \in {"missing", "mismatch", "read_error"}

LEMMA CheckRowIsTrue ==
    ASSUME TableInv, NEW m \in RowMeta
    PROVE  RowFindings(m, IF HasReader THEN CheckRow(m) ELSE {})
<1>1. mirror[m.entry] \in Object /\ m.id \in Nat /\ m.etag \in BOOLEAN
  BY DEF TableInv, LogTypeOK, RowMeta
<1>2. CASE ~HasReader
  BY <1>2 DEF RowFindings
<1>3. CASE HasReader /\ mirror[m.entry] = "good"
  BY <1>1, <1>3 DEF RowFindings, CheckRow, Rehash
<1>4. CASE HasReader /\ mirror[m.entry] = "none"
  <2>1. CheckRow(m) = {[id |-> m.id, kind |-> "missing"]}
    BY <1>4 DEF CheckRow, Rehash
  <2>2. [id |-> m.id, kind |-> "missing"] \in Finding
    BY <1>1 DEF Finding, FindingKind
  <2>3. mirror[m.entry] # "good"
    BY <1>4
  <2> QED BY <1>4, <2>1, <2>2, <2>3 DEF RowFindings
<1>5. CASE HasReader /\ mirror[m.entry] = "altered"
  <2>1. CheckRow(m) = {[id |-> m.id, kind |-> "mismatch"]}
    BY <1>5 DEF CheckRow, Rehash
  <2>2. [id |-> m.id, kind |-> "mismatch"] \in Finding
    BY <1>1 DEF Finding, FindingKind
  <2>3. mirror[m.entry] # "good"
    BY <1>5
  <2> QED BY <1>5, <2>1, <2>2, <2>3 DEF RowFindings
<1> QED BY <1>1, <1>2, <1>3, <1>4, <1>5 DEF Object

LEMMA UnreadIsTrue ==
    ASSUME NEW m \in RowMeta PROVE RowFindings(m, {[id |-> m.id, kind |-> "read_error"]})
BY DEF RowFindings, RowMeta, Finding, FindingKind

\* Between the last row seen and the next there is none that is not lost.
LEMMA NextIsNext ==
    ASSUME ScanInv, NEW m \in scan.page, Next1(m), NEW e \in Entry, Present(e),
           scan.prev < row[e].id, row[e].id <= m.id
    PROVE  e = m.entry /\ row[e].id = m.id
<1>1. TableInv /\ m.entry \in Entry /\ m.id \in Nat /\ m.id # 0 /\ row[m.entry].id = m.id
  BY PageTypes DEF ScanInv, ScanTypeOK, PageSound
<1>2. PICK n \in scan.page : n.entry = e
  BY DEF ScanInv, PageIsFull, InPage
<1>3. row[e].id = n.id /\ n.id \in Nat
  BY <1>2, PageTypes DEF ScanInv, ScanTypeOK, PageSound
<1>4. m.id <= n.id
  BY DEF Next1
<1>5. row[e].id = m.id
  BY <1>1, <1>3, <1>4
<1> QED BY <1>1, <1>5 DEF TableInv, OneId

\* The continuity check reports an id only when its row is lost.
LEMMA ContinuityIsTrue ==
    ASSUME ScanInv, NEW m \in scan.page, Next1(m), NEW f \in Continuity(m)
    PROVE  /\ f \in Finding /\ f.id # 0 /\ f.kind = "gap"
           /\ \E e \in Entry : row[e].id = f.id /\ row[e].gone
<1>1. /\ TableInv /\ scan.prev \in Nat /\ m.id \in Nat /\ m.id # 0 /\ scan.prev < m.id
      /\ m.entry \in Entry /\ row[m.entry].id = m.id /\ nextId \in Nat
      /\ \A e \in Entry : row[e].id \in Nat /\ row[e].gone \in BOOLEAN
  BY PageTypes, IdsAreNat DEF ScanInv, ScanTypeOK, PageSound, TableInv, LogTypeOK, Row
<1>2. scan.prev # 0 /\ m.id # scan.prev + 1 /\ f = [id |-> scan.prev + 1, kind |-> "gap"]
  BY DEF Continuity
<1>3. scan.prev + 1 \in Nat \ {0} /\ scan.prev + 1 < m.id /\ m.id < nextId
  BY <1>1, <1>2 DEF TableInv, LogTypeOK
<1>4. scan.prev + 1 < nextId
  BY <1>1, <1>3
<1>5. PICK e \in Entry : row[e].id = scan.prev + 1
  BY <1>1, <1>3, <1>4 DEF TableInv, NoIdSkipped
<1>6. ~Present(e)
  BY <1>1, <1>3, <1>5, NextIsNext
<1>7. row[e].gone
  BY <1>1, <1>3, <1>5, <1>6 DEF Present
<1> QED BY <1>1, <1>2, <1>3, <1>5, <1>7 DEF Finding, FindingKind

\* One row is read and compared.
LEMMA SeenKeepsPass ==
    ASSUME ScanInv, scan.pc = "rows", NEW m \in scan.page, Next1(m),
           NEW findings, RowFindings(m, findings), Seen(m, findings),
           UNCHANGED <<logVars, start>>
    PROVE  ScanInv'
<1>1. /\ TableInv /\ scan \in Scan /\ start \in Start /\ scan.prev \in Nat
      /\ m.entry \in Entry /\ m.id \in Nat /\ m.id # 0 /\ row[m.entry].id = m.id
      /\ scan.prev < m.id /\ nextId \in Nat /\ m.id < nextId
      /\ \A e \in Entry : row[e].id \in Nat
  <2>1. TableInv /\ scan \in Scan /\ start \in Start
    BY DEF ScanInv, ScanTypeOK
  <2>2. m.entry \in Entry /\ m.id \in Nat /\ m.id # 0 /\ row[m.entry].id = m.id
    BY <2>1, PageTypes DEF ScanInv, PageSound
  <2>3. row[m.entry].id < nextId
    BY <2>1, <2>2 DEF TableInv, LogTypeOK
  <2>4. scan.prev < m.id /\ scan.prev \in Nat
    BY <2>1, <2>2, PageTypes DEF ScanInv, ScanTypeOK
  <2> QED BY <2>1, <2>2, <2>3, <2>4, IdsAreNat
<1>2. /\ UNCHANGED <<row, nextId, append, mu, mirror, faults, start>>
      /\ scan'.page = scan.page \ {m} /\ scan'.prev = m.id
      /\ scan'.found = scan.found \cup Continuity(m) \cup findings
      /\ scan'.pc = scan.pc /\ scan'.full = scan.full /\ scan'.after = scan.after
      /\ scan'.failed = scan.failed
  BY <1>1 DEF Seen, logVars, Scan
<1>3. ASSUME NEW n \in scan.page, n # m PROVE n.id \in Nat /\ m.id < n.id
  <2>1. n.id \in Nat /\ n.entry \in Entry /\ row[n.entry].id = n.id /\ n.entry # m.entry
    BY <1>1, <1>3, PageTypes DEF ScanInv, PageSound
  <2>2. n.id # m.id
    BY <1>1, <2>1 DEF TableInv, OneId
  <2> QED BY <1>1, <2>1, <2>2 DEF Next1
<1>4. TableInv'
  BY <1>1, <1>2 DEF TableInv, LogTypeOK, WritesOnce, OneId, NoIdSkipped
<1>5. ScanTypeOK'
  <2>1. scan'.found \subseteq Finding
    BY <1>1, <1>2, ContinuityIsTrue DEF Scan, RowFindings
  <2>2. scan' \in Scan
    BY <1>1, <1>2, <2>1 DEF Seen, Scan
  <2>3. scan'.after <= scan'.prev
    BY <1>1, <1>2, PageTypes DEF ScanInv, ScanTypeOK
  <2> QED BY <1>1, <1>2, <1>3, <2>2, <2>3 DEF ScanTypeOK
<1>6. StartSound'
  BY <1>2 DEF ScanInv, StartSound, SoundStart, At, Present, Between
<1>7. PageSound'
  BY <1>2 DEF ScanInv, PageSound
<1>8. ASSUME NEW e \in Entry, InPage(e), m.id < row[e].id
      PROVE  \E n \in scan'.page : n.entry = e
  <2>1. PICK n \in scan.page : n.entry = e
    BY <1>8 DEF InPage
  <2>2. n # m
    BY <1>1, <1>8, <2>1
  <2> QED BY <1>2, <2>1, <2>2
<1>9. PageIsFull'
  <2>1. ASSUME NEW e \in Entry, m.id < row[e].id PROVE scan.prev < row[e].id
    BY <1>1, <2>1
  <2>2. ASSUME NEW n \in scan'.page, NEW e \in Entry, Present(e), m.id < row[e].id,
               row[e].id <= n.id
        PROVE  \E o \in scan'.page : o.entry = e
    <3>1. n \in scan.page
      BY <1>2
    <3>2. InPage(e)
      BY <2>1, <2>2, <3>1 DEF ScanInv, PageIsFull
    <3> QED BY <1>8, <2>2, <3>2
  <2>3. ASSUME ~scan.full, NEW e \in Entry, Tracked(e), Present(e), m.id < row[e].id
        PROVE  \E o \in scan'.page : o.entry = e
    <3>1. InPage(e)
      BY <2>1, <2>3 DEF ScanInv, PageIsFull
    <3> QED BY <1>8, <2>3, <3>1
  <2> QED BY <1>2, <2>2, <2>3 DEF PageIsFull, InPage, Present, Tracked
<1>10. GapsAhead'
  BY <1>2 DEF ScanInv, GapsAhead, NotInside
<1>11. NoFalseAlarm' /\ FoundHasId'
  <2>1. ASSUME NEW f \in scan'.found
        PROVE  /\ f.id # 0
               /\ \E e \in Entry :
                     /\ row[e].id = f.id
                     /\ f.kind = "gap" => row[e].gone
                     /\ f.kind \in {"missing", "mismatch"} =>
                           mirror[e] # "good" \/ e \in start.open
    <3>1. CASE f \in scan.found
      BY <3>1 DEF ScanInv, NoFalseAlarm, FoundHasId
    <3>2. CASE f \in Continuity(m)
      <4>1. f.id # 0 /\ f.kind = "gap" /\ \E e \in Entry : row[e].id = f.id /\ row[e].gone
        BY <3>2, ContinuityIsTrue
      <4> QED BY <4>1
    <3>3. CASE f \in findings
      BY <1>1, <3>3 DEF RowFindings
    <3> QED BY <1>2, <3>1, <3>2, <3>3
  <2> QED BY <1>2, <2>1 DEF NoFalseAlarm, FoundHasId
<1>12. DamageTold'
  <2> SUFFICES ASSUME NEW e \in start.damaged, HasReader, Present(e), row[e].id <= m.id
               PROVE  \E f \in scan'.found : f.id = row[e].id /\
                                 f.kind \in {"missing", "mismatch", "read_error"}
    BY <1>2 DEF DamageTold, Reported, Present, HasReader
  <2>1. e \in Entry /\ mirror[e] # "good" /\ row[e].id \in Nat
    BY <1>1, StartTypes DEF ScanInv, StartSound, SoundStart
  <2>2. CASE row[e].id <= scan.prev
    BY <1>2, <2>2 DEF ScanInv, DamageTold, Reported
  <2>3. CASE scan.prev < row[e].id
    <3>1. e = m.entry /\ row[e].id = m.id
      BY <2>1, <2>3, NextIsNext
    <3>2. \E f \in findings : f.id = m.id /\ f.kind \in {"missing", "mismatch", "read_error"}
      BY <2>1, <3>1 DEF RowFindings
    <3> QED BY <1>2, <3>1, <3>2
  <2> QED BY <1>1, <2>1, <2>2, <2>3
<1>13. GapsTold'
  <2> SUFFICES ASSUME NEW p \in start.gaps, Present(p[1]), Present(p[2]),
                      row[p[2]].id <= m.id
               PROVE  \E f \in scan'.found : f.id = row[p[1]].id + 1 /\ f.kind \in {"gap"}
    BY <1>2 DEF GapsTold, Reported, Present
  <2>1. /\ p[1] \in Entry /\ p[2] \in Entry /\ row[p[1]].id # 0
        /\ row[p[1]].id < row[p[2]].id /\ row[p[1]].id + 1 # row[p[2]].id
        /\ row[p[1]].id \in Nat /\ row[p[2]].id \in Nat
    BY <1>1, StartTypes DEF ScanInv, StartSound, SoundStart
  <2>2. CASE row[p[2]].id <= scan.prev
    BY <1>2, <2>2 DEF ScanInv, GapsTold, Reported
  <2>3. CASE scan.prev < row[p[2]].id
    <3>1. p[2] = m.entry /\ row[p[2]].id = m.id
      BY <2>1, <2>3, NextIsNext
    <3>2. row[p[1]].id <= scan.prev
      <4>1. p[1] # p[2] /\ row[p[1]].id <= m.id
        BY <1>1, <2>1, <3>1
      <4> QED BY <1>1, <2>1, <3>1, <4>1, NextIsNext
    <3>3. ~(row[p[1]].id < scan.prev)
      BY <2>3 DEF ScanInv, GapsAhead, NotInside
    <3>4. row[p[1]].id = scan.prev
      BY <1>1, <2>1, <3>2, <3>3
    <3>5. Continuity(m) = {[id |-> scan.prev + 1, kind |-> "gap"]}
      BY <2>1, <3>1, <3>4 DEF Continuity
    <3>6. [id |-> row[p[1]].id + 1, kind |-> "gap"] \in scan'.found
      BY <1>2, <3>4, <3>5
    <3> QED BY <3>6
  <2> QED BY <1>1, <2>1, <2>2, <2>3
<1>14. AllSeen'
  BY <1>2 DEF AllSeen
<1> QED BY <1>4, <1>5, <1>6, <1>7, <1>9, <1>10, <1>11, <1>12, <1>13, <1>14 DEF ScanInv

LEMMA ScanInvInit == ScanInit => ScanInv
<1> SUFFICES ASSUME ScanInit PROVE ScanInv
  OBVIOUS
<1>1. TableInv /\ scan = Idle /\ start = Now
  BY TableInit DEF ScanInit
<1>2. start \in Start /\ StartSound
  BY <1>1, NowIsSound DEF StartSound
<1>3. start.gaps = {} /\ start.damaged = {} /\ nextId = 1
  BY <1>1 DEF ScanInit, LogInit, NoRow, Now, Damaged, Gap, Present
<1>4. ScanTypeOK
  BY <1>1, <1>2, <1>3 DEF ScanTypeOK, Idle, Scan, ScanPc
<1>5. PageSound /\ PageIsFull /\ GapsAhead /\ FoundHasId /\ NoFalseAlarm
      /\ DamageTold /\ GapsTold /\ AllSeen
  BY <1>1, <1>3 DEF Idle, PageSound, PageIsFull, GapsAhead, FoundHasId, NoFalseAlarm,
                    DamageTold, GapsTold, AllSeen
<1> QED BY <1>1, <1>2, <1>4, <1>5 DEF ScanInv

LEMMA IdleIsFresh ==
    ASSUME TableInv', start' \in Start, StartSound',
           \/ scan' = Idle
           \/ scan' = [Idle EXCEPT !.pc = "fetch"]
           \/ scan' = [Idle EXCEPT !.pc = "report", !.failed = TRUE]
    PROVE  ScanInv'
<1>1. scan' \in Scan /\ scan'.page = {} /\ scan'.prev = 0 /\ scan'.after = 0
      /\ scan'.found = {} /\ scan'.pc # "rows" /\ (scan'.pc = "report" => scan'.failed)
  <2>1. CASE scan' = Idle
    BY <2>1 DEF Idle, Scan, ScanPc
  <2>2. CASE scan' = [Idle EXCEPT !.pc = "fetch"]
    BY <2>2 DEF Idle, Scan, ScanPc
  <2>3. CASE scan' = [Idle EXCEPT !.pc = "report", !.failed = TRUE]
    BY <2>3 DEF Idle, Scan, ScanPc
  <2> QED BY <2>1, <2>2, <2>3
<1> QED BY <1>1, NothingRead

LEMMA ScanInvStep == ASSUME ScanInv, [ScanNext]_scanVars PROVE ScanInv'
<1>1. TableInv' /\ LogGrows
  BY TableStep DEF ScanInv
<1>2. start \in Start /\ TableInv
  BY DEF ScanInv, ScanTypeOK
<1>3. ASSUME UNCHANGED start PROVE start' \in Start /\ StartSound'
  BY <1>1, <1>2, <1>3, StartStaysSound DEF ScanInv
<1>4. CASE UNCHANGED <<scan, start>>
  BY <1>1, <1>4, GrowthKeepsPass
<1>5. ASSUME NEW l \in Log, CrashWith(l) PROVE ScanInv'
  <2>1. scan' = Idle \/ UNCHANGED scan
    BY <1>5 DEF CrashWith
  <2> QED BY <1>1, <1>3, <1>4, <1>5, <2>1, IdleIsFresh DEF CrashWith
<1>6. CASE StartPass
  <2>1. start' = Now /\ UNCHANGED logVars /\ scan' = [Idle EXCEPT !.pc = "fetch"]
    BY <1>6 DEF StartPass
  <2>2. Now \in Start /\ SoundStart(Now)
    BY <1>2, NowIsSound
  <2>3. StartSound'
    BY <2>1, <2>2 DEF StartSound, SoundStart, At, Present, Between, logVars
  <2> QED BY <1>1, <2>1, <2>2, <2>3, IdleIsFresh
<1>7. CASE FetchPage
  BY <1>7, FetchKeepsPass
<1>8. CASE ScanRow
  <2>1. PICK m \in scan.page : Next1(m) /\ Seen(m, IF HasReader THEN CheckRow(m) ELSE {})
    BY <1>8 DEF ScanRow
  <2>2. m \in RowMeta
    BY PageTypes DEF ScanInv, ScanTypeOK
  <2>3. RowFindings(m, IF HasReader THEN CheckRow(m) ELSE {})
    BY <1>2, <2>2, CheckRowIsTrue
  <2> QED BY <1>8, <2>1, <2>3, SeenKeepsPass DEF ScanRow
<1>9. CASE ScanRowUnread
  <2>1. PICK m \in scan.page : Next1(m) /\ Seen(m, {[id |-> m.id, kind |-> "read_error"]})
    BY <1>9 DEF ScanRowUnread
  <2>2. m \in RowMeta
    BY PageTypes DEF ScanInv, ScanTypeOK
  <2>3. RowFindings(m, {[id |-> m.id, kind |-> "read_error"]})
    BY <2>2, UnreadIsTrue
  <2> QED BY <1>9, <2>1, <2>3, SeenKeepsPass DEF ScanRowUnread
<1>10. CASE EndPage
  BY <1>10, EndPageKeepsPass
<1>11. CASE EndPass
  BY <1>1, <1>3, <1>11, IdleIsFresh DEF EndPass
<1>12. CASE ScanFails
  BY <1>1, <1>3, <1>12, IdleIsFresh DEF ScanFails
<1> QED BY <1>4, <1>5, <1>6, <1>7, <1>8, <1>9, <1>10, <1>11, <1>12
        DEF ScanNext, DetectorStep, scanVars

LEMMA ScanInvariant == ScanSpec => []ScanInv
BY ScanInvInit, ScanInvStep, PTL DEF ScanSpec

\* In every reachable state the detector is of its type, its cursor is behind
\* the ids handed out, and its rows are ahead of it (tamperdetect.go:455-470).
THEOREM ScanTypeCorrect == ScanSpec => []ScanTypeOK
<1>1. ScanInv => ScanTypeOK
  BY DEF ScanInv
<1> QED BY <1>1, ScanInvariant, PTL

\* Every finding is of a row that is lost or whose copy is not sound, however
\* many appends and crashes go on during the pass (tamperdetect.go:541-572).
THEOREM AlarmsAreTrue == ScanSpec => []NoFalseAlarm
<1>1. ScanInv => NoFalseAlarm
  BY DEF ScanInv
<1> QED BY <1>1, ScanInvariant, PTL

LEMMA ScanInvIsThorough == ScanInv => PassIsThorough
<1> SUFFICES ASSUME ScanInv, scan.pc = "report", ~scan.failed
             PROVE  /\ \A e \in start.damaged : HasReader /\ Present(e) =>
                          Reported(row[e].id, {"missing", "mismatch", "read_error"})
                    /\ \A p \in start.gaps : Present(p[1]) /\ Present(p[2]) =>
                          Reported(row[p[1]].id + 1, {"gap"})
  BY DEF PassIsThorough
<1>1. \A e \in Entry : Tracked(e) /\ Present(e) => row[e].id <= scan.prev
  BY DEF ScanInv, AllSeen
<1>2. start \in Start
  BY DEF ScanInv, ScanTypeOK
<1>3. ASSUME NEW e \in start.damaged, HasReader, Present(e)
      PROVE  Reported(row[e].id, {"missing", "mismatch", "read_error"})
  <2>1. row[e].id <= scan.prev
    BY <1>1, <1>2, <1>3, StartTypes DEF Tracked
  <2> QED BY <1>3, <2>1 DEF ScanInv, DamageTold
<1>4. ASSUME NEW p \in start.gaps, Present(p[1]), Present(p[2])
      PROVE  Reported(row[p[1]].id + 1, {"gap"})
  <2>1. row[p[2]].id <= scan.prev
    BY <1>1, <1>2, <1>4, StartTypes DEF Tracked
  <2> QED BY <1>4, <2>1 DEF ScanInv, GapsTold
<1> QED BY <1>3, <1>4

\* A pass that ends with a report has told of all that was wrong when it began
\* and still is, for any page size (tamperdetect.go:471-513).
THEOREM PassesAreThorough == ScanSpec => []PassIsThorough
BY ScanInvIsThorough, ScanInvariant, PTL
=============================================================================
