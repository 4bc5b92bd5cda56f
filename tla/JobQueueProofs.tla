--------------------------- MODULE JobQueueProofs ---------------------------
(***************************************************************************)
(* What the job queue keeps for every number of jobs, keys, workers and    *)
(* events: its safety properties follow from three facts about rows.       *)
(***************************************************************************)
EXTENDS JobQueue, TLAPS

(* Only a row that exists is open, and it has a key.                       *)
KeyedRows == \A j \in Jobs : row[j].status # "absent" => row[j].key \in Keys

(* What a process has in hand is marked processing in the table.           *)
HeldRunning == \A j \in Jobs : holder[j] # NoWorker => row[j].status = "processing"

(* The partial unique index.                                               *)
OneOpenRow == \A i, j \in Jobs : Open(i) /\ Open(j) /\ row[i].key = row[j].key => i = j

IInv == TypeOK /\ KeyedRows /\ HeldRunning /\ OneOpenRow /\ NoLostEvent

-----------------------------------------------------------------------------
LEMMA InitIInv == Init => IInv
  <1> SUFFICES ASSUME Init PROVE IInv
    OBVIOUS
  <1> USE ConstantsAssumption DEF Init, AbsentRow
  <1>1. TypeOK
    BY DEF TypeOK, Rows, Statuses
  <1>2. KeyedRows /\ HeldRunning
    BY DEF KeyedRows, HeldRunning
  <1>3. OneOpenRow
    BY DEF OneOpenRow, Open
  <1>4. NoLostEvent
    BY DEF NoLostEvent, Covered
  <1> QED
    BY <1>1, <1>2, <1>3, <1>4 DEF IInv

-----------------------------------------------------------------------------
(* Most steps neither open a row nor announce an event: it is enough that  *)
(* no row that will be read stops being one.                               *)

LEMMA StillOneOpenRow ==
  ASSUME OneOpenRow,
         \A i \in Jobs : Open(i)' => Open(i) /\ row'[i].key = row[i].key
  PROVE  OneOpenRow'
  BY DEF OneOpenRow, Open

LEMMA StillNoLostEvent ==
  ASSUME NoLostEvent, UNCHANGED <<events, served, parked>>,
         \A i \in Jobs : Open(i) /\ WillRead(i)
                           => Open(i)' /\ WillRead(i)' /\ row'[i].key = row[i].key
  PROVE  NoLostEvent'
  <1> SUFFICES ASSUME NEW k \in Keys, Covered(k)' < events'[k]
               PROVE  \E i \in OpenFor(k)' : WillRead(i)'
    BY DEF NoLostEvent
  <1>1. Covered(k) < events[k]
    BY DEF Covered
  <1>2. PICK i \in OpenFor(k) : WillRead(i)
    BY <1>1 DEF NoLostEvent
  <1>3. i \in OpenFor(k)' /\ WillRead(i)'
    BY <1>2 DEF OpenFor, Open
  <1> QED
    BY <1>3

-----------------------------------------------------------------------------
(* Enqueueing: a new row is the only open one of its key, and a duplicate  *)
(* leaves its mark on the row it met.                                      *)

LEMMA EnqueueNewKeeps ==
  ASSUME IInv, NEW k \in Keys, NEW j \in Jobs, NEW due \in BOOLEAN, EnqueueNew(k, j, due)
  PROVE  IInv'
  <1> USE DEF IInv, EnqueueNew, Announce, Fresh, NewRow, table, memory, transport
  <1>1. TypeOK'
    BY DEF TypeOK, Rows, Statuses, Dispatched
  <1>2. KeyedRows' /\ HeldRunning'
    BY DEF TypeOK, KeyedRows, HeldRunning
  <1>3. OneOpenRow'
    BY DEF TypeOK, OneOpenRow, Open, OpenFor
  <1>4. NoLostEvent'
    <2> SUFFICES ASSUME NEW q \in Keys, Covered(q)' < events'[q]
                 PROVE  \E i \in OpenFor(q)' : WillRead(i)'
      BY DEF NoLostEvent
    <2>1. CASE q = k
      <3>1. j \in OpenFor(k)' /\ WillRead(j)'
        BY DEF TypeOK, OpenFor, Open, WillRead
      <3> QED
        BY <2>1, <3>1
    <2>2. CASE q # k
      <3>1. Covered(q) < events[q]
        BY <2>2 DEF TypeOK, Covered
      <3>2. PICK i \in OpenFor(q) : WillRead(i)
        BY <3>1 DEF NoLostEvent
      <3>3. i \in OpenFor(q)' /\ WillRead(i)'
        BY <2>2, <3>2 DEF TypeOK, OpenFor, Open, WillRead
      <3> QED
        BY <3>3
    <2> QED
      BY <2>1, <2>2
  <1> QED
    BY <1>1, <1>2, <1>3, <1>4

LEMMA EnqueueDuplicateKeeps ==
  ASSUME IInv, NEW k \in Keys, EnqueueDuplicate(k)
  PROVE  IInv'
  <1> USE DEF IInv, EnqueueDuplicate, Announce, table, memory, transport
  <1>1. TypeOK'
    <2>1. \A j \in Jobs : [row[j] EXCEPT !.rerun = TRUE] \in Rows
      BY ZenonT(60) DEF TypeOK, Rows
    <2>2. row' \in [Jobs -> Rows]
      BY <2>1 DEF TypeOK
    <2> QED
      BY <2>2 DEF TypeOK
  <1>2. \A j \in Jobs : row'[j].status = row[j].status /\ row'[j].key = row[j].key
    BY DEF TypeOK, Rows
  <1>3. KeyedRows' /\ HeldRunning' /\ OneOpenRow'
    BY <1>2 DEF TypeOK, KeyedRows, HeldRunning, OneOpenRow, Open
  <1>4. NoLostEvent'
    <2> SUFFICES ASSUME NEW q \in Keys, Covered(q)' < events'[q]
                 PROVE  \E i \in OpenFor(q)' : WillRead(i)'
      BY DEF NoLostEvent
    <2>1. CASE q = k
      <3>1. PICK i \in OpenFor(k) : TRUE
        OBVIOUS
      <3>2. i \in OpenFor(k)' /\ WillRead(i)'
        BY <1>2, <3>1 DEF TypeOK, Rows, OpenFor, Open, WillRead
      <3> QED
        BY <2>1, <3>2
    <2>2. CASE q # k
      <3>1. Covered(q) < events[q]
        BY <2>2 DEF TypeOK, Covered
      <3>2. PICK i \in OpenFor(q) : WillRead(i)
        BY <3>1 DEF NoLostEvent
      <3>3. i \in OpenFor(q)' /\ WillRead(i)'
        BY <2>2, <3>2 DEF TypeOK, Rows, OpenFor, Open, WillRead
      <3> QED
        BY <3>3
    <2> QED
      BY <2>1, <2>2
  <1> QED
    BY <1>1, <1>3, <1>4

LEMMA BecomeDueKeeps ==
  ASSUME IInv, NEW j \in Jobs, BecomeDue(j)
  PROVE  IInv'
  <1> USE DEF IInv, BecomeDue, memory, transport
  <1>1. [row[j] EXCEPT !.due = TRUE] \in Rows
    BY ZenonT(60) DEF TypeOK, Rows
  <1>2. TypeOK'
    BY <1>1 DEF TypeOK
  <1>3. \A i \in Jobs : row'[i].status = row[i].status /\ row'[i].key = row[i].key
                          /\ row'[i].rerun = row[i].rerun
    BY DEF TypeOK, Rows
  <1>4. KeyedRows' /\ HeldRunning'
    BY <1>3 DEF KeyedRows, HeldRunning
  <1>5. OneOpenRow' /\ NoLostEvent'
    BY <1>3, StillOneOpenRow, StillNoLostEvent DEF Open, WillRead
  <1> QED
    BY <1>2, <1>4, <1>5

-----------------------------------------------------------------------------
(* The broker and the processes that hold nothing change no row.           *)

LEMMA RowsUntouched ==
  ASSUME IInv, UNCHANGED <<row, holder, seen, events, served, parked>>
  PROVE  KeyedRows' /\ HeldRunning' /\ OneOpenRow' /\ NoLostEvent'
  BY StillOneOpenRow, StillNoLostEvent
     DEF IInv, KeyedRows, HeldRunning, Open, WillRead

LEMMA BrokerKeeps ==
  ASSUME IInv, NEW j \in Jobs, Publish(j) \/ PublishFails(j) \/ LoseMessage(j)
  PROVE  IInv'
  <1> USE DEF IInv, Publish, PublishFails, LoseMessage, table, memory
  <1>1. TypeOK'
    BY DEF TypeOK
  <1> QED
    BY <1>1, RowsUntouched

LEMMA LifecycleKeeps ==
  ASSUME IInv, NEW w \in Workers, Shutdown(w) \/ Exit(w) \/ Restart(w)
  PROVE  IInv'
  <1> USE DEF IInv, Shutdown, Exit, Restart, table, memory, transport
  <1>1. TypeOK'
    BY ConstantsAssumption DEF TypeOK
  <1> QED
    BY <1>1, RowsUntouched

-----------------------------------------------------------------------------
(* Claiming: a claimed row keeps its key and has read nothing yet.         *)

LEMMA BumpCounts == \A n \in Nat : Bump(n) \in Nat
  BY DEF Bump

LEMMA TakeInHandKeeps ==
  ASSUME IInv, NEW w \in Workers, NEW S \in SUBSET Jobs,
         \A j \in S : Claimable(j), TakeInHand(w, S),
         UNCHANGED <<process, events, served, parked, faults>>,
         polled' \subseteq Jobs, dispatching' \subseteq Jobs, messages' \subseteq Jobs
  PROVE  IInv'
  <1> USE DEF IInv, TakeInHand, Claimed, Claimable
  <1>1. \A j \in S : [row[j] EXCEPT !.status = "processing", !.attempts = Bump(@)] \in Rows
    <2> SUFFICES ASSUME NEW j \in S
                 PROVE  [row[j] EXCEPT !.status = "processing", !.attempts = Bump(@)] \in Rows
      OBVIOUS
    <2>1. row[j] \in Rows
      BY DEF TypeOK
    <2>2. Bump(row[j].attempts) \in Nat
      BY <2>1, BumpCounts DEF Rows
    <2> QED
      BY <2>1, <2>2 DEF Rows, Statuses
  <1>2. TypeOK'
    BY <1>1 DEF TypeOK
  <1>3. \A i \in Jobs : /\ row'[i].key = row[i].key
                        /\ row'[i].rerun = row[i].rerun
                        /\ i \in S => row'[i].status = "processing"
                        /\ i \notin S => row'[i].status = row[i].status
    BY DEF TypeOK, Rows
  <1>4. KeyedRows' /\ HeldRunning'
    BY <1>3 DEF TypeOK, KeyedRows, HeldRunning
  <1>5. OneOpenRow'
    BY <1>3, StillOneOpenRow DEF Open
  <1>6. NoLostEvent'
    BY <1>3, StillNoLostEvent DEF TypeOK, Open, WillRead
  <1> QED
    BY <1>2, <1>4, <1>5, <1>6

LEMMA ClaimBatchKeeps ==
  ASSUME IInv, NEW w \in Workers, NEW S \in SUBSET Jobs, ClaimBatch(w, S)
  PROVE  IInv'
  BY TakeInHandKeeps DEF ClaimBatch, IInv, TypeOK, transport

LEMMA DeliverKeeps ==
  ASSUME IInv, NEW w \in Workers, NEW j \in Jobs, Deliver(w, j)
  PROVE  IInv'
  <1>1. /\ polled' \subseteq Jobs /\ dispatching' \subseteq Jobs /\ messages' \subseteq Jobs
        /\ UNCHANGED <<process, events, served, parked, faults>>
    BY DEF Deliver, IInv, TypeOK
  <1>2. CASE Claimable(j)
    BY <1>1, <1>2, TakeInHandKeeps DEF Deliver
  <1>3. CASE ~Claimable(j)
    <2>1. UNCHANGED <<row, holder, seen>>
      BY <1>3 DEF Deliver
    <2>2. TypeOK'
      BY <1>1, <2>1 DEF IInv, TypeOK
    <2> QED
      BY <1>1, <2>1, <2>2, RowsUntouched DEF IInv
  <1> QED
    BY <1>2, <1>3

-----------------------------------------------------------------------------
(* Running.  Here NoLostEvent is earned: a run that read too little can    *)
(* only have been overtaken by a duplicate that left its mark.             *)

LEMMA ObserveKeeps ==
  ASSUME IInv, NEW j \in Jobs, Observe(j)
  PROVE  IInv'
  <1> USE DEF IInv, Observe, Held, table, transport
  <1>1. row[j].status = "processing" /\ row[j].key \in Keys
    BY DEF HeldRunning, KeyedRows
  <1>2. TypeOK'
    BY <1>1 DEF TypeOK
  <1>3. KeyedRows' /\ HeldRunning' /\ OneOpenRow'
    BY StillOneOpenRow DEF KeyedRows, HeldRunning, Open
  <1>4. NoLostEvent'
    BY StillNoLostEvent DEF TypeOK, Open, WillRead
  <1> QED
    BY <1>2, <1>3, <1>4

(* Only the row that was let go differs.                                   *)
LEMMA LetGoTypes ==
  ASSUME TypeOK, NEW j \in Jobs, LetGo(j)
  PROVE  /\ holder' \in [Jobs -> Workers \cup {NoWorker}]
         /\ seen' \in [Jobs -> Nat]
         /\ polled' \subseteq Jobs
         /\ messages' \subseteq Jobs
         /\ holder'[j] = NoWorker
         /\ \A i \in Jobs \ {j} : holder'[i] = holder[i] /\ seen'[i] = seen[i]
  BY DEF TypeOK, LetGo

LEMMA HeldRow ==
  ASSUME IInv, NEW j \in Held
  PROVE  /\ j \in Jobs /\ row[j] \in Rows
         /\ row[j].status = "processing" /\ row[j].key \in Keys
  BY DEF Held, IInv, TypeOK, HeldRunning, KeyedRows

LEMMA SucceedKeeps ==
  ASSUME IInv, NEW j \in Jobs, Succeed(j)
  PROVE  IInv'
  <1> DEFINE key == row[j].key
  <1>0. /\ j \in Held /\ row[j] \in Rows /\ key \in Keys
        /\ row[j].status = "processing" /\ holder[j] # NoWorker /\ seen[j] > 0
    BY HeldRow DEF Succeed, Held
  <1>1. /\ row'[j] \in Rows
        /\ row'[j].key = key
        /\ row'[j].status = IF row[j].rerun THEN "pending" ELSE "done"
        /\ row' \in [Jobs -> Rows]
        /\ \A i \in Jobs \ {j} : row'[i] = row[i]
    BY <1>0 DEF Succeed, Complete, IInv, TypeOK, Rows, Statuses
  <1>2. /\ served' \in [Keys -> Nat]
        /\ served'[key] >= seen[j] /\ served'[key] >= served[key]
        /\ \A q \in Keys \ {key} : served'[q] = served[q]
        /\ UNCHANGED <<process, dispatching, events, parked, faults>>
    BY <1>0 DEF Succeed, IInv, TypeOK
  <1>3. TypeOK'
    BY <1>1, <1>2, LetGoTypes DEF Succeed, IInv, TypeOK
  <1>4. KeyedRows' /\ HeldRunning'
    BY <1>0, <1>1, LetGoTypes DEF Succeed, IInv, KeyedRows, HeldRunning
  <1>5. OneOpenRow'
    BY <1>0, <1>1, StillOneOpenRow DEF IInv, Open
  <1>6. NoLostEvent'
    <2> SUFFICES ASSUME NEW q \in Keys, Covered(q)' < events'[q]
                 PROVE  \E i \in OpenFor(q)' : WillRead(i)'
      BY DEF NoLostEvent
    <2>1. Covered(q) < events[q]
      <3>1. served[q] <= served'[q]
        BY <1>2 DEF IInv, TypeOK
      <3> QED
        BY <1>2, <3>1 DEF Covered, IInv, TypeOK
    <2>2. PICK i \in OpenFor(q) : WillRead(i)
      BY <2>1 DEF NoLostEvent, IInv
    <2>3. CASE i # j
      <3>1. i \in OpenFor(q)' /\ WillRead(i)'
        BY <1>1, <1>2, <2>2, <2>3, LetGoTypes DEF Succeed, IInv, OpenFor, Open, WillRead
      <3> QED
        BY <3>1
    <2>4. CASE i = j
      <3>1. q = key
        BY <2>2, <2>4 DEF OpenFor
      <3>2. seen[j] # events[key]
        BY <1>0, <1>2, <3>1 DEF Covered, IInv, TypeOK
      <3>3. row[j].rerun
        BY <1>0, <2>2, <2>4, <3>2 DEF WillRead, IInv, TypeOK
      <3>4. j \in OpenFor(q)' /\ WillRead(j)'
        BY <1>1, <3>1, <3>3 DEF OpenFor, Open, WillRead
      <3> QED
        BY <3>4
    <2> QED
      BY <2>3, <2>4
  <1> QED
    BY <1>3, <1>4, <1>5, <1>6 DEF IInv

LEMMA FailForNowKeeps ==
  ASSUME IInv, NEW j \in Jobs, FailForNow(j)
  PROVE  IInv'
  <1>0. row[j] \in Rows /\ row[j].status = "processing" /\ row[j].key \in Keys
    BY HeldRow DEF FailForNow
  <1>1. /\ row' \in [Jobs -> Rows]
        /\ row'[j].status = "pending" /\ row'[j].key = row[j].key
        /\ \A i \in Jobs \ {j} : row'[i] = row[i]
    BY <1>0 DEF FailForNow, Retry, IInv, TypeOK, Rows, Statuses
  <1>2. TypeOK'
    BY <1>1, LetGoTypes DEF FailForNow, IInv, TypeOK
  <1>3. KeyedRows' /\ HeldRunning'
    BY <1>0, <1>1, LetGoTypes DEF FailForNow, IInv, KeyedRows, HeldRunning
  <1>4. OneOpenRow'
    BY <1>0, <1>1, StillOneOpenRow DEF IInv, Open
  <1>5. NoLostEvent'
    BY <1>1, LetGoTypes, StillNoLostEvent DEF FailForNow, IInv, Open, WillRead
  <1> QED
    BY <1>2, <1>3, <1>4, <1>5 DEF IInv

LEMMA FailForGoodKeeps ==
  ASSUME IInv, NEW j \in Jobs, FailForGood(j)
  PROVE  IInv'
  <1> DEFINE key == row[j].key
  <1>0. row[j] \in Rows /\ row[j].status = "processing" /\ key \in Keys
    BY HeldRow DEF FailForGood
  <1>1. /\ row' \in [Jobs -> Rows]
        /\ row'[j].status = "dead" /\ row'[j].key = key
        /\ \A i \in Jobs \ {j} : row'[i] = row[i]
    BY <1>0 DEF FailForGood, Kill, IInv, TypeOK, Rows, Statuses
  <1>2. /\ parked' = [parked EXCEPT ![key] = events[key]]
        /\ UNCHANGED <<process, dispatching, events, served, faults>>
    BY DEF FailForGood, Kill
  <1>3. TypeOK'
    BY <1>0, <1>1, <1>2, LetGoTypes DEF FailForGood, IInv, TypeOK
  <1>4. KeyedRows' /\ HeldRunning'
    BY <1>0, <1>1, LetGoTypes DEF FailForGood, IInv, KeyedRows, HeldRunning
  <1>5. OneOpenRow'
    BY <1>0, <1>1, StillOneOpenRow DEF IInv, Open
  <1>6. NoLostEvent'
    <2> SUFFICES ASSUME NEW q \in Keys, Covered(q)' < events'[q]
                 PROVE  \E i \in OpenFor(q)' : WillRead(i)'
      BY DEF NoLostEvent
    <2>1. q # key
      BY <1>0, <1>2 DEF Covered, IInv, TypeOK
    <2>2. Covered(q) < events[q]
      BY <1>2, <2>1 DEF Covered, IInv, TypeOK
    <2>3. PICK i \in OpenFor(q) : WillRead(i)
      BY <2>2 DEF NoLostEvent, IInv
    <2>4. i \in OpenFor(q)' /\ WillRead(i)'
      BY <1>1, <1>2, <2>1, <2>3, LetGoTypes DEF FailForGood, IInv, OpenFor, Open, WillRead
    <2> QED
      BY <2>4
  <1> QED
    BY <1>3, <1>4, <1>5, <1>6 DEF IInv

LEMMA BookkeepingFailsKeeps ==
  ASSUME IInv, NEW j \in Jobs, BookkeepingFails(j)
  PROVE  IInv'
  <1>0. UNCHANGED <<row, events, served, parked, process, dispatching>>
    BY DEF BookkeepingFails, table
  <1>1. TypeOK'
    BY <1>0, LetGoTypes, ConstantsAssumption DEF BookkeepingFails, IInv, TypeOK
  <1>2. KeyedRows' /\ HeldRunning' /\ OneOpenRow'
    BY <1>0, LetGoTypes, StillOneOpenRow DEF BookkeepingFails, IInv, KeyedRows, HeldRunning, Open
  <1>3. NoLostEvent'
    BY <1>0, LetGoTypes, StillNoLostEvent DEF BookkeepingFails, IInv, Open, WillRead
  <1> QED
    BY <1>1, <1>2, <1>3 DEF IInv

-----------------------------------------------------------------------------
(* Crashes and maintenance.                                                *)

LEMMA CrashKeeps ==
  ASSUME IInv, NEW w \in Workers, Crash(w)
  PROVE  IInv'
  <1>0. /\ UNCHANGED <<row, events, served, parked, dispatching>>
        /\ holder' \in [Jobs -> Workers \cup {NoWorker}] /\ seen' \in [Jobs -> Nat]
        /\ \A i \in Jobs : holder'[i] = NoWorker \/ (holder'[i] = holder[i] /\ seen'[i] = seen[i])
    BY DEF Crash, table, IInv, TypeOK
  <1>1. TypeOK'
    BY <1>0, ConstantsAssumption DEF Crash, HeldBy, IInv, TypeOK
  <1>2. KeyedRows' /\ HeldRunning' /\ OneOpenRow'
    BY <1>0, StillOneOpenRow DEF IInv, KeyedRows, HeldRunning, Open
  <1>3. NoLostEvent'
    BY <1>0, StillNoLostEvent DEF IInv, Open, WillRead
  <1> QED
    BY <1>1, <1>2, <1>3 DEF IInv

LEMMA ReclaimStaleKeeps ==
  ASSUME IInv, NEW S \in SUBSET Jobs, ReclaimStale(S)
  PROVE  IInv'
  <1>0. \A i \in S : row[i].status = "processing" /\ holder[i] = NoWorker
    BY DEF ReclaimStale, Orphans
  <1>1. /\ row' \in [Jobs -> Rows]
        /\ \A i \in S : row'[i].status = "pending" /\ row'[i].key = row[i].key
        /\ \A i \in Jobs \ S : row'[i] = row[i]
    BY DEF ReclaimStale, IInv, TypeOK, Rows, Statuses
  <1>2. UNCHANGED <<holder, polled, seen, process, dispatching, messages, events, served, parked, faults>>
    BY DEF ReclaimStale, memory, transport
  <1>3. TypeOK'
    BY <1>1, <1>2 DEF IInv, TypeOK
  <1>4. KeyedRows' /\ HeldRunning'
    BY <1>0, <1>1, <1>2 DEF IInv, KeyedRows, HeldRunning
  <1>5. OneOpenRow' /\ NoLostEvent'
    BY <1>0, <1>1, <1>2, StillOneOpenRow, StillNoLostEvent DEF IInv, Open, WillRead
  <1> QED
    BY <1>3, <1>4, <1>5 DEF IInv

LEMMA DeleteCompletedKeeps ==
  ASSUME IInv, NEW j \in Jobs, DeleteCompleted(j)
  PROVE  IInv'
  <1>1. /\ row' \in [Jobs -> Rows]
        /\ row[j].status = "done" /\ row'[j].status = "absent"
        /\ \A i \in Jobs \ {j} : row'[i] = row[i]
    BY DEF DeleteCompleted, AbsentRow, IInv, TypeOK, Rows, Statuses
  <1>2. UNCHANGED <<holder, polled, seen, process, dispatching, messages, events, served, parked, faults>>
    BY DEF DeleteCompleted, memory, transport
  <1>3. TypeOK'
    BY <1>1, <1>2 DEF IInv, TypeOK
  <1>4. KeyedRows' /\ HeldRunning'
    BY <1>1, <1>2 DEF IInv, KeyedRows, HeldRunning
  <1>5. OneOpenRow' /\ NoLostEvent'
    BY <1>1, <1>2, StillOneOpenRow, StillNoLostEvent DEF IInv, Open, WillRead
  <1> QED
    BY <1>3, <1>4, <1>5 DEF IInv

-----------------------------------------------------------------------------
LEMMA StepKeepsIInv == IInv /\ [Next]_vars => IInv'
  <1> SUFFICES ASSUME IInv, [Next]_vars PROVE IInv'
    OBVIOUS
  <1>1. ASSUME NEW k \in Keys, NEW j \in Jobs, NEW due \in BOOLEAN, EnqueueNew(k, j, due) PROVE IInv'
    BY <1>1, EnqueueNewKeeps
  <1>2. ASSUME NEW k \in Keys, EnqueueDuplicate(k) PROVE IInv'
    BY <1>2, EnqueueDuplicateKeeps
  <1>3. ASSUME NEW j \in Jobs, BecomeDue(j) PROVE IInv'
    BY <1>3, BecomeDueKeeps
  <1>4. ASSUME NEW j \in Jobs, Publish(j) \/ PublishFails(j) \/ LoseMessage(j) PROVE IInv'
    BY <1>4, BrokerKeeps
  <1>5. ASSUME NEW w \in Workers, NEW S \in SUBSET Jobs, ClaimBatch(w, S) PROVE IInv'
    BY <1>5, ClaimBatchKeeps
  <1>6. ASSUME NEW w \in Workers, NEW j \in Jobs, Deliver(w, j) PROVE IInv'
    BY <1>6, DeliverKeeps
  <1>7. ASSUME NEW j \in Jobs, Observe(j) PROVE IInv'
    BY <1>7, ObserveKeeps
  <1>8. ASSUME NEW j \in Jobs, Succeed(j) PROVE IInv'
    BY <1>8, SucceedKeeps
  <1>9. ASSUME NEW j \in Jobs, FailForNow(j) PROVE IInv'
    BY <1>9, FailForNowKeeps
  <1>10. ASSUME NEW j \in Jobs, FailForGood(j) PROVE IInv'
    BY <1>10, FailForGoodKeeps
  <1>11. ASSUME NEW j \in Jobs, BookkeepingFails(j) PROVE IInv'
    BY <1>11, BookkeepingFailsKeeps
  <1>12. ASSUME NEW w \in Workers, Shutdown(w) \/ Exit(w) \/ Restart(w) PROVE IInv'
    BY <1>12, LifecycleKeeps
  <1>13. ASSUME NEW w \in Workers, Crash(w) PROVE IInv'
    BY <1>13, CrashKeeps
  <1>14. ASSUME NEW S \in SUBSET Jobs, ReclaimStale(S) PROVE IInv'
    BY <1>14, ReclaimStaleKeeps
  <1>15. ASSUME NEW j \in Jobs, DeleteCompleted(j) PROVE IInv'
    BY <1>15, DeleteCompletedKeeps
  <1>16. CASE UNCHANGED vars
    <2>1. TypeOK'
      BY <1>16 DEF vars, IInv, TypeOK
    <2> QED
      BY <1>16, <2>1, RowsUntouched DEF vars, IInv
  <1> QED
    BY <1>1, <1>2, <1>3, <1>4, <1>5, <1>6, <1>7, <1>8, <1>9, <1>10, <1>11,
       <1>12, <1>13, <1>14, <1>15, <1>16 DEF Next

(* Every reachable state of the ledger satisfies the strengthening.        *)
THEOREM Inductive == Spec => []IInv
  BY InitIInv, StepKeepsIInv, PTL DEF Spec

(* The table, the workers' memory and the broker keep their shape.         *)
THEOREM Typing == Spec => []TypeOK
  <1>1. IInv => TypeOK
    BY DEF IInv
  <1> QED
    BY <1>1, Inductive, PTL

(* However many workers poll, consume and sweep, no two of them ever have  *)
(* jobs of one dedupe key in hand: the row lock, the status guard of the   *)
(* claim and the partial unique index are enough together.                 *)
THEOREM Serial == Spec => []SerialPerKey
  <1>1. IInv => SerialPerKey
    BY DEF IInv, HeldRunning, OneOpenRow, SerialPerKey, Held, Open
  <1> QED
    BY <1>1, Inductive, PTL

(* No event is ever forgotten: a webhook that arrives while its job runs   *)
(* is kept by the rerun mark across success, retry, crash and reclaim.     *)
THEOREM NothingLost == Spec => []NoLostEvent
  <1>1. IInv => NoLostEvent
    BY DEF IInv
  <1> QED
    BY <1>1, Inductive, PTL

-----------------------------------------------------------------------------
(* What a step may do to a row: a row in hand or finished is not claimed.  *)

LEMMA StepHolder ==
  ASSUME IInv, [Next]_vars, NEW j \in Held
  PROVE  holder'[j] \in {holder[j], NoWorker}
  <1>0. j \in Jobs /\ row[j].status = "processing"
    BY HeldRow
  <1>1. ASSUME NEW w \in Workers, NEW S \in SUBSET Jobs, ClaimBatch(w, S)
        PROVE  holder'[j] = holder[j]
    BY <1>0, <1>1 DEF ClaimBatch, TakeInHand, Claimable
  <1>2. ASSUME NEW w \in Workers, NEW i \in Jobs, Deliver(w, i)
        PROVE  holder'[j] = holder[j]
    <2>1. CASE Claimable(i)
      BY <1>0, <1>2, <2>1 DEF Deliver, TakeInHand, Claimable
    <2>2. CASE ~Claimable(i)
      BY <1>2, <2>2 DEF Deliver
    <2> QED
      BY <2>1, <2>2
  <1>3. ASSUME NEW i \in Jobs, LetGo(i)
        PROVE  holder'[j] \in {holder[j], NoWorker}
    BY <1>0, <1>3, LetGoTypes DEF IInv
  <1>4. ASSUME NEW w \in Workers, Crash(w)
        PROVE  holder'[j] \in {holder[j], NoWorker}
    BY <1>0, <1>4 DEF Crash
  <1> QED
    BY <1>1, <1>2, <1>3, <1>4
       DEF Next, vars, memory, EnqueueNew, EnqueueDuplicate, BecomeDue, Publish, PublishFails,
           LoseMessage, Observe, Succeed, FailForNow, FailForGood, BookkeepingFails,
           Shutdown, Exit, Restart, ReclaimStale, DeleteCompleted

LEMMA StepFinished ==
  ASSUME IInv, [Next]_vars, NEW j \in Jobs, row[j].status \in {"done", "dead"}
  PROVE  \/ row'[j] = row[j]
         \/ row[j].status = "done" /\ row'[j].status = "absent"
  <1>0. j \notin Held /\ ~Open(j)
    BY HeldRow DEF Open
  <1>1. ASSUME NEW k \in Keys, NEW i \in Jobs, NEW due \in BOOLEAN, EnqueueNew(k, i, due)
        PROVE  row'[j] = row[j]
    BY <1>1 DEF EnqueueNew, Fresh, IInv, TypeOK
  <1>2. ASSUME NEW k \in Keys, EnqueueDuplicate(k)
        PROVE  row'[j] = row[j]
    BY <1>0, <1>2 DEF EnqueueDuplicate, OpenFor
  <1>3. ASSUME NEW i \in Jobs, BecomeDue(i)
        PROVE  row'[j] = row[j]
    BY <1>3 DEF BecomeDue, IInv, TypeOK
  <1>4. ASSUME NEW w \in Workers, NEW S \in SUBSET Jobs, ClaimBatch(w, S)
        PROVE  row'[j] = row[j]
    BY <1>4 DEF ClaimBatch, TakeInHand, Claimed, Claimable
  <1>5. ASSUME NEW w \in Workers, NEW i \in Jobs, Deliver(w, i)
        PROVE  row'[j] = row[j]
    <2>1. CASE Claimable(i)
      BY <1>5, <2>1 DEF Deliver, TakeInHand, Claimed, Claimable
    <2>2. CASE ~Claimable(i)
      BY <1>5, <2>2 DEF Deliver
    <2> QED
      BY <2>1, <2>2
  <1>6. ASSUME NEW i \in Held, i \in Jobs, Complete(i) \/ Retry(i) \/ Kill(i)
        PROVE  row'[j] = row[j]
    BY <1>0, <1>6 DEF Complete, Retry, Kill, IInv, TypeOK
  <1>7. ASSUME NEW S \in SUBSET Jobs, ReclaimStale(S)
        PROVE  row'[j] = row[j]
    BY <1>7 DEF ReclaimStale, Orphans
  <1>8. ASSUME NEW i \in Jobs, DeleteCompleted(i)
        PROVE  \/ row'[j] = row[j]
               \/ row[j].status = "done" /\ row'[j].status = "absent"
    BY <1>8 DEF DeleteCompleted, AbsentRow, IInv, TypeOK
  <1> QED
    BY <1>1, <1>2, <1>3, <1>4, <1>5, <1>6, <1>7, <1>8
       DEF Next, vars, table, Publish, PublishFails, LoseMessage, Observe, Succeed, FailForNow,
           FailForGood, BookkeepingFails, Shutdown, Exit, Crash, Restart

(* A redelivered reference, a second poller and the stale sweep race for   *)
(* the same row; none ever takes it from the process that has it in hand.  *)
THEOREM Exclusive == Spec => ExclusiveClaim
  <1>1. IInv /\ [Next]_vars => [\A j \in Held : holder'[j] \in {holder[j], NoWorker}]_vars
    BY StepHolder
  <1> QED
    BY <1>1, Inductive, PTL DEF Spec, ExclusiveClaim

(* Done rows are only ever deleted and dead rows never change: neither a   *)
(* late duplicate nor a redelivered reference brings one back.             *)
THEOREM Finished == Spec => FinishedStaysFinished
  <1> DEFINE A == \A j \in Jobs :
                    /\ row[j].status = "done" => row'[j].status \in {"done", "absent"}
                    /\ row[j].status = "dead" => row'[j] = row[j]
  <1>1. IInv /\ [Next]_vars => [A]_vars
    BY StepFinished
  <1> QED
    BY <1>1, Inductive, PTL DEF Spec, FinishedStaysFinished
=============================================================================
