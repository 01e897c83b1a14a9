-------------------------- MODULE TrafficTail_proofs --------------------------
(***************************************************************************)
(* The journal's tail for any number of entries, ends of the stream,       *)
(* failures and restarts, and the pages of the log for any size.           *)
(***************************************************************************)
EXTENDS TrafficTail, FiniteSetTheorems, TLAPS

\* What has been handed over in this stream has been dealt with.
Handed == \A e \in 1 .. pos : e <= from \/ Done(e)

Spent == crashes + faults

\* How often an entry is in the log, by where the next stream or line begins: behind
\* that point no entry has more rows than crashes and failures explain.
Repeats ==
    /\ pc = "open" =>
          \A e \in Entries : inserted[e] <= Spent + (IF e <= saved THEN 1 ELSE 0)
    /\ pc # "open" /\ last = 0 =>
          \A e \in Entries : inserted[e] <= Spent + (IF e <= saved /\ e <= pos THEN 1 ELSE 0)
    /\ pc # "open" /\ last # 0 =>
          \A e \in Entries : inserted[e] <= Spent + (IF e <= pos THEN 1 ELSE 0)
    /\ pc = "read" => last # 0

\* Between the last cursor and what has been handed over there is nothing of the
\* firewall's.
Passed == \A e \in Entries : last # 0 /\ last < e /\ e <= pos => e \in Foreign

IInv == TypeOK /\ NothingSkipped /\ Handed /\ Repeats /\ Passed

\* The invariant holds before the tail begins.
LEMMA InitInvariant == Init => IInv
<1> SUFFICES ASSUME Init PROVE IInv
  OBVIOUS
<1>1. TypeOK
  BY TailAssumption DEF Init, TypeOK, Entries
<1>2. NothingSkipped /\ Handed /\ Repeats /\ Passed
  BY TailAssumption DEF Init, NothingSkipped, Handed, Repeats, Passed, Spent, Entries
<1> QED BY <1>1, <1>2 DEF IInv

\* The ranges the arguments below count with.
LEMMA Ranges ==
    ASSUME TypeOK
    PROVE  /\ journal \in Nat /\ day \in Nat /\ from \in Nat /\ saved \in Nat /\ pos \in Nat
           /\ last \in Nat /\ faults \in Nat /\ crashes \in Nat /\ ends \in Nat
           /\ journal <= MaxEntries /\ day <= journal /\ from <= day
           /\ saved <= journal /\ pos <= journal /\ last <= pos
           /\ faults <= MaxFaults /\ crashes <= MaxCrashes /\ ends <= MaxEnds
           /\ \A e \in Entries : inserted[e] \in Nat /\ present[e] \in Nat
           /\ Entries \subseteq Nat
           /\ MaxEntries \in Nat /\ MaxFaults \in Nat /\ MaxCrashes \in Nat /\ MaxEnds \in Nat
BY TailAssumption DEF TypeOK, Entries

\* A stream that begins where the cursor is, or a day ago when none was read.
LEMMA StreamInvariant ==
    ASSUME IInv, NEW cursor \in {0, saved}, Stream(cursor),
           \/ cursor = saved /\ faults' = faults
           \/ faults' = faults + 1 /\ faults' <= MaxFaults
    PROVE  IInv'
<1>1. TypeOK /\ NothingSkipped /\ Handed /\ Repeats /\ Passed
  BY DEF IInv
<1>2. /\ pc = "open" /\ pc' = "stream" /\ last' = 0
      /\ journal' = journal /\ day' = day /\ saved' = saved /\ ends' = ends
      /\ crashes' = crashes /\ present' = present /\ inserted' = inserted /\ failed' = failed
      /\ \/ cursor = 0 /\ pos' = day /\ from' = day
         \/ cursor = saved /\ pos' = saved /\ from' = from
  BY DEF Stream, world, log
<1>3. TypeOK'
  <2>1. pos' \in 0 .. journal /\ from' \in 0 .. day /\ faults' \in 0 .. MaxFaults
    BY <1>1, <1>2, Ranges
  <2> QED BY <1>1, <1>2, <2>1 DEF TypeOK
<1>4. \A e : Done(e)' <=> Done(e)
  BY <1>2 DEF Done
<1>5. from <= from'
  BY <1>1, <1>2, Ranges
<1>6. NothingSkipped'
  BY <1>1, <1>2, <1>3, <1>4, <1>5, Ranges DEF NothingSkipped, TypeOK
<1>7. Handed'
  BY <1>1, <1>2, <1>4, <1>5, Ranges DEF NothingSkipped, Handed
<1>8. Repeats'
  <2>1. ASSUME NEW e \in Entries
        PROVE  inserted[e] <= Spent' + (IF e <= saved /\ e <= pos' THEN 1 ELSE 0)
    <3>1. inserted[e] <= Spent + (IF e <= saved THEN 1 ELSE 0)
      BY <1>1, <1>2 DEF Repeats
    <3>2. CASE cursor = saved /\ faults' = faults
      <4>1. pos' = saved \/ saved = 0
        BY <1>2, <3>2
      <4> QED BY <3>1, <3>2, <4>1, <1>1, <1>2, Ranges DEF Spent, Entries
    <3>3. CASE faults' = faults + 1
      BY <3>1, <3>3, <1>1, <1>2, Ranges DEF Spent
    <3> QED BY <3>2, <3>3
  <2> QED BY <1>2, <2>1 DEF Repeats
<1>9. Passed'
  BY <1>2 DEF Passed
<1> QED BY <1>3, <1>6, <1>7, <1>8, <1>9 DEF IInv

\* One line of the stream: its row, its failure, or nothing.
LEMMA ReadInvariant ==
    ASSUME IInv, Insert \/ InsertFails \/ Ignore
    PROVE  IInv'
<1>1. TypeOK /\ NothingSkipped /\ Handed /\ Repeats /\ Passed
  BY DEF IInv
<1>2. /\ pc = "stream" /\ pc' = "read" /\ pos < journal /\ pos' = pos + 1 /\ last' = pos + 1
      /\ journal' = journal /\ day' = day /\ saved' = saved /\ from' = from
      /\ ends' = ends /\ crashes' = crashes
  BY DEF Insert, InsertFails, Ignore, Read, world
<1>3. pos + 1 \in Entries /\ pos + 1 \in Nat /\ pos + 1 <= journal
  BY <1>1, <1>2, Ranges DEF Entries
<1>4. \/ /\ pos + 1 \notin Foreign /\ failed' = failed /\ faults' = faults
         /\ inserted' = [inserted EXCEPT ![pos + 1] = inserted[pos + 1] + 1]
         /\ present' = [present EXCEPT ![pos + 1] = present[pos + 1] + 1]
      \/ /\ pos + 1 \notin Foreign /\ failed' = failed \cup {pos + 1}
         /\ faults < MaxFaults /\ faults' = faults + 1
         /\ inserted' = inserted /\ present' = present
      \/ /\ pos + 1 \in Foreign /\ failed' = failed /\ faults' = faults
         /\ inserted' = inserted /\ present' = present
  BY DEF Insert, InsertFails, Ignore, log
<1>5. \A e \in Entries : /\ inserted'[e] \in {inserted[e], inserted[e] + 1}
                         /\ inserted'[e] = inserted[e] + 1 => e = pos + 1 /\ faults' = faults
                         /\ present'[e] <= inserted'[e]
  <2>1. ASSUME NEW e \in Entries
        PROVE  inserted \in [Entries -> Nat] /\ present \in [Entries -> Nat]
               /\ inserted[e] \in Nat /\ present[e] \in Nat /\ present[e] <= inserted[e]
    BY <1>1 DEF TypeOK
  <2> QED BY <1>3, <1>4, <2>1
<1>6. TypeOK'
  <2>1. inserted' \in [Entries -> Nat] /\ present' \in [Entries -> Nat]
    <3>1. inserted \in [Entries -> Nat] /\ present \in [Entries -> Nat]
      BY <1>1 DEF TypeOK
    <3>2. inserted[pos + 1] + 1 \in Nat /\ present[pos + 1] + 1 \in Nat
      BY <3>1, <1>3
    <3> QED BY <1>3, <1>4, <3>1, <3>2
  <2>2. failed' \subseteq Entries \ Foreign
    BY <1>1, <1>3, <1>4 DEF TypeOK
  <2>3. faults' \in 0 .. MaxFaults
    BY <1>1, <1>4, Ranges
  <2>4. pos' \in 0 .. journal /\ last' \in 0 .. pos' /\ pc' \in {"open", "stream", "read", "ended"}
    BY <1>2, <1>3
  <2>5. \A e \in Entries \cap Foreign : inserted'[e] = 0
    BY <1>1, <1>3, <1>4 DEF TypeOK
  <2> QED BY <1>1, <1>2, <1>5, <2>1, <2>2, <2>3, <2>4, <2>5 DEF TypeOK
<1>7. \A e \in Entries : Done(e) => Done(e)'
  BY <1>1, <1>4, <1>5, Ranges DEF Done
<1>8. ASSUME NEW e \in Entries, e = pos + 1 PROVE Done(e)'
  <2>1. inserted \in [Entries -> Nat] /\ inserted[e] \in Nat
    BY <1>1 DEF TypeOK
  <2>2. inserted'[e] > 0 \/ e \in failed' \cup Foreign
    BY <1>4, <1>8, <2>1
  <2> QED BY <2>2 DEF Done
<1>9. NothingSkipped'
  BY <1>1, <1>2, <1>7, Ranges DEF NothingSkipped, Entries
<1>10. Handed'
  <2> SUFFICES ASSUME NEW e \in 1 .. pos' PROVE e <= from' \/ Done(e)'
    BY DEF Handed
  <2>1. e \in 1 .. pos \/ e = pos + 1
    BY <1>1, <1>2, Ranges
  <2>2. e \in Entries
    BY <1>1, <1>2, <1>3, Ranges DEF Entries
  <2> QED BY <1>1, <1>2, <1>7, <1>8, <2>1, <2>2 DEF Handed
<1>11. Repeats'
  <2>1. last' # 0
    BY <1>1, <1>2, Ranges
  <2>2. ASSUME NEW e \in Entries
        PROVE  inserted'[e] <= Spent' + (IF e <= pos' THEN 1 ELSE 0)
    <3>1. inserted[e] <= Spent + (IF e <= pos THEN 1 ELSE 0)
      BY <1>1, <1>2, Ranges DEF Repeats, Spent
    <3>2. /\ inserted[e] \in Nat /\ Spent \in Nat /\ e \in Nat /\ Spent' >= Spent
          /\ Spent' = Spent \/ Spent' = Spent + 1
      BY <1>1, <1>2, <1>4, Ranges DEF Spent
    <3>3. CASE e = pos + 1
      BY <3>1, <3>2, <3>3, <1>1, <1>2, <1>5, Ranges
    <3>4. CASE e # pos + 1
      <4>1. inserted'[e] = inserted[e]
        BY <1>5, <3>2, <3>4
      <4> QED BY <3>1, <3>2, <4>1, <1>1, <1>2, Ranges
    <3> QED BY <3>3, <3>4
  <2> QED BY <1>2, <2>1, <2>2 DEF Repeats
<1>12. Passed'
  BY <1>1, <1>2, Ranges DEF Passed
<1> QED BY <1>6, <1>9, <1>10, <1>11, <1>12 DEF IInv

\* A line that is passed over: it is none of the firewall's.
LEMMA GarbledInvariant ==
    ASSUME IInv, Garbled
    PROVE  IInv'
<1>1. TypeOK /\ NothingSkipped /\ Handed /\ Repeats /\ Passed
  BY DEF IInv
<1>2. /\ pc = "stream" /\ pc' = pc /\ pos < journal /\ pos + 1 \in Foreign /\ pos' = pos + 1
      /\ journal' = journal /\ day' = day /\ saved' = saved /\ from' = from /\ last' = last
      /\ ends' = ends /\ crashes' = crashes /\ faults' = faults
      /\ present' = present /\ inserted' = inserted /\ failed' = failed
  BY DEF Garbled, world, log, bounds
<1>3. pos' \in 0 .. journal /\ last \in 0 .. pos' /\ pos <= pos'
  BY <1>1, <1>2, Ranges
<1>4. TypeOK'
  BY <1>1, <1>2, <1>3 DEF TypeOK
<1>5. \A e : Done(e)' <=> Done(e)
  BY <1>2 DEF Done
<1>6. NothingSkipped'
  BY <1>1, <1>2, <1>5 DEF NothingSkipped
<1>7. Handed'
  <2> SUFFICES ASSUME NEW e \in 1 .. pos' PROVE e <= from' \/ Done(e)'
    BY DEF Handed
  <2>1. e \in 1 .. pos \/ e = pos + 1
    BY <1>1, <1>2, Ranges
  <2>2. CASE e = pos + 1
    BY <1>2, <2>2 DEF Done
  <2> QED BY <1>1, <1>2, <1>5, <2>1, <2>2 DEF Handed
<1>8. Repeats'
  <2>1. ASSUME NEW e \in Entries
        PROVE  /\ last = 0 => inserted[e] <= Spent + (IF e <= saved /\ e <= pos' THEN 1 ELSE 0)
               /\ last # 0 => inserted[e] <= Spent + (IF e <= pos' THEN 1 ELSE 0)
    <3>1. /\ last = 0 => inserted[e] <= Spent + (IF e <= saved /\ e <= pos THEN 1 ELSE 0)
          /\ last # 0 => inserted[e] <= Spent + (IF e <= pos THEN 1 ELSE 0)
      BY <1>1, <1>2 DEF Repeats
    <3>2. inserted[e] \in Nat /\ Spent \in Nat /\ e \in Nat /\ (e <= pos => e <= pos')
      BY <1>1, <1>2, Ranges DEF Spent
    <3> QED BY <3>1, <3>2
  <2>2. Spent' = Spent
    BY <1>2 DEF Spent
  <2> QED BY <1>1, <1>2, <2>1, <2>2 DEF Repeats
<1>9. Passed'
  <2> SUFFICES ASSUME NEW e \in Entries, last' # 0, last' < e, e <= pos' PROVE e \in Foreign
    BY DEF Passed
  <2>1. e <= pos \/ e = pos + 1
    BY <1>1, <1>2, Ranges
  <2> QED BY <1>1, <1>2, <2>1 DEF Passed
<1> QED BY <1>4, <1>6, <1>7, <1>8, <1>9 DEF IInv

\* The cursor is saved, or not; the stream ends and begins again.
LEMMA SaveInvariant ==
    ASSUME IInv, SaveCursor \/ NotYet \/ EndStream \/ SaveFinalCursor \/ SetCursorFails
    PROVE  IInv'
<1>1. TypeOK /\ NothingSkipped /\ Handed /\ Repeats /\ Passed
  BY DEF IInv
<1>2. /\ journal' = journal /\ day' = day /\ present' = present /\ inserted' = inserted
      /\ failed' = failed /\ pos' = pos /\ last' = last /\ from' = from /\ crashes' = crashes
  BY DEF SaveCursor, NotYet, EndStream, SaveFinalCursor, SetCursorFails, world, log, bounds
<1>3. \/ /\ pc = "read" /\ pc' = "stream" /\ saved' \in {saved, last}
         /\ ends' = ends /\ faults' = faults
      \/ /\ pc = "stream" /\ pc' = "ended" /\ saved' = saved /\ ends < MaxEnds
         /\ ends' = ends + 1 /\ faults' = faults
      \/ /\ pc = "ended" /\ pc' = "open" /\ saved' = (IF last = 0 THEN saved ELSE last)
         /\ ends' = ends /\ faults' = faults
      \/ /\ pc = "read" /\ pc' = "stream" /\ saved' = saved
         /\ faults < MaxFaults /\ faults' = faults + 1 /\ ends' = ends
      \/ /\ pc = "ended" /\ last # 0 /\ pc' = "open" /\ saved' = saved
         /\ faults < MaxFaults /\ faults' = faults + 1 /\ ends' = ends
  BY DEF SaveCursor, NotYet, EndStream, SaveFinalCursor, SetCursorFails, bounds
<1>4. /\ faults' \in 0 .. MaxFaults /\ ends' \in 0 .. MaxEnds
      /\ pc' \in {"open", "stream", "read", "ended"}
      /\ saved' \in {saved, last} /\ saved' \in 0 .. journal
  BY <1>1, <1>3, Ranges DEF Repeats
<1>5. TypeOK'
  BY <1>1, <1>2, <1>4 DEF TypeOK
<1>6. \A e : Done(e)' <=> Done(e)
  BY <1>2 DEF Done
<1>7. Handed' /\ NothingSkipped' /\ Passed'
  BY <1>1, <1>2, <1>4, <1>6, Ranges DEF Handed, NothingSkipped, Passed
<1>8. Repeats'
  <2>1. /\ Spent \in Nat /\ Spent' \in Nat
        /\ faults' = faults => Spent' = Spent
        /\ faults' = faults + 1 => Spent' = Spent + 1
    BY <1>1, <1>2, <1>4, Ranges DEF Spent
  <2>2. ASSUME NEW e \in Entries
        PROVE  /\ inserted[e] \in Nat /\ e \in Nat
               /\ pc # "open" /\ last = 0
                    => inserted[e] <= Spent + (IF e <= saved /\ e <= pos THEN 1 ELSE 0)
               /\ pc # "open" /\ last # 0
                    => inserted[e] <= Spent + (IF e <= pos THEN 1 ELSE 0)
    BY <1>1, Ranges DEF Repeats
  <2>3. pc' = "open" => \A e \in Entries : inserted'[e] <= Spent' + (IF e <= saved' THEN 1 ELSE 0)
    <3> SUFFICES ASSUME pc' = "open", NEW e \in Entries
                 PROVE  inserted[e] <= Spent' + (IF e <= saved' THEN 1 ELSE 0)
      BY <1>2
    <3>1. CASE last = 0
      <4>1. saved' = saved /\ Spent' = Spent /\ pc # "open"
        BY <1>3, <2>1, <3>1
      <4> QED BY <2>1, <2>2, <3>1, <4>1
    <3>2. CASE last # 0
      <4>1. pc # "open" /\ last \in Nat /\ pos \in Nat
        BY <1>1, <1>3, <3>2, Ranges
      <4>2. (saved' = last /\ Spent' = Spent) \/ Spent' = Spent + 1
        BY <1>3, <2>1, <3>2, <4>1
      <4>3. last < e /\ e <= pos => inserted[e] = 0
        BY <1>1, <3>2 DEF Passed, TypeOK
      <4> QED BY <2>1, <2>2, <3>2, <4>1, <4>2, <4>3
    <3> QED BY <3>1, <3>2
  <2>4. pc' # "open" =>
          /\ last' = 0 => \A e \in Entries :
                inserted'[e] <= Spent' + (IF e <= saved' /\ e <= pos' THEN 1 ELSE 0)
          /\ last' # 0 => \A e \in Entries : inserted'[e] <= Spent' + (IF e <= pos' THEN 1 ELSE 0)
    <3> SUFFICES ASSUME pc' # "open", NEW e \in Entries
                 PROVE  /\ last = 0 =>
                           inserted[e] <= Spent' + (IF e <= saved' /\ e <= pos THEN 1 ELSE 0)
                        /\ last # 0 => inserted[e] <= Spent' + (IF e <= pos THEN 1 ELSE 0)
      BY <1>2
    <3>1. pc # "open" /\ (last = 0 => saved' = saved) /\ (Spent' = Spent \/ Spent' = Spent + 1)
      BY <1>1, <1>3, <2>1 DEF Repeats
    <3> QED BY <2>1, <2>2, <3>1
  <2>5. pc' = "read" => last' # 0
    BY <1>3
  <2> QED BY <2>3, <2>4, <2>5 DEF Repeats
<1> QED BY <1>5, <1>7, <1>8 DEF IInv

\* The user, the kernel, the clock.
LEMMA AroundInvariant ==
    ASSUME IInv, Clear \/ KernelLogs \/ DayPasses
    PROVE  IInv'
<1>1. TypeOK /\ NothingSkipped /\ Handed /\ Repeats /\ Passed
  BY DEF IInv
<1>2. /\ inserted' = inserted /\ failed' = failed /\ saved' = saved /\ pc' = pc /\ pos' = pos
      /\ last' = last /\ from' = from /\ ends' = ends /\ faults' = faults /\ crashes' = crashes
  BY DEF Clear, KernelLogs, DayPasses, world, log, tail, bounds
<1>3. \/ present' = [e \in Entries |-> 0] /\ journal' = journal /\ day' = day
      \/ present' = present /\ journal < MaxEntries /\ journal' = journal + 1 /\ day' = day
      \/ present' = present /\ journal' = journal /\ day' \in day + 1 .. journal
  BY DEF Clear, KernelLogs, DayPasses, world, log
<1>4. TypeOK'
  <2>1. /\ present' \in [Entries -> Nat]
        /\ \A e \in Entries : present'[e] <= inserted[e]
    BY <1>1, <1>3, Ranges DEF TypeOK
  <2>2. /\ journal' \in 0 .. MaxEntries /\ day' \in 0 .. journal' /\ from \in 0 .. day'
        /\ saved \in 0 .. journal' /\ pos \in 0 .. journal'
    BY <1>1, <1>3, Ranges
  <2> QED BY <1>1, <1>2, <2>1, <2>2 DEF TypeOK
<1>5. \A e : Done(e)' <=> Done(e)
  BY <1>2 DEF Done
<1>6. Handed' /\ NothingSkipped' /\ Passed'
  BY <1>1, <1>2, <1>5 DEF Handed, NothingSkipped, Passed
<1>7. Repeats'
  BY <1>1, <1>2 DEF Repeats, Spent
<1> QED BY <1>4, <1>6, <1>7 DEF IInv

\* The daemon ends and starts again.
LEMMA CrashInvariant ==
    ASSUME IInv, Crash
    PROVE  IInv'
<1>1. TypeOK /\ NothingSkipped /\ Handed /\ Repeats /\ Passed
  BY DEF IInv
<1>2. /\ crashes < MaxCrashes /\ crashes' = crashes + 1
      /\ pc' = "open" /\ pos' = 0 /\ last' = 0
      /\ journal' = journal /\ day' = day /\ present' = present /\ inserted' = inserted
      /\ failed' = failed /\ saved' = saved /\ from' = from /\ ends' = ends /\ faults' = faults
  BY DEF Crash, world, log
<1>3. TypeOK'
  <2>1. crashes' \in 0 .. MaxCrashes /\ pos' \in 0 .. journal
    BY <1>1, <1>2, Ranges
  <2> QED BY <1>1, <1>2, <2>1 DEF TypeOK
<1>4. \A e : Done(e)' <=> Done(e)
  BY <1>2 DEF Done
<1>5. Handed' /\ NothingSkipped' /\ Passed'
  BY <1>1, <1>2, <1>4 DEF Handed, NothingSkipped, Passed
<1>6. Repeats'
  <2>1. ASSUME NEW e \in Entries
        PROVE  inserted[e] <= Spent' + (IF e <= saved THEN 1 ELSE 0)
    <3>1. inserted[e] <= Spent + 1 /\ inserted[e] \in Nat /\ e \in Nat
      BY <1>1, Ranges DEF Repeats, Spent
    <3>2. Spent' = Spent + 1 /\ Spent \in Nat
      BY <1>1, <1>2, Ranges DEF Spent
    <3> QED BY <3>1, <3>2, <1>1, Ranges
  <2> QED BY <1>2, <2>1 DEF Repeats
<1> QED BY <1>3, <1>5, <1>6 DEF IInv

\* Every step keeps the invariant.
LEMMA NextInvariant == IInv /\ [Next]_vars => IInv'
<1> SUFFICES ASSUME IInv, [Next]_vars PROVE IInv'
  OBVIOUS
<1>1. CASE Open
  BY <1>1, StreamInvariant DEF Open
<1>2. CASE GetCursorFails
  BY <1>2, StreamInvariant, TailAssumption DEF GetCursorFails, IInv, TypeOK
<1>3. CASE Insert \/ InsertFails \/ Ignore
  BY <1>3, ReadInvariant
<1>4. CASE Garbled
  BY <1>4, GarbledInvariant
<1>5. CASE SaveCursor \/ NotYet \/ EndStream \/ SaveFinalCursor \/ SetCursorFails
  BY <1>5, SaveInvariant
<1>6. CASE Clear \/ KernelLogs \/ DayPasses
  BY <1>6, AroundInvariant
<1>7. CASE Crash
  BY <1>7, CrashInvariant
<1>8. CASE UNCHANGED vars
  BY <1>8 DEF vars, world, log, tail, bounds, IInv, TypeOK, NothingSkipped, Handed,
              Repeats, Spent, Passed, Done
<1> QED BY <1>1, <1>2, <1>3, <1>4, <1>5, <1>6, <1>7, <1>8 DEF Next, Tail

\* The inductive invariant holds in every reachable state of Spec, for all constants.
THEOREM TailInvariance == Spec => []IInv
BY InitInvariant, NextInvariant, PTL DEF Spec

\* TypeOK for all constants: types of the journal, the table and the goroutine.
THEOREM TypeCorrect == Spec => []TypeOK
<1>1. IInv => TypeOK
  BY DEF IInv
<1> QED BY <1>1, TailInvariance, PTL

\* NothingSkipped for all constants: the saved cursor is never ahead of the log.
THEOREM CursorIsBehind == Spec => []NothingSkipped
<1>1. IInv => NothingSkipped
  BY DEF IInv
<1> QED BY <1>1, TailInvariance, PTL

\* The bound on repeats, from where the next stream or line begins.
LEMMA RepeatsFollow == ASSUME IInv PROVE RepeatsAreCounted
<1> SUFFICES ASSUME NEW e \in Entries PROVE inserted[e] <= 1 + crashes + faults
  BY DEF RepeatsAreCounted
<1>1. inserted[e] \in Nat /\ crashes \in Nat /\ faults \in Nat
  BY TailAssumption DEF IInv, TypeOK
<1> QED BY <1>1 DEF IInv, Repeats, Spent

\* RepeatsAreCounted for all constants: each crash or failure repeats an entry at most
\* once, and nothing else repeats one.
THEOREM RepeatsBounded == Spec => []RepeatsAreCounted
<1>1. IInv => RepeatsAreCounted
  BY RepeatsFollow
<1> QED BY <1>1, TailInvariance, PTL

-----------------------------------------------------------------------------
(* The pages *)

\* Division with remainder.
LEMMA Quotient ==
    ASSUME NEW a \in Nat, NEW b \in Nat, b > 0
    PROVE  a \div b \in Nat /\ (a \div b) * b <= a /\ a < (a \div b) * b + b
OBVIOUS

\* What is below the next multiple is not above it.
LEMMA QuotientBelow ==
    ASSUME NEW a \in Int, NEW c \in Int, NEW b \in Nat, a * b < c * b + b
    PROVE  a <= c
OBVIOUS

\* Multiplication keeps the order.
LEMMA ProductMonotone ==
    ASSUME NEW a \in Int, NEW c \in Int, NEW b \in Nat, a <= c
    PROVE  a * b <= c * b
OBVIOUS

\* As many pages as hold the rows, and the last of them holds one.
LEMMA PagesCount ==
    ASSUME NEW total \in Nat, NEW per \in 1 .. 500
    PROVE  /\ Pages(total, per) \in Nat /\ Pages(total, per) >= 1
           /\ total <= Pages(total, per) * per
           /\ total > 0 => (Pages(total, per) - 1) * per < total
<1>1. total + per - 1 \in Nat /\ per \in Nat /\ per > 0
  OBVIOUS
<1>2. PICK n \in Nat : /\ n = (total + per - 1) \div per
                       /\ n * per <= total + per - 1 /\ total + per - 1 < n * per + per
  BY <1>1, Quotient
<1>3. Pages(total, per) = IF n < 1 THEN 1 ELSE n
  BY <1>2 DEF Pages
<1>4. CASE n < 1
  <2>1. n = 0 /\ n * per = 0
    BY <1>1, <1>2, <1>4
  <2> QED BY <1>1, <1>2, <1>3, <2>1
<1>5. CASE n >= 1
  <2>1. (n - 1) * per = n * per - per
    BY <1>1, <1>2
  <2> QED BY <1>1, <1>2, <1>3, <1>5, <2>1
<1> QED BY <1>2, <1>4, <1>5

\* There is a page, even of nothing.
LEMMA PagesPositive ==
    ASSUME NEW total \in Nat, NEW per \in 1 .. 500
    PROVE  Pages(total, per) \in Nat /\ Pages(total, per) >= 1
BY PagesCount, Zenon

\* A page number that exists shows the rows of that page.
LEMMA PageRows ==
    ASSUME NEW total \in Nat, NEW per \in 1 .. 500, NEW n \in 1 .. Pages(total, per)
    PROVE  QueryPaginated(total, total, per, n)
             = {i \in 1 .. total : (n - 1) * per < i /\ i <= (n - 1) * per + per}
<1>1. PerPage(per) = per
  BY DEF PerPage
<1>2. PageShown(total, per, n) = n
  <2>1. Pages(total, per) \in Nat
    BY PagesPositive, Zenon
  <2>2. ~(n < 1) /\ ~(n > Pages(total, per))
    BY <2>1
  <2> QED BY <2>2 DEF PageShown
<1> QED BY <1>1, <1>2 DEF QueryPaginated

\* ShowEverything for a table and a page of any size: the page a row is on is found by
\* dividing its number by the size.
THEOREM PagesPartition ==
    ASSUME NEW total \in Nat, NEW per \in 1 .. 500
    PROVE  ShowEverything(total, per)
<1> DEFINE last_ == Pages(total, per)
<1>1. last_ \in Nat /\ last_ >= 1 /\ total <= last_ * per
      /\ (total > 0 => (last_ - 1) * per < total) /\ per \in Nat /\ per > 0
  <2>1. per \in Nat /\ per > 0
    OBVIOUS
  <2> QED BY <2>1, PagesCount, Zenon
<1>2. ASSUME NEW i \in 1 .. total
      PROVE  \E n \in 1 .. last_ : \A k \in 1 .. last_ :
                i \in QueryPaginated(total, total, per, k) <=> k = n
  <2>1. PICK q \in Nat : q * per <= i - 1 /\ i - 1 < q * per + per
    <3>1. i - 1 \in Nat
      OBVIOUS
    <3> QED BY <1>1, <3>1, Quotient
  <2>2. q + 1 \in 1 .. last_
    <3>1. q * per < (last_ - 1) * per + per
      <4>1. (last_ - 1) * per + per = last_ * per
        BY <1>1
      <4> QED BY <1>1, <2>1, <4>1
    <3>2. q <= last_ - 1
      <4> HIDE DEF last_
      <4> QED BY <1>1, <2>1, <3>1, QuotientBelow
    <3> HIDE DEF last_
    <3> QED BY <1>1, <2>1, <3>2
  <2>3. ASSUME NEW k \in 1 .. last_
        PROVE  i \in QueryPaginated(total, total, per, k) <=> k = q + 1
    <3>1. i \in QueryPaginated(total, total, per, k)
             <=> (k - 1) * per < i /\ i <= (k - 1) * per + per
      <4>1. QueryPaginated(total, total, per, k)
              = {j \in 1 .. total : (k - 1) * per < j /\ j <= (k - 1) * per + per}
        BY PageRows, Zenon
      <4> QED BY <4>1, Zenon
    <3>2. k - 1 \in Int /\ q \in Int /\ i \in Int /\ per \in Nat
      BY <1>1
    <3>3. ASSUME (k - 1) * per < i, i <= (k - 1) * per + per PROVE k = q + 1
      <4>1. q * per < (k - 1) * per + per /\ (k - 1) * per < q * per + per
        BY <2>1, <3>2, <3>3
      <4>2. q <= k - 1 /\ k - 1 <= q
        BY <3>2, <4>1, QuotientBelow
      <4> QED BY <3>2, <4>2
    <3>4. ASSUME k = q + 1 PROVE (k - 1) * per < i /\ i <= (k - 1) * per + per
      <4>1. k - 1 = q
        BY <3>4, <3>2
      <4> QED BY <2>1, <3>2, <4>1
    <3> QED BY <3>1, <3>3, <3>4
  <2> QED BY <2>2, <2>3
<1>3. ASSUME NEW n \in -1 .. total + 1
      PROVE  \E k \in 1 .. last_ :
                QueryPaginated(total, total, per, n) = QueryPaginated(total, total, per, k)
  <2>1. PageShown(total, per, n) \in 1 .. last_
    BY <1>1 DEF PageShown
  <2>2. PageShown(total, per, PageShown(total, per, n)) = PageShown(total, per, n)
    BY <2>1, <1>1 DEF PageShown
  <2>3. QueryPaginated(total, total, per, n)
          = QueryPaginated(total, total, per, PageShown(total, per, n))
    <3>1. PerPage(per) = per
      BY DEF PerPage
    <3> QED BY <2>2, <3>1 DEF QueryPaginated
  <2> QED BY <2>1, <2>3
<1>4. ASSUME total > 0, NEW counted \in 0 .. total, NEW n \in -1 .. total + 1
      PROVE  QueryPaginated(counted, total, per, n) # {}
  <2> DEFINE page == PageShown(counted, per, n)
  <2>1. counted \in Nat
    OBVIOUS
  <2>2. /\ Pages(counted, per) \in Nat /\ Pages(counted, per) >= 1
        /\ counted > 0 => (Pages(counted, per) - 1) * per < counted
        /\ counted = 0 => Pages(counted, per) = 1
    <3>1. counted = 0 => Pages(counted, per) = 1
      <4> SUFFICES ASSUME counted = 0 PROVE Pages(0, per) = 1
        OBVIOUS
      <4>1. per \in Nat /\ per > 0
        BY <1>1
      <4>2. PICK q \in Nat : /\ q = (0 + per - 1) \div per
                             /\ q * per <= 0 + per - 1 /\ 0 + per - 1 < q * per + per
        <5>1. 0 + per - 1 \in Nat
          BY <4>1
        <5> QED BY <4>1, <5>1, Quotient
      <4>3. q < 1
        <5>1. q * per < 0 * per + per
          BY <4>1, <4>2
        <5>2. q <= 0
          BY <4>1, <4>2, <5>1, QuotientBelow
        <5> QED BY <4>2, <5>2
      <4> QED BY <4>2, <4>3 DEF Pages
    <3> QED BY <2>1, <3>1, PagesCount, Zenon
  <2>3. page \in Nat /\ page >= 1 /\ page <= Pages(counted, per)
    BY <2>2 DEF PageShown
  <2>4. (page - 1) * per <= (Pages(counted, per) - 1) * per
    <3>1. page - 1 \in Int /\ Pages(counted, per) - 1 \in Int /\ per \in Nat
          /\ page - 1 <= Pages(counted, per) - 1
      BY <1>1, <2>2, <2>3
    <3> HIDE DEF page
    <3> QED BY <3>1, ProductMonotone
  <2>5. (page - 1) * per \in Nat
    <3> HIDE DEF page
    <3> QED BY <1>1, <2>3
  <2>6. (Pages(counted, per) - 1) * per < total
    <3>1. CASE counted = 0
      <4>1. Pages(counted, per) - 1 = 0
        BY <2>2, <3>1
      <4>2. (Pages(counted, per) - 1) * per = 0
        BY <1>1, <4>1
      <4> QED BY <1>4, <4>2
    <3>2. CASE counted > 0
      <4>1. (Pages(counted, per) - 1) * per \in Int
        BY <1>1, <2>2
      <4> QED BY <2>2, <3>2, <4>1
    <3> QED BY <2>1, <3>1, <3>2
  <2>7. (page - 1) * per + 1 \in 1 .. total
    <3>1. (Pages(counted, per) - 1) * per \in Int
      BY <1>1, <2>2
    <3> HIDE DEF page
    <3> QED BY <1>4, <2>4, <2>5, <2>6, <3>1
  <2>8. (page - 1) * per < (page - 1) * per + 1 /\ (page - 1) * per + 1 <= (page - 1) * per + per
    <3> HIDE DEF page
    <3> QED BY <1>1, <2>5
  <2>9. QueryPaginated(counted, total, per, n)
          = {i \in 1 .. total : (page - 1) * per < i /\ i <= (page - 1) * per + per}
    <3>1. PerPage(per) = per
      BY DEF PerPage
    <3> QED BY <3>1 DEF QueryPaginated
  <2> HIDE DEF page
  <2> QED BY <2>7, <2>8, <2>9, Zenon
<1> QED BY <1>2, <1>3, <1>4 DEF ShowEverything

\* The table is finite: an entry has at most one row more than there were crashes and
\* failures.
LEMMA RowsAreCounted == ASSUME IInv PROVE Rows \in Nat
<1> DEFINE most == 1 + MaxCrashes + MaxFaults
           rows == UNION {{e} \X (1 .. present[e]) : e \in Entries}
<1>1. TypeOK /\ RepeatsAreCounted
  BY RepeatsFollow DEF IInv
<1>2. most \in Int /\ 1 \in Int /\ MaxEntries \in Int
  BY TailAssumption
<1>3. \A e \in Entries : present[e] \in Nat /\ present[e] <= most
  <2> TAKE e \in Entries
  <2>1. /\ present[e] \in Nat /\ inserted[e] \in Nat /\ present[e] <= inserted[e]
        /\ inserted[e] <= 1 + crashes + faults
    BY <1>1 DEF TypeOK, RepeatsAreCounted
  <2> QED BY <1>1, <2>1, Ranges
<1>4. IsFiniteSet(Entries \X (1 .. most))
  <2>1. IsFiniteSet(Entries) /\ IsFiniteSet(1 .. most)
    <3> HIDE DEF most
    <3> QED BY <1>2, FS_Interval DEF Entries
  <2> QED BY <2>1, FS_Product
<1>5. rows \in SUBSET (Entries \X (1 .. most))
  <2> SUFFICES ASSUME NEW e \in Entries, NEW r \in {e} \X (1 .. present[e])
               PROVE  r \in Entries \X (1 .. most)
    OBVIOUS
  <2>1. PICK k \in 1 .. present[e] : r = <<e, k>>
    OBVIOUS
  <2>2. k \in 1 .. most
    <3> HIDE DEF most
    <3> QED BY <1>2, <1>3
  <2> HIDE DEF most
  <2> QED BY <2>1, <2>2
<1>6. Cardinality(rows) \in Nat
  <2> HIDE DEF rows, most
  <2> QED BY <1>4, <1>5, FS_Subset, FS_CardinalityType
<1> QED BY <1>6 DEF Rows

\* The pages show the whole log, however often it has been filled and cleared.
THEOREM PagesShowTheLog == Spec => []PagesShowEverything
<1>1. IInv => PagesShowEverything
  <2> SUFFICES ASSUME IInv, NEW per \in 1 .. 3 PROVE ShowEverything(Rows, per)
    BY DEF PagesShowEverything
  <2>1. per \in 1 .. 500
    OBVIOUS
  <2> QED BY <2>1, RowsAreCounted, PagesPartition
<1> QED BY <1>1, TailInvariance, PTL
=============================================================================
