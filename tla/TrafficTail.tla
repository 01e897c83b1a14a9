---------------------------- MODULE TrafficTail ----------------------------
(***************************************************************************)
(* How the kernel's log of the packet filter gets into query_log: a        *)
(* goroutine reads `journalctl --follow', inserts a row for each entry of  *)
(* the firewall and from time to time saves the cursor of the last entry   *)
(* it has read, from which the next stream begins.  The user clears the    *)
(* table and reads it page by page.                                        *)
(*                                                                         *)
(* The entries of the journal are numbered; a cursor is the number of its  *)
(* entry and 0 is "no cursor".  "More than 5 seconds since the last save"  *)
(* may be true or false whenever it is asked.                              *)
(*                                                                         *)
(* Assumed: no line is longer than the scanner's buffer of 1 MiB (a record *)
(* of the kernel's log has a few KiB at most).  The loop would end on it   *)
(* with journalctl alive, and cmd.Wait would then not return.              *)
(***************************************************************************)
EXTENDS Integers, FiniteSets

CONSTANTS
    Foreign,      \* kernel messages that are not the firewall's
    MaxEntries,   \* bound: entries of the journal
    MaxEnds,      \* bound: streams that end (journald restarted, journalctl killed)
    MaxFaults,    \* bound: statements that fail
    MaxCrashes    \* bound: ends of the daemon

Entries == 1 .. MaxEntries

ASSUME TailAssumption ==
    /\ MaxEntries \in Nat /\ Foreign \subseteq Entries
    /\ MaxEnds \in Nat /\ MaxFaults \in Nat /\ MaxCrashes \in Nat

VARIABLES
    journal,   \* entries 1 .. journal are in the journal
    day,       \* entries 1 .. day are more than a day old
    present,   \* query_log: the rows it holds for each entry
    saved,     \* kv_store: the cursor
    pc,
    pos,       \* the last entry journalctl has handed over in this stream
    last,      \* lastCursor
    \* history, to state the properties with:
    inserted,  \* the rows ever inserted for each entry
    failed,    \* entries whose INSERT failed
    from,      \* `day' when a stream last began without a cursor
    \* bounds:
    ends, faults, crashes

tail    == <<pc, pos, last>>
log     == <<present, inserted, failed>>
world   == <<journal, day>>
bounds  == <<ends, faults, crashes>>
vars    == <<world, log, saved, tail, from, bounds>>

Init ==
    /\ journal = 0 /\ day = 0
    /\ present = [e \in Entries |-> 0] /\ inserted = [e \in Entries |-> 0] /\ failed = {}
    /\ saved = 0
    /\ pc = "open" /\ pos = 0 /\ last = 0
    /\ from = 0
    /\ ends = 0 /\ faults = 0 /\ crashes = 0

-----------------------------------------------------------------------------
(* tailJournal *)

\* (seeded fault: without a cursor, only what is logged from now on)
StreamFromNow(cursor) ==
    /\ pc = "open"
    /\ pc' = "stream"
    /\ pos' = IF cursor = 0 THEN journal ELSE cursor
    /\ last' = 0
    /\ from' = IF cursor = 0 THEN day ELSE from
    /\ UNCHANGED <<world, log, saved, ends, crashes>>

\* One stream: after the cursor, or the last day when there is none
Stream(cursor) ==
    /\ pc = "open"
    /\ pc' = "stream"
    /\ pos' = IF cursor = 0 THEN day ELSE cursor
    /\ last' = 0
    /\ from' = IF cursor = 0 THEN day ELSE from
    /\ UNCHANGED <<world, log, saved, ends, crashes>>

\* (seeded fault: the line after the cursor is dropped)
OpenDroppingFirst ==
    Stream(IF saved < journal THEN saved + 1 ELSE saved) /\ UNCHANGED faults

Open == Stream(saved) /\ UNCHANGED faults

\* getCursor logs the error and returns ""
GetCursorFails == faults < MaxFaults /\ faults' = faults + 1 /\ Stream(0)

Read ==
    /\ pc = "stream" /\ pos < journal
    /\ pos' = pos + 1 /\ last' = pos + 1
    /\ pc' = "read"
    /\ UNCHANGED <<world, saved, from, ends, crashes>>

\* (seeded fault: whatever the kernel logs is inserted)
InsertAny ==
    /\ Read
    /\ present' = [present EXCEPT ![pos + 1] = @ + 1]
    /\ inserted' = [inserted EXCEPT ![pos + 1] = @ + 1]
    /\ UNCHANGED <<failed, faults>>

\* the entry handed over is the firewall's: insertEntry
Insert ==
    /\ Read /\ pos + 1 \notin Foreign
    /\ present' = [present EXCEPT ![pos + 1] = @ + 1]
    /\ inserted' = [inserted EXCEPT ![pos + 1] = @ + 1]
    /\ UNCHANGED <<failed, faults>>

\* the error is logged; nobody tries again
InsertFails ==
    /\ faults < MaxFaults
    /\ faults' = faults + 1
    /\ Read /\ pos + 1 \notin Foreign
    /\ failed' = failed \cup {pos + 1}
    /\ UNCHANGED <<present, inserted>>

Ignore == Read /\ pos + 1 \in Foreign /\ UNCHANGED <<log, faults>>

\* A line that is not a JSON entry with a text message is passed over, its cursor too
Garbled ==
    /\ pc = "stream" /\ pos < journal /\ pos + 1 \in Foreign
    /\ pos' = pos + 1
    /\ UNCHANGED <<world, log, saved, pc, last, from, bounds>>

\* setCursor, when the last save was more than 5 seconds ago
SaveCursor ==
    /\ pc = "read" /\ pc' = "stream"
    /\ saved' = last
    /\ UNCHANGED <<world, log, pos, last, from, bounds>>

NotYet ==
    /\ pc = "read" /\ pc' = "stream"
    /\ UNCHANGED <<world, log, saved, pos, last, from, bounds>>

EndStream ==
    /\ pc = "stream" /\ ends < MaxEnds
    /\ ends' = ends + 1
    /\ pc' = "ended"
    /\ UNCHANGED <<world, log, saved, pos, last, from, faults, crashes>>

\* (seeded fault: the final cursor is not saved)
EndWithoutSave ==
    /\ pc = "ended" /\ pc' = "open"
    /\ UNCHANGED <<world, log, saved, pos, last, from, bounds>>

SaveFinalCursor ==
    /\ pc = "ended" /\ pc' = "open"
    /\ saved' = IF last = 0 THEN saved ELSE last    \* nothing was read
    /\ UNCHANGED <<world, log, pos, last, from, bounds>>

\* setCursor logs the error; the loop goes on either way
SetCursorFails ==
    /\ faults < MaxFaults
    /\ faults' = faults + 1
    /\ \/ pc = "read" /\ pc' = "stream"
       \/ pc = "ended" /\ last # 0 /\ pc' = "open"
    /\ UNCHANGED <<world, log, saved, pos, last, from, ends, crashes>>

-----------------------------------------------------------------------------
(* The log on the page *)

\* (seeded fault: what the comment says, the cursor goes too)
ClearWithCursor ==
    /\ present' = [e \in Entries |-> 0]
    /\ saved' = 0
    /\ UNCHANGED <<world, inserted, failed, tail, from, bounds>>

\* The rows and their numbering; the cursor stays
Clear ==
    /\ present' = [e \in Entries |-> 0]
    /\ UNCHANGED <<world, inserted, failed, saved, tail, from, bounds>>

\* The page size asked for, or 50
PerPage(n) == IF n \in 1 .. 500 THEN n ELSE 50

\* (seeded fault: a last page that is not full is not counted)
PagesRoundedDown(total, per) == IF total < per THEN 1 ELSE total \div per

\* At least one
Pages(total, per) == LET n == (total + per - 1) \div per IN IF n < 1 THEN 1 ELSE n

\* The page shown for the page number n
PageShown(total, per, n) ==
    LET first == IF n < 1 THEN 1 ELSE n
    IN  IF first > Pages(total, per) THEN Pages(total, per) ELSE first

\* LIMIT per OFFSET: the rows shown of a table of total rows, numbered from the newest.
\* They were counted by an earlier query: rows may have come since, and a count that
\* failed is 0.
QueryPaginated(counted, total, perPage, n) ==
    LET per    == PerPage(perPage)
        offset == (PageShown(counted, per, n) - 1) * per
    IN  {i \in 1 .. total : offset < i /\ i <= offset + per}

-----------------------------------------------------------------------------
(* Around it *)

KernelLogs ==
    /\ journal < MaxEntries
    /\ journal' = journal + 1
    /\ UNCHANGED <<day, log, saved, tail, from, bounds>>

DayPasses ==
    /\ day' \in day + 1 .. journal
    /\ UNCHANGED <<journal, log, saved, tail, from, bounds>>

Crash ==
    /\ crashes < MaxCrashes
    /\ crashes' = crashes + 1
    /\ pc' = "open" /\ pos' = 0 /\ last' = 0
    /\ UNCHANGED <<world, log, saved, from, ends, faults>>

Tail ==
    \/ Open \/ Insert \/ Ignore \/ Garbled \/ SaveCursor \/ NotYet \/ SaveFinalCursor

Next ==
    \/ Tail
    \/ GetCursorFails \/ InsertFails \/ SetCursorFails
    \/ EndStream
    \/ Clear
    \/ KernelLogs \/ DayPasses
    \/ Crash

Spec == Init /\ [][Next]_vars

\* The goroutine runs, journalctl hands over what is there, and both are started
\* again whenever they end
FairSpec == Spec /\ WF_vars(Tail)

-----------------------------------------------------------------------------
(* Properties *)

Done(e) == inserted[e] > 0 \/ e \in failed \cup Foreign

\* Types of the journal, the table and the goroutine's variables; only what the firewall
\* has logged gets a row.
TypeOK ==
    /\ journal \in 0 .. MaxEntries /\ day \in 0 .. journal /\ from \in 0 .. day
    /\ inserted \in [Entries -> Nat] /\ present \in [Entries -> Nat]
    /\ \A e \in Entries : present[e] <= inserted[e]
    /\ \A e \in Entries \cap Foreign : inserted[e] = 0
    /\ failed \subseteq Entries \ Foreign
    /\ saved \in 0 .. journal /\ pos \in 0 .. journal /\ last \in 0 .. pos
    /\ pc \in {"open", "stream", "read", "ended"}
    /\ ends \in 0 .. MaxEnds /\ faults \in 0 .. MaxFaults
    /\ crashes \in 0 .. MaxCrashes

\* No saved cursor is ahead of the log: every entry up to it has had its INSERT, or
\* was more than a day old when a stream began without a cursor.  Whatever
\* stream begins there after a crash leaves nothing out.
NothingSkipped == \A e \in 1 .. saved : e <= from \/ Done(e)

\* An entry is inserted again only after a crash or a failed statement, once for
\* each: a stream that ends by itself goes on where it stopped, and what the user has
\* cleared does not come back.
RepeatsAreCounted == \A e \in Entries : inserted[e] <= 1 + crashes + faults

\* Every entry of the firewall that the journal holds gets its INSERT, however
\* streams end and the daemon restarts, unless it is too old for a stream that
\* began without a cursor.
EventuallyLogged == \A e \in Entries : journal >= e ~> e <= from \/ Done(e)

\* The rows of the table: COUNT( * )
Rows == Cardinality(UNION {{e} \X (1 .. present[e]) : e \in Entries})

\* Every row is on one page and on no other, and any page number shows one of the
\* pages.  No page is empty, however many rows have come since they were counted.
ShowEverything(total, per) ==
    LET pages == 1 .. Pages(total, per)
        Page(n) == QueryPaginated(total, total, per, n)
    IN  /\ \A i \in 1 .. total : \E n \in pages : \A k \in pages : i \in Page(k) <=> k = n
        /\ \A n \in -1 .. total + 1 : \E k \in pages : Page(n) = Page(k)
        /\ total > 0 => \A counted \in 0 .. total, n \in -1 .. total + 1 :
                           QueryPaginated(counted, total, per, n) # {}

\* The pages show the whole table, whatever has been inserted and cleared before; only
\* a Clear between the two queries can leave a page empty.
PagesShowEverything == \A per \in 1 .. 3 : ShowEverything(Rows, per)
=============================================================================
