------------------------------- MODULE RowRead -------------------------------
(***************************************************************************)
(* Reading scattered rows of one tensor, as the three readers of the       *)
(* repository do it: read_rows_impl of c/src/reader.c, read_rows of        *)
(* native/rowio.c, and the fallback of read_rows_numpy in                  *)
(* src/colibri_runtime/storage.py.  All sort the requested rows, merge     *)
(* consecutive ones into runs, pread each run into a block, and scatter    *)
(* the rows of the block to the positions that asked for them.             *)
(*                                                                         *)
(* A byte of the file is its index in the tensor, so that what arrives in  *)
(* the output says where it came from.                                     *)
(***************************************************************************)
EXTENDS Integers, Sequences, FiniteSets, FiniteSetsExt

CONSTANTS
  Readers,     \* which of the three implementations run
  NumRows,     \* rows of the tensor
  RowBytes,    \* bytes per row
  MaxRequests, \* longest request list
  ShortReads,  \* the readers whose preads may return fewer bytes than asked for
  Failures     \* whether pread may fail or report the end of the file

ReaderC == "reader.c"
RowioC == "rowio.c"
StoragePy == "storage.py"

ReadParameters == /\ Readers \subseteq {ReaderC, RowioC, StoragePy}
                  /\ {NumRows, RowBytes, MaxRequests} \subseteq Nat \ {0}
                  /\ ShortReads \subseteq Readers
                  /\ Failures \in BOOLEAN

Junk == -1   \* what malloc and PyBytes_FromStringAndSize(NULL) return

VARIABLES
  reader,   \* the implementation
  rows,     \* the requested rows, in request order
  left,     \* the positions of rows not served yet
  block,    \* the scratch block
  start, expect,   \* the current run: rows start .. expect - 1
  off,      \* bytes of the run that have been read
  out,      \* the output buffer
  calls, total,    \* pread calls and bytes counted for the statistics
  pc        \* "run", "pread", "scatter", "ok", "failed"

readVars == <<reader, rows, left, block, start, expect, off, out, calls, total, pc>>

Row == 0..(NumRows - 1)
Positions == 1..Len(rows)
RowsOf(ps) == {rows[p] : p \in ps}

\* The rows from lo on that are requested without a gap: while (rows[..] ==
\* expect) expect++ over the sorted list, duplicates skipped.
RunEnd(lo, wanted) == Min({r \in (lo + 1)..NumRows : r \notin wanted})

\* Where the maximal runs of a set of rows start.
RunStarts(wanted) == {r \in wanted : r - 1 \notin wanted}

\* Mutant of BlockBytes: the block holds the first run.
FirstRunBytes(wanted) == RowBytes * (RunEnd(Min(wanted), wanted) - Min(wanted))

\* The scratch block holds the longest run.
BlockBytes(wanted) ==
  RowBytes * Max({RunEnd(r, wanted) - r : r \in RunStarts(wanted)})

RunBytes == (expect - start) * RowBytes

-----------------------------------------------------------------------------

\* Next run: after sorting, the smallest row not served begins it.
NextRun == /\ pc = "run"
           /\ left # {}
           /\ LET lo == Min(RowsOf(left)) IN
                /\ start' = lo
                /\ expect' = RunEnd(lo, RowsOf(left))
           /\ off' = 0
           /\ pc' = "pread"
           /\ UNCHANGED <<reader, rows, left, block, out, calls, total>>

\* Mutant of Dest: every pread starts at the front of the block.
DestAtFront == 0

\* Where in the block a pread that continues a run puts its bytes.
Dest == IF reader = ReaderC THEN 0 ELSE off

\* pread returned n of the bytes asked for.
Arrived(n) == [i \in DOMAIN block |->
                 IF i \in Dest..(Dest + n - 1)
                 THEN start * RowBytes + off + (i - Dest)
                 ELSE block[i]]

\* Mutants of Pread: asks for the whole run again; forgets what came before.
PreadWholeRun == /\ pc = "pread"
                 /\ off < RunBytes
                 /\ \E n \in 1..RunBytes :
                      /\ reader \in ShortReads \/ n = RunBytes
                      /\ block' = Arrived(n)
                      /\ off' = off + n
                 /\ calls' = calls + 1
                 /\ UNCHANGED <<reader, rows, left, start, expect, out, total, pc>>
PreadFromStart == /\ pc = "pread"
                  /\ off < RunBytes
                  /\ \E n \in 1..(RunBytes - off) :
                       /\ reader \in ShortReads \/ n = RunBytes - off
                       /\ block' = Arrived(n)
                       /\ off' = n
                  /\ UNCHANGED <<reader, rows, left, start, expect, out, calls, total, pc>>

\* The loops of reader.c and rowio.c go on after a short read; storage.py
\* raises.  The C readers retry EINTR, which changes nothing.
Pread == /\ pc = "pread"
         /\ off < RunBytes
         /\ \E n \in 1..(RunBytes - off) :
              /\ reader \in ShortReads \/ n = RunBytes - off
              /\ block' = Arrived(n)
              /\ IF reader = StoragePy /\ n < RunBytes
                 THEN pc' = "failed" /\ UNCHANGED <<off, calls>>
                 ELSE off' = off + n /\ calls' = calls + 1 /\ UNCHANGED pc
         /\ UNCHANGED <<reader, rows, left, start, expect, out, total>>

\* pread returned an error, or 0 bytes, which becomes EIO and which rowio.c
\* counts as a call.
PreadFails == /\ pc = "pread"
              /\ Failures
              /\ off < RunBytes
              /\ pc' = "failed"
              /\ calls' \in {calls} \cup (IF reader = RowioC THEN {calls + 1} ELSE {})
              /\ UNCHANGED <<reader, rows, left, block, start, expect, off, out, total>>

\* Mutant of RunComplete: duplicates are counted.
RunCompleteCountingRequests ==
  /\ pc = "pread"
  /\ off = RunBytes
  /\ total' = total + RowBytes * Cardinality({p \in left : rows[p] < expect})
  /\ pc' = "scatter"
  /\ UNCHANGED <<reader, rows, left, block, start, expect, off, out, calls>>

RunComplete == /\ pc = "pread"
               /\ off = RunBytes
               /\ total' = total + RunBytes
               /\ pc' = "scatter"
               /\ UNCHANGED <<reader, rows, left, block, start, expect, off, out, calls>>

\* Every request of a row of the run gets its copy, duplicates included.
Served == {p \in left : rows[p] < expect}

Scatter == /\ pc = "scatter"
           /\ out' = [p \in Positions |->
                        IF p \in Served
                        THEN [b \in 0..(RowBytes - 1) |->
                                block[(rows[p] - start) * RowBytes + b]]
                        ELSE out[p]]
           /\ left' = left \ Served
           /\ pc' = "run"
           /\ UNCHANGED <<reader, rows, block, start, expect, off, calls, total>>

Finished == /\ pc = "run"
            /\ left = {}
            /\ pc' = "ok"
            /\ UNCHANGED <<reader, rows, left, block, start, expect, off, out, calls, total>>

Requests == UNION {[1..n -> Row] : n \in 1..MaxRequests}

ReadInit == /\ reader \in Readers
            /\ rows \in Requests
            /\ left = Positions
            /\ block = [i \in 0..(BlockBytes(RowsOf(Positions)) - 1) |-> Junk]
            /\ start = 0 /\ expect = 0 /\ off = 0
            /\ out = [p \in Positions |-> [b \in 0..(RowBytes - 1) |-> Junk]]
            /\ calls = 0 /\ total = 0
            /\ pc = "run"

ReadNext == NextRun \/ Pread \/ PreadFails \/ RunComplete \/ Scatter \/ Finished

ReadSpec == ReadInit /\ [][ReadNext]_readVars
ReadFairSpec == ReadSpec /\ WF_readVars(ReadNext)

-----------------------------------------------------------------------------
(* Correctness *)

ReadTypeOK == /\ reader \in Readers
              /\ rows \in Requests
              /\ left \subseteq Positions
              /\ DOMAIN block = 0..(BlockBytes(RowsOf(Positions)) - 1)
              /\ start \in 0..NumRows /\ expect \in 0..NumRows
              /\ off \in 0..(NumRows * RowBytes)
              /\ DOMAIN out = Positions
              /\ calls \in Nat /\ total \in Nat
              /\ pc \in {"run", "pread", "scatter", "ok", "failed"}

\* The comment at reader.c:8 and the promise of all three: a read that
\* succeeds has put each requested row at the position that asked for it, for
\* any order, any duplicates and however pread splits a run.
ReadsRequestedRows ==
  pc = "ok" => \A p \in Positions, b \in 0..(RowBytes - 1) :
                 out[p][b] = rows[p] * RowBytes + b

\* The block is allocated from a first pass over the runs (reader.c:40) and
\* filled in a second one: no run is longer than the block.
RunFitsBlock == pc = "pread" => RunBytes <= Cardinality(DOMAIN block)

\* Merging reads every distinct row once, whatever the duplicates, and costs
\* one pread per maximal run when none is short.
ReadsEachRowOnce ==
  pc = "ok" => /\ total = RowBytes * Cardinality(RowsOf(Positions))
               /\ calls >= Cardinality(RunStarts(RowsOf(Positions)))
               /\ reader \notin ShortReads => calls = Cardinality(RunStarts(RowsOf(Positions)))

ReadReturned == pc \in {"ok", "failed"}

\* Every read returns: each pread makes progress or ends it.
ReadReturns == <>ReadReturned
=============================================================================
