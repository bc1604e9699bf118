---------------------------- MODULE TensorIndex ----------------------------
(***************************************************************************)
(* The index over the safetensors files of a model: st_index_open,         *)
(* parse_file, st_find and st_index_close of c/src/safetensors.c, and      *)
(* SafeTensorIndex of src/colibri_runtime/storage.py.  A header is met     *)
(* entry by entry and may hold anything; a file is its data area, bytes 0  *)
(* to DataBytes.  Jobs are reads handed to the threads of the index.       *)
(***************************************************************************)
EXTENDS Integers, Sequences, FiniteSets, Functions

CONSTANTS
  Engines, NumFiles, Names, \* names are ordered as strcmp orders them
  DataBytes,    \* file_size - base
  MaxEntries,   \* bound: entries in all headers together
  Numbers,      \* bound: the offsets in headers, of 64 bits with their sign
  Sizes,        \* bound: the products of dimensions, in bytes
  Word,         \* 2^64: offsets are unsigned in C, where products wrap
  Jobs

C == "safetensors.c"
Python == "storage.py"

Parameters == /\ Engines \subseteq {C, Python}
              /\ Names \subseteq Int /\ Numbers \subseteq Int /\ Sizes \subseteq Nat
              /\ {NumFiles, DataBytes, MaxEntries, Word} \subseteq Nat \ {0}
              /\ 2 * DataBytes < Word
              /\ \A n \in Numbers : -Word <= 2 * n /\ 2 * n < Word

VARIABLES
  engine,
  header,    \* the entries accepted so far, in order; no program variable
  tensors,   \* the table: ix->tensors, self.tensors
  file,      \* the file being parsed
  fds,       \* per file: "none", "open", "closed"
  status,    \* "open", "parse", "unwind", "ready", "closing", "closed", "failed"
  job        \* per job: what it does, and the file it has taken a descriptor of

vars == <<engine, header, tensors, file, fds, status, job>>

Entries == [file : {file}, name : Names, lo : Numbers, hi : Numbers, elems : Sizes]
Idle == [state |-> "idle", file |-> 1]

-----------------------------------------------------------------------------
(* Opening *)

OpenFile == /\ status = "open"
            /\ \/ fds' = [fds EXCEPT ![file] = "open"] /\ status' = "parse"
               \/ status' = "unwind" /\ UNCHANGED fds
            /\ UNCHANGED <<engine, header, tensors, file, job>>

\* The checks of one entry; hi - lo and elems wrap in C.
InRange(e) ==
  IF engine = C
  THEN LET lo == e.lo % Word  hi == e.hi % Word
       IN hi >= lo /\ hi - lo = e.elems % Word /\ hi <= DataBytes
  ELSE e.lo >= 0 /\ e.hi >= e.lo /\ e.hi - e.lo = e.elems /\ e.hi <= DataBytes

Duplicate(e) == \E i \in DOMAIN tensors : tensors[i].name = e.name

\* A file whose parsing fails is closed; C drops its tensors from the table.
Reject == /\ fds' = [fds EXCEPT ![file] = "closed"]
          /\ tensors' = SelectSeq(tensors, LAMBDA t : engine = Python \/ t.file # file)
          /\ header' = <<>>
          /\ status' = "unwind"

ParseEntry == /\ status = "parse"
              /\ Len(header) < MaxEntries
              /\ \E e \in Entries :
                   /\ IF InRange(e) /\ ~Duplicate(e)
                      THEN /\ header' = Append(header, e)
                           /\ tensors' = Append(tensors, e)
                           /\ UNCHANGED <<fds, status>>
                      ELSE Reject
              /\ UNCHANGED <<engine, file, job>>

\* A truncated header, one that is no JSON object, an entry without a dtype.
Malformed == /\ status = "parse"
             /\ Reject
             /\ UNCHANGED <<engine, file, job>>

Ranges == {i \in DOMAIN tensors : tensors[i].file = file}

\* Mutant of Overlap: starts alone are compared.
OverlapAtStart == \E i, j \in Ranges : i # j /\ tensors[i].lo = tensors[j].lo

\* C compares every pair; Python sorts by (lo, hi) and compares neighbours.
Overlap ==
  LET t == tensors
      before(i, j) == t[i].lo < t[j].lo \/ (t[i].lo = t[j].lo /\ t[i].hi < t[j].hi)
      next(i, j) == before(i, j) /\ ~\E k \in Ranges : before(i, k) /\ before(k, j)
  IN IF engine = C
     THEN \E i, j \in Ranges : i < j /\ t[i].lo < t[j].hi /\ t[j].lo < t[i].hi
     ELSE \E i, j \in Ranges :
            \/ next(i, j) /\ t[j].lo < t[i].hi
            \/ i # j /\ t[i].lo = t[j].lo /\ t[i].hi = t[j].hi /\ t[i].lo < t[i].hi

\* What qsort may do to the table, by name.
Sorting == {p \in Bijection(DOMAIN tensors, DOMAIN tensors) :
              \A i, j \in DOMAIN tensors :
                i < j => tensors[p[i]].name <= tensors[p[j]].name}

\* The end of a header, and of the last one: C sorts the table.
EndOfHeader == /\ status = "parse"
               /\ IF Overlap THEN Reject /\ UNCHANGED file
                  ELSE /\ status' = IF file = NumFiles THEN "ready" ELSE "open"
                       /\ file' = IF file = NumFiles THEN file ELSE file + 1
                       /\ IF file = NumFiles /\ engine = C
                          THEN \E p \in Sorting : tensors' = [i \in DOMAIN tensors |-> tensors[p[i]]]
                          ELSE UNCHANGED tensors
                       /\ UNCHANGED <<fds, header>>
               /\ UNCHANGED <<engine, job>>

AllClosed == [f \in DOMAIN fds |-> IF fds[f] = "open" THEN "closed" ELSE fds[f]]

\* st_index_close, or close from the except clause, after which the object is
\* not kept: no thread has a job yet.
Unwind == /\ status = "unwind"
          /\ fds' = AllClosed
          /\ tensors' = <<>>
          /\ status' = "failed"
          /\ UNCHANGED <<engine, header, file, job>>

-----------------------------------------------------------------------------
(* Lookup *)

\* st_find_exact: binary search of slots lo + 1 .. hi; 0 is NULL.
Search(name) ==
  LET find[w \in (0..Len(tensors)) \X (0..Len(tensors))] ==
        LET lo == w[1]  hi == w[2]  mid == (lo + hi) \div 2 IN
        IF lo >= hi THEN 0
        ELSE IF tensors[mid + 1].name = name THEN mid + 1
        ELSE IF tensors[mid + 1].name < name THEN find[<<mid + 1, hi>>]
        ELSE find[<<lo, mid>>]
  IN find[<<0, Len(tensors)>>]

\* self.tensors is a dict.
Find(name) == IF engine = C THEN Search(name)
              ELSE LET S == {i \in DOMAIN tensors : tensors[i].name = name}
                   IN IF S = {} THEN 0 ELSE CHOOSE i \in S : TRUE

-----------------------------------------------------------------------------
(* Reads and close *)

SetJob(j, s) == job' = [job EXCEPT ![j].state = s]

\* st_read_rows_async and read_rows_async; C takes the descriptor here.
Submit(j) == /\ status = "ready"
             /\ job[j] = Idle
             /\ \E name \in Names :
                  /\ Find(name) # 0
                  /\ job' = [job EXCEPT ![j] = [state |-> "queued",
                                                file |-> tensors[Find(name)].file]]
             /\ UNCHANGED <<engine, header, tensors, file, fds, status>>

\* A thread takes the job.
Start(j) == /\ job[j].state = "queued"
            /\ SetJob(j, IF engine = C THEN "reading" ELSE "started")
            /\ UNCHANGED <<engine, header, tensors, file, fds, status>>

\* _fd, under the lock: raises when the index has been closed.
TakeDescriptor(j) == /\ job[j].state = "started"
                     /\ SetJob(j, IF status = "ready" THEN "reading" ELSE "raised")
                     /\ UNCHANGED <<engine, header, tensors, file, fds, status>>

\* pread returns.
EndRead(j) == /\ job[j].state = "reading"
              /\ SetJob(j, "done")
              /\ UNCHANGED <<engine, header, tensors, file, fds, status>>

\* Python sets _closed and cancels what is queued; the pool of C drains it.
Close == /\ status = "ready"
         /\ status' = "closing"
         /\ job' = [j \in Jobs |-> IF engine = Python /\ job[j].state = "queued"
                                   THEN [job[j] EXCEPT !.state = "cancelled"] ELSE job[j]]
         /\ UNCHANGED <<engine, header, tensors, file, fds>>

\* Mutant of Closed: the threads are not waited for.
ClosedAtOnce == /\ status = "closing"
                /\ fds' = AllClosed
                /\ tensors' = <<>>
                /\ status' = "closed"
                /\ UNCHANGED <<engine, header, file, job>>

\* When the threads have ended the descriptors are closed.
Closed == /\ status = "closing"
          /\ \A j \in Jobs : job[j].state \notin {"queued", "started", "reading"}
          /\ fds' = AllClosed
          /\ tensors' = IF engine = C THEN <<>> ELSE tensors
          /\ status' = "closed"
          /\ UNCHANGED <<engine, header, file, job>>

Init == /\ engine \in Engines
        /\ header = <<>> /\ tensors = <<>>
        /\ file = 1
        /\ fds = [f \in 1..NumFiles |-> "none"]
        /\ status = "open"
        /\ job = [j \in Jobs |-> Idle]

Next == \/ OpenFile \/ ParseEntry \/ Malformed \/ EndOfHeader \/ Unwind \/ Close \/ Closed
        \/ \E j \in Jobs : Submit(j) \/ Start(j) \/ TakeDescriptor(j) \/ EndRead(j)

Spec == Init /\ [][Next]_vars
FairSpec == Spec /\ WF_vars(Next)

-----------------------------------------------------------------------------
(* Correctness *)

Sound(e) == 0 <= e.lo /\ e.lo <= e.hi /\ e.hi <= DataBytes /\ e.hi - e.lo = e.elems
Apart(d, e) == /\ d.name # e.name
               /\ d.file = e.file => d.hi <= e.lo \/ e.hi <= d.lo

\* The validation of safetensors.c:189 and storage.py:137: an index that opens
\* holds only entries whose bytes lie in their file, have the size of their
\* shape and overlap no other tensor, under distinct names across all files,
\* and finds each by its name and nothing else.
IndexIsSound ==
  status = "ready" =>
    /\ \A i \in DOMAIN header : /\ Sound(header[i])
                                /\ \A k \in 1..(i - 1) : Apart(header[i], header[k])
    /\ \A name \in Names :
         IF \E i \in DOMAIN header : header[i].name = name
         THEN Find(name) # 0 /\ tensors[Find(name)].name = name
         ELSE Find(name) = 0

\* A thread reads only from open descriptors, and after a failed open
\* (safetensors.c:289) or a close no descriptor is left open.
DescriptorsClosed ==
  /\ \A j \in Jobs : job[j].state = "reading" => fds[job[j].file] = "open"
  /\ status \in {"failed", "closed"} => \A f \in DOMAIN fds : fds[f] # "open"

Ended == status \in {"failed", "closed"}

\* Opening fails or a close ends, whatever the threads are doing.
IsClosed == <>Ended
=============================================================================
