------------------------------ MODULE SharedCache ------------------------------
(* One file of the frame cache (core/frame_cache.py) between the runs that write it in place,
   clearing the cache, and the readers of the API (explore/sources.py, inspect_frame), all in
   threads of one backend on a POSIX system.

   A write truncates the file, so a reader that has it mapped and touches a page of the old
   frame is killed with the process.  A file that is unlinked lives on for those who have it
   open.  Size and time of a file never come back once it was written again. *)
EXTENDS Naturals

CONSTANTS
    Writers, Readers, None,
    MaxWrites, MaxReads     \* bounds

ASSUME SharedCacheAssumption == MaxWrites \in Nat /\ MaxReads \in Nat

VARIABLES
    file,       \* the inode that has the name, or None
    content,    \* inode -> [by |-> the writes that are in it, whole |-> has it a footer?, key |-> size and time]
    clock,      \* the keys that were given out
    writes, reads,
    wpc, winode, \* per writer: its write, or None, and the inode it has open
    reader,      \* per reader: where it stands, and its locals
    meta_cache,  \* _meta_cache[path], or None
    died         \* history: was the backend killed?
vars == <<file, content, clock, writes, reads, wpc, winode, reader, meta_cache, died>>
files == <<file, content, clock>>

Resting == [kind |-> "none", pc |-> "idle", inode |-> None, key |-> 0, found |-> None]

Init ==
    /\ file = None
    /\ content = [i \in {} |-> None]
    /\ clock = 0 /\ writes = 0 /\ reads = 0
    /\ wpc = [w \in Writers |-> None] /\ winode = [w \in Writers |-> None]
    /\ reader = [x \in Readers |-> Resting]
    /\ meta_cache = None
    /\ died = FALSE

\* The writes that go on in inode i.
Opened(i) == {wpc[w] : w \in {v \in Writers : winode[v] = i /\ wpc[v] # None}}

\* What is in the file besides the write that opens it: those who write on, at their offsets.
Leftover(i) == Opened(i)

(* ipc.new_file: the file is created or truncated. *)
OpenWrite(w) ==
    /\ wpc[w] = None /\ writes < MaxWrites
    /\ writes' = writes + 1 /\ clock' = clock + 1
    /\ wpc' = [wpc EXCEPT ![w] = writes']
    /\ LET i == IF file = None THEN writes' ELSE file IN
          /\ file' = i
          /\ winode' = [winode EXCEPT ![w] = i]
          /\ content' = [j \in DOMAIN content \cup {i} |->
                IF j = i THEN [by |-> {writes'} \cup Leftover(i), whole |-> FALSE, key |-> clock'] ELSE content[j]]
    /\ UNCHANGED <<reads, reader, meta_cache, died>>

(* The footer is written, after what the writers left together. *)
CloseWrite(w) ==
    /\ wpc[w] # None
    /\ clock' = clock + 1
    /\ content' = [content EXCEPT ![winode[w]] = [by |-> @.by, whole |-> TRUE, key |-> clock']]
    /\ wpc' = [wpc EXCEPT ![w] = None] /\ winode' = [winode EXCEPT ![w] = None]
    /\ UNCHANGED <<file, writes, reads, reader, meta_cache, died>>

(* A write that fails half way: no footer is written. *)
FailWrite(w) ==
    /\ wpc[w] # None
    /\ wpc' = [wpc EXCEPT ![w] = None] /\ winode' = [winode EXCEPT ![w] = None]
    /\ UNCHANGED <<files, writes, reads, reader, meta_cache, died>>

(* clear_flow_cache *)
Clear ==
    /\ file # None
    /\ file' = None
    /\ UNCHANGED <<content, clock, writes, reads, wpc, winode, reader, meta_cache, died>>

Sets(x, r) == reader' = [reader EXCEPT ![x] = r]

(* path.exists(), and for the list path.stat(). *)
LookUp(x) ==
    /\ reader[x].pc = "idle" /\ reads < MaxReads /\ file # None
    /\ reads' = reads + 1
    /\ \E k \in {"load", "inspect", "query", "list"} :
          Sets(x, [Resting EXCEPT !.kind = k, !.pc = "found", !.key = content[file].key])
    /\ UNCHANGED <<files, writes, wpc, winode, meta_cache, died>>

Openable == file # None /\ content[file].whole

(* A file that is gone or has no footer raises: a 404 or 400, or the list passes it over. *)
OpenFails(x) ==
    /\ reader[x].pc = "found"
    /\ ~Openable
    /\ Sets(x, Resting)
    /\ UNCHANGED <<files, writes, reads, wpc, winode, meta_cache, died>>

(* _frame_meta: the file has not changed. *)
MetaHit(x) ==
    /\ reader[x].pc = "found" /\ reader[x].kind = "list"
    /\ meta_cache # None /\ meta_cache.key = reader[x].key
    /\ Sets(x, [reader[x] EXCEPT !.pc = "measured"])
    /\ UNCHANGED <<files, writes, reads, wpc, winode, meta_cache, died>>

(* The footer is read, and the file is mapped, or about to be copied (load_frame). *)
Open(x) ==
    /\ reader[x].pc = "found"
    /\ Openable
    /\ Sets(x, [reader[x] EXCEPT !.pc = "open", !.inode = file, !.found = content[file]])
    /\ UNCHANGED <<files, writes, reads, wpc, winode, meta_cache, died>>

Intact(x) == content[reader[x].inode] = reader[x].found

\* inspect_frame reads the head after the measures; the list keeps the measures.
After(x) ==
    IF reader[x].kind = "list" THEN [reader[x] EXCEPT !.pc = "read", !.inode = None]
    ELSE IF reader[x].kind = "inspect" THEN [reader[x] EXCEPT !.pc = "found", !.kind = "query", !.inode = None]
    ELSE Resting

(* What was opened is still there: the frame, its head, its rows or its measures are returned. *)
Read(x) ==
    /\ reader[x].pc = "open" /\ Intact(x)
    /\ Sets(x, After(x))
    /\ UNCHANGED <<files, writes, reads, wpc, winode, meta_cache, died>>

\* Mutated form: the file is looked at when its measures are kept.
KeyLookedUpLate(x) == IF file = None THEN reader[x].key ELSE content[file].key

KeyKept(x) == reader[x].key

Keep(x) ==
    /\ reader[x].pc = "read"
    /\ Sets(x, [reader[x] EXCEPT !.pc = "measured"])
    /\ meta_cache' = [key |-> KeyKept(x), by |-> reader[x].found.by]
    /\ UNCHANGED <<files, writes, reads, wpc, winode, died>>

(* frame_cache.load_frame copies; load_frame_head, get_frame_meta, _frame_meta and DuckDB map. *)
Mapped(x) == reader[x].kind # "load"

(* It was rewritten under the reader: an exception, other rows, or, mapped, the end. *)
ReadRewritten(x) ==
    /\ reader[x].pc = "open" /\ ~Intact(x)
    /\ \/ Sets(x, Resting) /\ UNCHANGED died
       \/ Mapped(x) /\ died' = TRUE /\ Sets(x, Resting)
    /\ UNCHANGED <<files, writes, reads, wpc, winode, meta_cache>>

(* f.stat() once more, for the size and the time that are shown. *)
Shown(x) ==
    /\ reader[x].pc = "measured"
    /\ Sets(x, IF file = None THEN [reader[x] EXCEPT !.pc = "failed"] ELSE Resting)
    /\ UNCHANGED <<files, writes, reads, wpc, winode, meta_cache, died>>

Raise(x) ==
    /\ reader[x].pc = "failed" /\ Sets(x, Resting)
    /\ UNCHANGED <<files, writes, reads, wpc, winode, meta_cache, died>>

Quiet == (\A w \in Writers : wpc[w] = None) /\ (\A x \in Readers : reader[x].pc = "idle")

Step ==
    /\ ~died
    /\ \/ \E w \in Writers : OpenWrite(w) \/ CloseWrite(w) \/ FailWrite(w)
       \/ \E x \in Readers : LookUp(x) \/ OpenFails(x) \/ MetaHit(x) \/ Open(x) \/ Read(x) \/ Keep(x)
                             \/ ReadRewritten(x) \/ Shown(x) \/ Raise(x)
       \/ Clear
Stop == (died \/ Quiet) /\ UNCHANGED vars

Next == Step \/ Stop
Spec == Init /\ [][Next]_vars

-----------------------------------------------------------------------------
Inodes  == 1..MaxWrites
Keys    == 0..2 * MaxWrites
Content == [by : SUBSET Inodes, whole : BOOLEAN, key : Keys]

\* Shapes; a writer has an inode open exactly while it writes, and a reader while it reads.
TypeOK ==
    /\ file \in Inodes \cup {None}
    /\ DOMAIN content \subseteq Inodes /\ content \in [DOMAIN content -> Content]
    /\ clock \in Keys /\ writes \in 0..MaxWrites /\ reads \in 0..MaxReads
    /\ wpc \in [Writers -> Inodes \cup {None}] /\ winode \in [Writers -> DOMAIN content \cup {None}]
    /\ \A w \in Writers : wpc[w] = None <=> winode[w] = None
    /\ \A x \in Readers :
          /\ reader[x] \in [kind : {"none", "load", "inspect", "query", "list"},
                            pc : {"idle", "found", "open", "read", "measured", "failed"},
                            inode : DOMAIN content \cup {None}, key : Keys, found : Content \cup {None}]
          /\ reader[x].pc = "open" <=> reader[x].inode # None
    /\ meta_cache = None \/ meta_cache \in [key : Keys, by : SUBSET Inodes]
    /\ died \in BOOLEAN

\* sources.py:151: "results are cached until the file changes".  As long as the file has the
\* size and time under which its measures were kept, they are the measures of what is in it.
MetaIsOfItsKey ==
    meta_cache # None /\ file # None /\ content[file].key = meta_cache.key
        => meta_cache.by = content[file].by

\* frame_cache.py:28: "Persist a DataFrame as Arrow IPC."  A file with a footer is one frame.
OneFramePerFile == \A i \in DOMAIN content : content[i].whole => \E n \in Inodes : content[i].by = {n}

\* sources.py:185: "partially written or unreadable frame" are passed over.  The list neither
\* fails nor is killed over a frame that is written or cleared while it looks at it.
UnreadableFramesArePassedOver == ~died /\ \A x \in Readers : reader[x].pc # "failed"
=============================================================================
