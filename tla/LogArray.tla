------------------------------ MODULE LogArray ------------------------------
(***************************************************************************)
(* struct log_array and struct forbidden_activity_info of                  *)
(* kernel/hw1_syscalls.c: the ring of records that the hooks in do_fork,   *)
(* sys_wait4 and sys_sched_yield write and sys_get_process_log reads.      *)
(*                                                                         *)
(* A log header is a record with the source's fields.  The array it points *)
(* to is a block of its own, so every operator that touches records takes  *)
(* the header g and the array's contents arr.  The index loops of the code *)
(* are given in closed form.                                               *)
(***************************************************************************)
EXTENDS Integers, Sequences

CONSTANT UNINIT     \* what kmalloc leaves in a word nobody has assigned

Record(req, lvl, now) ==
    [syscall_req_level |-> req, proc_level |-> lvl, time |-> now]

(***************************************************************************)
(* The header sys_enable_policy leaves for a log of the given size whose   *)
(* array pointer is a.  For size 0 the pointer is never assigned.          *)
(***************************************************************************)
NewLog(n, a) ==
    [indexWrite |-> 0, indexRead |-> 0, size |-> n, full |-> 0, array |-> a]

NewArray(n) == [i \in 0..(n - 1) |-> UNINIT]

\* The wrap comes one step late.
Advance_Late(i, n) == IF i = n THEN 0 ELSE i + 1

\* ++index; if (index == size) index = 0;
Advance(i, n) == IF i + 1 = n THEN 0 ELSE i + 1

\* Slot reached from indexRead by j turns of the copy loop, for j <= size.
Slot(g, j) ==
    IF g.indexRead + j < g.size THEN g.indexRead + j
                                ELSE g.indexRead + j - g.size

-----------------------------------------------------------------------------
(***************************************************************************)
(* A hook: the record goes to array[indexWrite], the write index advances, *)
(* and the log counts as full when it meets the read index.                *)
(***************************************************************************)
PutArray(g, arr, rec) == [arr EXCEPT ![g.indexWrite] = rec]

PutLog(g) ==
    LET w == Advance(g.indexWrite, g.size)
    IN  [g EXCEPT !.indexWrite = w,
                  !.full = IF w = g.indexRead THEN 1 ELSE g.full]

(***************************************************************************)
(* sys_get_process_log: whether k records may be asked for, the records    *)
(* copied, the header after the copy loop, and the header after success.   *)
(***************************************************************************)
Enough(g, k) ==
    /\ 0 <= k /\ k <= g.size
    /\ \/ g.full = 1
       \/ /\ ~(g.indexWrite = g.indexRead /\ k > 0)
          /\ IF g.indexWrite >= g.indexRead
             THEN g.indexWrite - g.indexRead >= k
             ELSE g.size - g.indexRead + g.indexWrite >= k

ReadRecords(g, arr, k) == [j \in 1..k |-> arr[Slot(g, j - 1)]]

AfterLoop(g, k) == [g EXCEPT !.indexRead = Slot(g, k)]

FinishRead(g, k) ==
    LET h == AfterLoop(g, k)
    IN  IF k = g.size
        THEN [h EXCEPT !.full = 0, !.indexWrite = 0, !.indexRead = 0]
        ELSE [h EXCEPT !.full = 0]

\* After a failed copy_to_user the loop's effect is taken back.
RestoreRead(g, k) == [AfterLoop(g, k) EXCEPT !.indexRead = g.indexRead]

-----------------------------------------------------------------------------
(***************************************************************************)
(* What the ring stands for: how many records are still to be read, and    *)
(* which, oldest first.                                                    *)
(***************************************************************************)
Count(g) ==
    IF g.full = 1 THEN g.size
    ELSE IF g.indexWrite >= g.indexRead
         THEN g.indexWrite - g.indexRead
         ELSE g.size - g.indexRead + g.indexWrite

Contents(g, arr) == ReadRecords(g, arr, Count(g))
=============================================================================
