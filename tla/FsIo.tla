---------------------------------- MODULE FsIo ----------------------------------
(***************************************************************************)
(* What a worker does for a write and for a copy: uv__fs_write_all,         *)
(* uv__fs_sendfile_emul and uv__fs_copyfile of                              *)
(* src/source/main/cpp/_darwin/fs.c.  A file is a sequence of numbers.      *)
(***************************************************************************)
EXTENDS Integers, Queues

CONSTANTS
    FileSize,     \* bound: the bytes that are written or copied
    IovMax,    \* uv__getiovmax: buffers of one system call
    Chunk      \* the buffer of uv__fs_sendfile_emul

VARIABLE fio

Content == [i \in 1..FileSize |-> i]

\* Ways of cutting the content into buffers, empty ones among them.
Buffers == {<<Content>>, <<<<>>, Content>>,
            <<SubSeq(Content, 1, 1), <<>>, SubSeq(Content, 2, FileSize)>>,
            <<SubSeq(Content, 1, FileSize - 1), SubSeq(Content, FileSize, FileSize)>>}

\* A write at an offset of a file that has some bytes (0s), or at its end (-1); or a copy of
\* a file, to a new one, to one that exists, or to itself.
Idle == [op |-> "none", pc |-> "done", bufs |-> <<>>, off |-> -1, start |-> 0, total |-> 0, file |-> <<>>,
         excl |-> FALSE, dst |-> "none", src |-> <<>>, srcfd |-> FALSE, dstfd |-> FALSE,
         size |-> 0, in_offset |-> 0, len |-> 0, nsent |-> 0, chunk |-> <<>>, result |-> 0,
         shrunk |-> FALSE, blind |-> FALSE]

InitWrite == \E b \in Buffers, off \in {-1, 1} :
    fio = [Idle EXCEPT !.op = "write", !.pc = "write", !.bufs = b, !.off = off,
                       !.file = <<0, 0>>, !.start = IF off < 0 THEN 2 ELSE off]
InitCopy == \E excl \in BOOLEAN, dst \in {"none", "old", "same"} :
    fio = [Idle EXCEPT !.op = "copy", !.pc = "open", !.src = Content, !.excl = excl, !.dst = dst,
                       !.file = IF dst = "none" THEN <<>> ELSE IF dst = "same" THEN Content ELSE <<0>>]

Init == InitWrite \/ InitCopy

-----------------------------------------------------------------------------
(* uv__fs_write_all *)

\* What is in the buffers.
Joined(bufs) ==
    LET upTo[i \in 0..Len(bufs)] == IF i = 0 THEN <<>> ELSE upTo[i - 1] \o bufs[i]
    IN upTo[Len(bufs)]

\* Mutant: a buffer that is just filled by the count is kept.
SkipShorter(bufs, n) ==
    LET kept == {k \in 0..Len(bufs) : k < Len(bufs) /\ Len(Joined(SubSeq(bufs, 1, k + 1))) >= n}
        k == CHOOSE k \in kept : \A j \in kept : k <= j
    IN <<SubSeq(bufs[k + 1], n - Len(Joined(SubSeq(bufs, 1, k))), Len(bufs[k + 1]))>>
       \o SubSeq(bufs, k + 2, Len(bufs))

\* uv__fs_buf_offset: the buffers that n bytes fill are passed over, the next one is cut.
AfterWrite(bufs, n) ==
    LET filled == {k \in 0..Len(bufs) : Len(Joined(SubSeq(bufs, 1, k))) <= n /\
                       (k > 0 => Len(Joined(SubSeq(bufs, 1, k - 1))) < n)}
        k == CHOOSE k \in filled : \A j \in filled : j <= k
        rest == n - Len(Joined(SubSeq(bufs, 1, k)))
    IN IF rest = 0 THEN SubSeq(bufs, k + 1, Len(bufs))
       ELSE <<SubSeq(bufs[k + 1], rest + 1, Len(bufs[k + 1]))>> \o SubSeq(bufs, k + 2, Len(bufs))

Given == Joined(SubSeq(fio.bufs, 1, IF Len(fio.bufs) > IovMax THEN IovMax ELSE Len(fio.bufs)))

\* The file with the first n of the given bytes at the offset, or at the end.
Written(n) ==
    LET at == IF fio.off < 0 THEN Len(fio.file) ELSE fio.off
        end == at + n
    IN [i \in 1..(IF end > Len(fio.file) THEN end ELSE Len(fio.file)) |->
            IF i > at /\ i <= end THEN Given[i - at] ELSE fio.file[i]]

\* write, writev, pwrite or pwritev takes some of what is given.
WriteSome ==
    /\ fio.pc = "write" /\ fio.bufs # <<>>
    /\ \E n \in 1..Len(Given) :
        fio' = [fio EXCEPT !.file = Written(n), !.bufs = AfterWrite(@, n), !.total = @ + n,
                           !.off = IF @ >= 0 THEN @ + n ELSE @]

\* Nothing to do any more, an error, or a call that writes nothing because the buffers it is
\* given are empty: the total so far is the result, if there is one.
WriteEnds ==
    /\ fio.pc = "write"
    /\ \E failed \in BOOLEAN :
        /\ fio.bufs = <<>> => ~failed
        /\ fio.bufs # <<>> /\ Given # <<>> => failed
        /\ fio' = [fio EXCEPT !.pc = "done",
                       !.result = IF fio.total > 0 THEN fio.total ELSE IF failed THEN -1 ELSE 0]

-----------------------------------------------------------------------------
(* uv__fs_copyfile *)

Out(r) == [fio EXCEPT !.pc = "out", !.result = r]

\* The source is opened and its size read.
OpenSource ==
    /\ fio.pc = "open"
    /\ \/ fio' = [fio EXCEPT !.pc = "done", !.result = -1]
       \/ fio' = [Out(-1) EXCEPT !.srcfd = TRUE]
       \/ fio' = [fio EXCEPT !.srcfd = TRUE, !.size = Len(fio.src), !.pc = "opendst"]

\* The destination is opened with O_CREAT, and with O_EXCL if it must not exist.
OpenDestination ==
    /\ fio.pc = "opendst"
    /\ \/ fio' = Out(-1)
       \/ /\ fio.excl => fio.dst = "none"
          /\ fio' = [fio EXCEPT !.dstfd = TRUE, !.pc = IF fio.excl THEN "copy" ELSE "identity",
                                !.dst = IF @ = "none" THEN "new" ELSE @]

\* Mutant: the destination is truncated without a look at what it is.
NeverSame == fio.dst = "itself"

\* The two descriptors have the same device and inode.
SameFile == fio.dst = "same"

\* A file copied to itself is left alone, any other is truncated.  blind remembers a fstat of
\* the destination that failed, after which a file may be unlinked that is its own source.
Truncate ==
    /\ fio.pc = "identity"
    /\ \/ fio' = [Out(-1) EXCEPT !.blind = TRUE]
       \/ SameFile /\ fio' = Out(0)
       \/ ~SameFile /\ fio' = [fio EXCEPT !.file = <<>>, !.pc = "copy", !.src = IF fio.dst = "same" THEN <<>> ELSE @]
       \/ ~SameFile /\ fio' = Out(-1)

\* futimens, fchmod or a forced clone fails.
Attributes == fio.pc = "copy" /\ fio.in_offset = 0 /\ fio' = Out(-1)

\* The loop asks for what is left, as one request.
Sendfile ==
    /\ fio.pc = "copy"
    /\ fio' = IF fio.size = 0 THEN Out(0)
              ELSE [fio EXCEPT !.pc = "read", !.len = fio.size, !.nsent = 0]

\* uv__fs_sendfile_emul reads a chunk, or finds the end of the file, or fails.
Read ==
    /\ fio.pc = "read"
    /\ LET left == Len(fio.src) - fio.in_offset
       IN \/ /\ fio.nsent < fio.len /\ left > 0
             /\ \E n \in 1..Chunk : n <= left /\ n <= fio.len - fio.nsent /\
                 fio' = [fio EXCEPT !.chunk = SubSeq(fio.src, fio.in_offset + 1, fio.in_offset + n),
                                    !.pc = "send"]
          \/ (fio.nsent = fio.len \/ left <= 0) /\ fio' = [fio EXCEPT !.pc = "sent"]
          \/ fio.nsent < fio.len /\
             fio' = [fio EXCEPT !.pc = "sent", !.nsent = IF fio.nsent = 0 THEN -1 ELSE @]

\* Mutant: a short write is taken for a complete one.
AllOfIt(n) == Len(fio.chunk)

\* What of the chunk is done after n bytes were taken.
Taken(n) == n

\* The chunk is written piece by piece; a pipe or socket that is full is polled.
Write ==
    /\ fio.pc = "send"
    /\ \/ \E n \in 1..Len(fio.chunk) :
            fio' = [fio EXCEPT !.file = @ \o SubSeq(fio.chunk, 1, n),
                       !.chunk = SubSeq(@, Taken(n) + 1, Len(@)), !.nsent = @ + Taken(n),
                       !.in_offset = @ + Taken(n),
                       !.pc = IF Taken(n) = Len(fio.chunk) THEN "read" ELSE "send"]
       \/ fio' = [fio EXCEPT !.pc = "sent", !.nsent = -1, !.chunk = <<>>]

\* Mutant: the whole size is asked for again.
AllAgain(size, n) == size

\* bytes_to_send
StillToSend(size, n) == size - n

\* uv__fs_copyfile goes on with what is left; a count of nothing is not taken for the end.
SendfileReturns ==
    /\ fio.pc = "sent"
    /\ fio' = IF fio.nsent < 0 THEN Out(-1)
              ELSE [fio EXCEPT !.size = StillToSend(@, fio.nsent), !.pc = "copy"]

\* Mutant: a copy that failed is left lying.
KeepsIt == FALSE

\* The destination is unlinked if anything failed after it was opened.
Unlinks == fio.dstfd /\ fio.result # 0

Close ==
    /\ fio.pc = "out"
    /\ fio' = [fio EXCEPT !.pc = "done", !.srcfd = FALSE, !.dstfd = FALSE,
                          !.dst = IF ~Unlinks THEN @ ELSE IF @ = "same" THEN "lost" ELSE "gone"]

\* Another process truncates the source.
Shrinks ==
    /\ fio.op = "copy" /\ ~fio.shrunk /\ fio.pc # "done"
    /\ fio' = [fio EXCEPT !.shrunk = TRUE, !.src = SubSeq(@, 1, 1)]

Worker ==
    \/ WriteSome \/ WriteEnds \/ OpenSource \/ OpenDestination \/ Truncate \/ Attributes
    \/ Sendfile \/ Read \/ Write \/ SendfileReturns \/ Close

Next == Worker \/ Shrinks

Spec == Init /\ [][Next]_fio

FairSpec == Spec /\ WF_fio(Worker)

-----------------------------------------------------------------------------
(* Properties *)

\* The types of the state.
TypeOK ==
    /\ fio.pc \in {"write", "open", "opendst", "identity", "copy", "read", "send", "sent", "out", "done"}
    /\ fio.total \in 0..FileSize /\ fio.nsent \in -1..FileSize /\ fio.result \in -1..FileSize
    /\ fio.dst \in {"none", "old", "new", "same", "gone", "lost"}

\* A write puts the bytes of the buffers into the file in their order, none twice and none
\* left out, however short the system calls come; its result is how many they are.  A copy
\* is at every moment a beginning of what the source was.
InOrder ==
    /\ fio.op = "write" =>
        LET put == SubSeq(fio.file, fio.start + 1, fio.start + fio.total)
        IN /\ put = SubSeq(Content, 1, fio.total)
           /\ fio.pc = "done" /\ fio.result >= 0 => fio.result = fio.total
    /\ fio.op = "copy" /\ fio.dst = "new" => Begins(Content, fio.file)

\* When uv__fs_copyfile returns 0 the copy is complete, unless the source became shorter;
\* when it fails it leaves no half copy; it neither truncates nor unlinks a file that is
\* copied to itself; no descriptor stays open.
ClosedIsClean == fio.op = "copy" /\ fio.pc = "done" =>
    /\ ~fio.srcfd /\ ~fio.dstfd /\ fio.src # <<>> /\ (fio.dst = "lost" => fio.blind)
    /\ fio.result = 0 /\ ~fio.shrunk => fio.file = Content
    /\ fio.result # 0 => fio.dst # "new" /\ (fio.dst = "old" => fio.file = <<0>>)

\* A worker gets done with every request, unless a file it copies became shorter meanwhile.
WorkEnds == <>(fio.pc = "done" \/ fio.shrunk)

\* What a test does not do: the same with a source that another process truncates.
CopyEnds == <>(fio.pc = "done")
================================================================================
