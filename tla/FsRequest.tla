-------------------------------- MODULE FsRequest --------------------------------
(***************************************************************************)
(* The life of a file system request: src/source/main/cpp/_darwin/fs.c with *)
(* the scandir and readdir functions of uv-common.c.  What matters here is  *)
(* memory: which of it belongs to the request and which to the program, on  *)
(* a synchronous, an asynchronous and a cancelled call, and that cleanup    *)
(* frees the one and leaves the other alone.                               *)
(***************************************************************************)
EXTENDS Integers, FiniteSets

CONSTANTS
    MaxEntries,   \* the entries of a directory, and dir->nentries
    Types         \* the kinds of requests that are made

VARIABLE fsr

\* The requests by what they are told: a path, two paths in one block, a template that is
\* filled in, buffers, a directory, or descriptors and numbers only.
OnePath == {"access", "chmod", "chown", "lchown", "lutime", "mkdir", "open", "rmdir", "unlink", "utime"}
TwoPaths == {"copyfile", "link", "rename", "symlink"}
Template == {"mkdtemp", "mkstemp"}
WithBufs == {"read", "write"}
WithDir == {"readdir", "closedir"}
NoPath == {"close", "fchmod", "fchown", "fdatasync", "fsync", "ftruncate", "futime", "sendfile"}

\* Those that leave a result behind ptr.
Allocates == {"scandir", "opendir", "readlink", "realpath", "statfs"}
Stats == {"stat", "lstat", "fstat"}

WithPath == OnePath \union TwoPaths \union Template \union Allocates \union (Stats \ {"fstat"})

\* heap is what is allocated; wrong says that something else was freed.  path, bufs and ptr
\* say what the fields of the request point to; DIR is the stream of the directory that is
\* open.  result is a count of entries, 0 or an error -1; cursor is req->nbufs of a scandir.
Init == fsr =
    [phase |-> "none", type |-> "access", cb |-> FALSE, path |-> "NULL", bufs |-> "NULL",
     ptr |-> "NULL", result |-> 0, cursor |-> 0, heap |-> {}, wrong |-> FALSE, DIR |-> FALSE]

Dents(n) == {<<"dent", i>> : i \in 1..n}
Entries(n) == {<<"name", i>> : i \in 1..n}

Free(r, objects) == [r EXCEPT !.heap = @ \ objects, !.wrong = @ \/ ~(objects \subseteq r.heap)]

\* The memory a pointer of the request stands for; NULL may be freed.
Block(p) == IF p = "NULL" THEN {} ELSE {<<p, 0>>}

-----------------------------------------------------------------------------
(* uv_fs_<type>: INIT, PATH, PATH2 and POST *)

\* Where the path lives: a request with a callback keeps a copy, mkdtemp and mkstemp always.
PathOf(type, cb) ==
    IF type \notin WithPath THEN "NULL" ELSE IF cb \/ type \in Template THEN "copy" ELSE "program's path"

\* Where the buffers live: four of them fit in the request; a synchronous read uses the
\* program's, a synchronous write copies.
BufsOf(type, cb, many) ==
    IF type \notin WithBufs THEN "NULL"
    ELSE IF type = "read" /\ ~cb THEN "program's bufs"
    ELSE IF many THEN "bufs" ELSE "bufsml"

Heap(type, cb, many) ==
    {<<p, 0>> : p \in {PathOf(type, cb), BufsOf(type, cb, many)} \cap {"copy", "bufs"}}

\* readdir and closedir take the directory that an earlier opendir returned.
Submit(type, cb, many) ==
    /\ fsr.phase = "none" /\ (many => type \in WithBufs)
    /\ type \in WithDir => fsr.DIR
    /\ type = "opendir" => ~fsr.DIR
    /\ fsr' = [fsr EXCEPT !.phase = IF cb THEN "queued" ELSE "running",
                          !.type = type, !.cb = cb, !.path = PathOf(type, cb),
                          !.bufs = BufsOf(type, cb, many),
                          !.ptr = IF type \in WithDir THEN "dir" ELSE "NULL",
                          !.result = 0, !.cursor = 0, !.heap = @ \union Heap(type, cb, many)]

\* UV_ENOMEM: uv__strdup or uv__malloc fails before anything is queued.
NoMemory(type, cb, many) ==
    /\ fsr.phase = "none" /\ Heap(type, cb, many) # {}
    /\ fsr' = [fsr EXCEPT !.phase = "returned", !.type = type, !.cb = cb, !.path = "NULL",
                          !.bufs = "NULL", !.ptr = "NULL", !.result = 0]

\* uv_cancel of a request no worker has taken; its work is never done.
Cancel ==
    /\ fsr.phase = "queued"
    /\ fsr' = [fsr EXCEPT !.phase = "done", !.result = -1]

Taken == fsr.phase = "queued" /\ fsr' = [fsr EXCEPT !.phase = "running"]

-----------------------------------------------------------------------------
(* uv__fs_work: what each kind of request does to the memory *)

\* Mutant: uv__fs_read frees the buffers of a synchronous read too.
AnyBufs(r) == r.bufs # "bufsml"

\* The buffers that uv__fs_read and uv__fs_write_all free.
FreesBufs(r) == (r.type = "write" \/ r.cb) /\ r.bufs # "bufsml"

BufsDone(r) == [(IF FreesBufs(r) THEN Free(r, Block(r.bufs)) ELSE r) EXCEPT !.bufs = "NULL"]

\* uv__fs_scandir; an empty directory gives no array.
Scandir(r, n) ==
    IF n = 0 THEN r
    ELSE [r EXCEPT !.ptr = "dents", !.heap = @ \union Block("dents") \union Dents(n), !.result = n]

\* uv__fs_readdir fills names of dir->dirents.
Readdir(r, n) == [r EXCEPT !.result = n, !.heap = @ \union Entries(n)]

\* uv__fs_closedir.
Closedir(r) == [Free(r, Block("dir")) EXCEPT !.ptr = "NULL", !.DIR = FALSE]

\* uv__fs_readlink, uv__fs_realpath and uv__fs_statfs: a block with the answer.
Linked(r) == [r EXCEPT !.ptr = "link", !.heap = @ \union Block("link")]

\* uv__fs_opendir.
Opendir(r) == [r EXCEPT !.ptr = "dir", !.heap = @ \union Block("dir"), !.DIR = TRUE]

Succeeded(r, n) ==
    CASE r.type \in WithBufs -> BufsDone(r)
      [] r.type = "scandir" -> Scandir(r, n)
      [] r.type = "opendir" -> Opendir(r)
      [] r.type = "readdir" -> Readdir(r, n)
      [] r.type = "closedir" -> Closedir(r)
      [] r.type \in {"readlink", "realpath", "statfs"} -> Linked(r)
      [] r.type \in Stats -> [r EXCEPT !.ptr = "statbuf"]
      [] OTHER -> r

\* A failure; uv__fs_readdir frees the names it had got, the others have nothing to undo.
Failed(r) == [(IF r.type \in WithBufs THEN BufsDone(r) ELSE r) EXCEPT !.result = -1]

\* EINTR: the work is repeated, but not that of a read, whose buffers are gone, or a close.
Work ==
    /\ fsr.phase = "running"
    /\ \E n \in 0..MaxEntries, ok \in BOOLEAN :
        /\ fsr.type = "closedir" => ok
        /\ fsr' = [(IF ok THEN Succeeded(fsr, n) ELSE Failed(fsr))
                     EXCEPT !.phase = IF fsr.cb THEN "done" ELSE "returned"]

\* uv__fs_done calls the callback.
Done == fsr.phase = "done" /\ fsr' = [fsr EXCEPT !.phase = "returned"]

-----------------------------------------------------------------------------
(* uv_fs_scandir_next and uv_fs_req_cleanup *)

\* Each entry is freed when the next one is asked for, the array after the last.
ScandirNext ==
    /\ fsr.phase = "returned" /\ fsr.type = "scandir" /\ fsr.result >= 0 /\ fsr.ptr # "NULL"
    /\ LET r == IF fsr.cursor > 0 THEN Free(fsr, {<<"dent", fsr.cursor>>}) ELSE fsr
       IN fsr' = IF fsr.cursor = fsr.result
                 THEN [Free(r, Block("dents")) EXCEPT !.ptr = "NULL"]
                 ELSE [r EXCEPT !.cursor = @ + 1]

\* Mutant: cleanup starts behind the entry the program holds.
BehindCursor(r) == r.cursor

\* The first entry that uv__fs_scandir_cleanup frees, counted from 0.
FirstLeft(r) == IF r.cursor > 0 THEN r.cursor - 1 ELSE 0

ScandirCleanup(r) ==
    [Free(r, {<<"dent", i>> : i \in FirstLeft(r) + 1..r.result} \union Block("dents")) EXCEPT !.ptr = "NULL"]

ReaddirCleanup(r) == [Free(r, Entries(IF r.result > 0 THEN r.result ELSE 0)) EXCEPT !.ptr = "NULL"]

\* Mutant: a synchronous request's path is freed unless it was copied for a callback.
OnlyAsync(r) == r.cb

\* Is the path the request's own?
OwnsPath(r) == r.path # "NULL" /\ (r.cb \/ r.type \in Template)

\* A closedir that was cancelled loses its directory here: the uv_dir_t is freed and the
\* stream in it stays open.
Cleanup ==
    /\ fsr.phase \in {"returned", "none"}
    /\ LET p == [(IF OwnsPath(fsr) THEN Free(fsr, Block(fsr.path)) ELSE fsr) EXCEPT !.path = "NULL"]
           q == CASE p.type = "readdir" /\ p.ptr # "NULL" -> ReaddirCleanup(p)
                  [] p.type = "scandir" /\ p.ptr # "NULL" -> ScandirCleanup(p)
                  [] OTHER -> p
           b == [(IF q.bufs # "bufsml" THEN Free(q, Block(q.bufs)) ELSE q) EXCEPT !.bufs = "NULL"]
           c == IF b.type # "opendir" /\ b.ptr # "statbuf" THEN Free(b, Block(b.ptr)) ELSE b
       IN fsr' = [c EXCEPT !.ptr = "NULL", !.phase = "none",
                           !.DIR = IF fsr.type = "closedir" THEN FALSE ELSE @]

Next ==
    \/ \E type \in Types, cb, many \in BOOLEAN : Submit(type, cb, many) \/ NoMemory(type, cb, many)
    \/ Cancel \/ Taken \/ Work \/ Done \/ ScandirNext \/ Cleanup

Spec == Init /\ [][Next]_fsr

-----------------------------------------------------------------------------
(* Properties *)

\* The types of the state.
TypeOK ==
    /\ fsr.phase \in {"none", "queued", "running", "done", "returned"} /\ fsr.type \in Types
    /\ fsr.path \in {"NULL", "copy", "program's path"}
    /\ fsr.bufs \in {"NULL", "bufs", "bufsml", "program's bufs"}
    /\ fsr.ptr \in {"NULL", "dir", "dents", "link", "statbuf"}
    /\ fsr.result \in -1..MaxEntries /\ fsr.cursor \in 0..MaxEntries

\* Nothing is freed twice, and nothing of the program's: not its path, its buffers or what it
\* still has of a directory.
AssertsHold == ~fsr.wrong

\* After uv_fs_req_cleanup nothing of the request is left, however it ended and however far
\* its entries were read; only an open directory goes on, until closedir.
ClosedIsClean == fsr.phase = "none" => fsr.heap = IF fsr.DIR THEN Block("dir") ELSE {}
================================================================================
