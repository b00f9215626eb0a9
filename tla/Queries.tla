--------------------------------- MODULE Queries ---------------------------------
(***************************************************************************)
(* Functions that put an answer of the system into memory of the caller:   *)
(* names and paths, with the protocol of *size and UV_ENOBUFS (core.c,     *)
(* darwin.c, pipe.c, proctitle.c and getaddrinfo.c of _darwin, uv-common.c,*)
(* fs-poll.c), and lists and records that are packed into one allocation   *)
(* (core.c, bsd-ifaddrs.c, proctitle.c).                                   *)
(*                                                                         *)
(* A program asks, and asks again with the size it was told; another       *)
(* thread may change the answer in between.                                *)
(***************************************************************************)
EXTENDS Integers, Functions, FiniteSets, Queues

CONSTANTS
    MaxLen,    \* bound: characters of an answer
    Pointer    \* the size of a pointer

VARIABLE qry

\* Answers are strings of "x" and "/".
UpTo(S, n) == UNION {[1..m -> S] : m \in 0..n}
Answers == UpTo({"x", "/"}, MaxLen)
Lengths == 1..MaxLen + 2

\* wrote counts the bytes written, the final zero included; size is *size on return.
TooSmall(needed) == [rc |-> "UV_ENOBUFS", size |-> needed, text |-> <<>>, wrote |-> 0]
Gives(text, wrote) == [rc |-> "0", size |-> Len(text), text |-> text, wrote |-> wrote]

-----------------------------------------------------------------------------
(* Names and paths: v is the answer, n is *size *)

\* Mutant: no room is needed for the final zero.
NoZero(v, n) == IF Len(v) > n THEN TooSmall(Len(v)) ELSE Gives(v, Len(v) + 1)

\* uv_os_getenv.
Getenv(v, n) == IF Len(v) >= n THEN TooSmall(Len(v) + 1) ELSE Gives(v, Len(v) + 1)

\* uv_os_homedir: $HOME, else the entry of the user.
Homedir(v, n) == IF Len(v) >= n THEN TooSmall(Len(v) + 1) ELSE Gives(v, Len(v) + 1)

\* uv_os_gethostname, uv_fs_event_getpath, uv_fs_poll_getpath, uv_if_indextoname.
Gethostname(v, n) == IF Len(v) >= n THEN TooSmall(Len(v) + 1) ELSE Gives(v, Len(v) + 1)
FsEventPath(v, n) == IF Len(v) >= n THEN TooSmall(Len(v) + 1) ELSE Gives(v, Len(v) + 1)
FsPollPath(v, n) == IF Len(v) >= n THEN TooSmall(Len(v) + 1) ELSE Gives(v, Len(v) + 1)
IndexToName(v, n) == IF n <= Len(v) THEN TooSmall(Len(v) + 1) ELSE Gives(v, Len(v) + 1)

\* uv__pipe_getsockpeername: an unnamed socket has an empty name, and keeps buffer[0].
PipeName(v, n) ==
    IF Len(v) + 1 > n THEN TooSmall(Len(v) + 1)
    ELSE Gives(v, IF v = <<>> THEN 0 ELSE Len(v) + 1)

\* One slash at the end goes, but not the root's.
Slashless(v) == IF Len(v) > 1 /\ v[Len(v)] = "/" THEN SubSeq(v, 1, Len(v) - 1) ELSE v

\* uv_os_tmpdir takes the slash away after it has compared the sizes.
Tmpdir(v, n) ==
    IF Len(v) >= n THEN TooSmall(Len(v) + 1)
    ELSE Gives(Slashless(v), Len(Slashless(v)) + 1)

\* uv_cwd: getcwd fills the buffer, or a scratch buffer that tells how much is needed.
Cwd(v, n) ==
    IF Len(v) + 1 <= n THEN Gives(Slashless(v), Len(v) + 1)
    ELSE TooSmall(Len(Slashless(v)) + 1)

\* Mutant: the final zero comes behind the buffer.
CutBehind(v, n) == LET k == IF n > Len(v) THEN Len(v) ELSE n IN Gives(SubSeq(v, 1, k), k + 1)

\* uv_exepath and uv__search_path cut the path instead.
Cut(v, n) ==
    LET k == IF n - 1 > Len(v) THEN Len(v) ELSE n - 1
    IN Gives(SubSeq(v, 1, k), k + 1)

\* uv_set_process_title cuts the title to what lay in argv; uv_get_process_title fails when it
\* does not fit, and does not say what would.
TitleSet(v, cap) == IF Len(v) >= cap THEN SubSeq(v, 1, cap - 1) ELSE v
TitleGet(v, n) ==
    IF n <= Len(v) THEN [TooSmall(0) EXCEPT !.size = n]
    ELSE Gives(v, Len(v) + 1)

\* The entry of PATH that uv__search_path takes: the first with an executable file.
Searched(found) == IF TRUE \in Range(found)
                   THEN CHOOSE i \in DOMAIN found : found[i] /\ \A j \in 1..i - 1 : ~found[j]
                   ELSE 0

Exact == {"getenv", "homedir", "hostname", "fs event", "fs poll", "interface", "pipe"}
Functions1 == Exact \union {"tmpdir", "cwd", "cut", "title"}

Call(f, v, n) ==
    CASE f = "getenv" -> Getenv(v, n)
      [] f = "homedir" -> Homedir(v, n)
      [] f = "hostname" -> Gethostname(v, n)
      [] f = "fs event" -> FsEventPath(v, n)
      [] f = "fs poll" -> FsPollPath(v, n)
      [] f = "interface" -> IndexToName(v, n)
      [] f = "pipe" -> PipeName(v, n)
      [] f = "tmpdir" -> Tmpdir(v, n)
      [] f = "cwd" -> Cwd(v, n)
      [] f = "cut" -> Cut(v, n)
      [] f = "title" -> TitleGet(v, n)

\* getcwd never ends in a slash, but for the root.
Possible(f, v) == f = "cwd" => (v # <<>> /\ Slashless(v) = v)

-----------------------------------------------------------------------------
(* Records packed into one allocation: lens are the lengths of the strings *)

Sum1(lens) == SumFunction(lens)
ZeroEnded(lens) == [i \in DOMAIN lens |-> lens[i] + 1]

\* Where strings that follow each other from `base` begin.
Starts(base, lens) ==
    [i \in DOMAIN lens |-> base + Sum1(ZeroEnded(SubSeq(lens, 1, i - 1)))]

\* Mutant: no room for the NULL behind the pointers.
NoNull(lens) == Sum1(ZeroEnded(lens)) + Pointer * (Len(lens) - 1)

\* uv_os_get_group: the pointers to the members and a NULL, the members, the group's name
\* (the last of lens).
GroupSize(lens) == Sum1(ZeroEnded(lens)) + Pointer * Len(lens)
GroupStarts(lens) == Starts(Pointer * Len(lens), lens)

\* uv__getpwuid_r: the three strings of a user, in one allocation.
UserSize(lens) == Sum1(ZeroEnded(lens))
UserStarts(lens) == Starts(0, lens)

\* uv_setup_args: a copy of argv with a pointer for every argument and a NULL; the title may
\* use all the memory the arguments lay in.
ArgsSize(lens) == Sum1(ZeroEnded(lens)) + Pointer * (Len(lens) + 1)
ArgsStarts(lens) == Starts(Pointer * (Len(lens) + 1), lens)

\* uv_interface_addresses: `Pointer` stands for the size of an entry; up says which interfaces
\* uv__ifaddr_exclude lets through, in the pass that counts and in the pass that copies.
AddressLens(lens, up) ==
    LET chosen == {i \in DOMAIN lens : up[i]}
    IN [k \in 1..Cardinality(chosen) |->
            lens[CHOOSE i \in chosen : Cardinality({j \in chosen : j <= i}) = k]]
AddressSize(lens, up) ==
    LET taken == AddressLens(lens, up) IN Pointer * Len(taken) + Sum1(ZeroEnded(taken))
AddressStarts(lens, up) ==
    LET taken == AddressLens(lens, up) IN Starts(Pointer * Len(taken), taken)

\* The last byte of strings at `starts` is the last one of the allocation, and none overlaps.
Packs(size, starts, lens) ==
    /\ lens # <<>> => starts[Len(lens)] + lens[Len(lens)] + 1 = size
    /\ \A i, j \in DOMAIN lens : i < j => starts[i] + lens[i] + 1 <= starts[j]

-----------------------------------------------------------------------------
(* Sizes and priorities of threads *)

Page == 4
MinStack == 6

\* Mutant: the pages are rounded down.
RoundedDown(asked) == asked - (asked % Page)

\* uv_thread_create_ex, a stack of the size asked for.
StackSize(asked) ==
    LET pages == ((asked + Page - 1) \div Page) * Page
    IN IF pages < MinStack THEN MinStack ELSE pages

\* uv__thread_stack_size of the limit, 0 for pthread's own.
DefaultStack(limit) ==
    LET pages == limit - (limit % Page) IN IF pages >= MinStack THEN pages ELSE 0

\* uv_thread_setpriority: the five priorities between those of the system.
Priority(p, min, max) ==
    LET range == max - min
    IN CASE p = 2 -> max
         [] p = 1 -> min + (range * 3) \div 4
         [] p = 0 -> min + range \div 2
         [] p = -1 -> min + range \div 4
         [] p = -2 -> min

-----------------------------------------------------------------------------
(* A program that asks *)

Init == qry = [f |-> "getenv", v |-> <<>>, n |-> 0, told |-> 0, asked |-> 0,
               answer |-> TooSmall(0), same |-> TRUE]

Ask(f, v, n) ==
    /\ qry.asked = 0 /\ Possible(f, v)
    /\ qry' = [f |-> f, v |-> v, n |-> n, told |-> 0, asked |-> 1, answer |-> Call(f, v, n),
               same |-> TRUE]

\* It asks again with the size it was told, of an answer that may have changed.
AskAgain(v) ==
    /\ qry.asked = 1 /\ qry.answer.rc = "UV_ENOBUFS" /\ Possible(qry.f, v)
    /\ qry' = [qry EXCEPT !.v = v, !.n = qry.answer.size, !.asked = 2, !.same = v = qry.v,
                          !.told = qry.answer.size, !.answer = Call(qry.f, v, qry.answer.size)]

Next ==
    \/ \E f \in Functions1, v \in Answers, n \in Lengths : Ask(f, v, n)
    \/ \E v \in Answers : AskAgain(v)

Spec == Init /\ [][Next]_qry

-----------------------------------------------------------------------------
(* Properties *)

TypeOK == qry.answer.rc \in {"0", "UV_ENOBUFS"} /\ qry.asked \in 0..2

\* No function writes more bytes than the caller's buffer has, whatever the answer became
\* between two calls, and *size is the length of what is in the buffer.
CountsAreExact == qry.asked > 0 =>
    /\ qry.answer.wrote <= qry.n
    /\ (qry.answer.rc = "0" /\ qry.answer.wrote > 0) => qry.answer.size + 1 <= qry.answer.wrote

\* A caller that comes back with the size it was told gets the answer, if that did not change
\* meanwhile; the title is the exception, which tells no size.
NothingStranded == (qry.asked = 2 /\ qry.same /\ qry.f # "title") => qry.answer.rc = "0"

\* What is given is the whole answer, less the slash of tmpdir and cwd, or for the two
\* functions that cut, its beginning.
ToldTheTruth == (qry.asked > 0 /\ qry.answer.rc = "0") =>
    CASE qry.f \in Exact \union {"title"} -> qry.answer.text = qry.v
      [] qry.f \in {"tmpdir", "cwd"} -> qry.answer.text = Slashless(qry.v)
      [] qry.f = "cut" -> Begins(qry.v, qry.answer.text)

Lens == UpTo(0..2, 3)

\* Every packed record fills its allocation to the last byte and its strings do not overlap.
PacksExactly == qry.asked = 0 =>
    /\ \A lens \in Lens \ {<<>>} : Packs(GroupSize(lens), GroupStarts(lens), lens)
                                   /\ Packs(ArgsSize(lens), ArgsStarts(lens), lens)
    /\ \A lens \in [1..3 -> 0..2] : Packs(UserSize(lens), UserStarts(lens), lens)
    /\ \A lens \in Lens : \A up \in [DOMAIN lens -> BOOLEAN] :
         Packs(AddressSize(lens, up), AddressStarts(lens, up), AddressLens(lens, up))

\* A thread's stack is as large as asked and a priority stays within the system's, in order;
\* a title stays within the memory of argv; the search stops at the first executable.
StaysWithin == qry.asked = 0 =>
    /\ \A asked \in 1..20 : StackSize(asked) >= asked /\ StackSize(asked) >= MinStack
    /\ \A limit \in 0..20 : DefaultStack(limit) <= limit
    /\ \A min, max \in 0..9 : min <= max =>
         /\ \A p \in -2..2 : Priority(p, min, max) \in min..max
         /\ \A p, q \in -2..2 : p <= q => Priority(p, min, max) <= Priority(q, min, max)
    /\ \A v \in Answers, cap \in 1..MaxLen : Len(TitleSet(v, cap)) + 1 <= cap
    /\ \A found \in UpTo(BOOLEAN, 3) : LET i == Searched(found)
         IN (i = 0) = (TRUE \notin Range(found)) /\ \A j \in 1..i - 1 : ~found[j]
=============================================================================
