---------------------------------- MODULE Tty ----------------------------------
(***************************************************************************)
(* Terminals: src/source/main/cpp/_darwin/tty.c.  The settings of a        *)
(* terminal outlive the handle and the process, so the file remembers, for *)
(* the first handle that leaves the normal mode, what they were, under a   *)
(* spinlock: handles of loops in different threads come here, and          *)
(* uv_tty_reset_mode comes from a signal handler or at exit, at any point. *)
(***************************************************************************)
EXTENDS Integers, FiniteSets

CONSTANTS
    Ttys,        \* the handles, each with a descriptor of its own
    Terminals,   \* the terminals they may be on
    Raws         \* the modes other than UV_TTY_MODE_NORMAL

VARIABLE tty

Settings == {"first"} \union Raws
Modes == {"normal"} \union Raws
Nobody == "none"

\* on is the terminal of a handle's descriptor, chosen once and for all.  pc is where a handle's
\* thread is in uv_tty_set_mode.  fake: the descriptor in io_watcher is the select thread's.
\* unsaved is history: the terminals changed through a handle that was not the recorded one, or
\* that found them changed already.
Init == \E where \in [Ttys -> Terminals] : tty =
    [on |-> where, open |-> {}, gone |-> {}, fake |-> {},
     mode |-> [h \in Ttys |-> "normal"], orig |-> [h \in Ttys |-> Nobody],
     pc |-> [h \in Ttys |-> "idle"], want |-> [h \in Ttys |-> "normal"],
     set |-> [t \in Terminals |-> "first"],
     orig_fd |-> Nobody, orig_termios |-> Nobody, lock |-> Nobody, leaked |-> {}, unsaved |-> {}]

Idle(h) == h \in tty.open /\ tty.pc[h] = "idle"

-----------------------------------------------------------------------------
(* uv_tty_init *)

\* uv_guess_handle of what a descriptor refers to.
Guess(what) ==
    CASE what = "terminal" -> "tty"
      [] what \in {"regular", "character"} -> "file"
      [] what \in {"fifo", "unix stream"} -> "pipe"
      [] what = "inet stream" -> "tcp"
      [] what = "inet datagram" -> "udp"
      [] OTHER -> "unknown"

Described == {"terminal", "regular", "character", "fifo", "unix stream", "inet stream",
              "inet datagram", "directory", "bad"}

\* Not for files.  select: kqueue does not take the descriptor, and uv__stream_try_select makes
\* a thread with a descriptor of its own for the io_watcher.
Open(h, what, select) ==
    /\ h \notin tty.open \union tty.gone
    /\ Guess(what) \notin {"file", "unknown"}
    /\ tty' = [tty EXCEPT !.open = @ \union {h},
          !.fake = IF select THEN @ \union {h} ELSE @]

-----------------------------------------------------------------------------
(* uv_tty_set_mode, in the three steps between which others may come *)

\* tcgetattr, when the handle leaves the normal mode, and the spinlock; the other changes
\* of mode go straight to tcsetattr.
SetMode(h, m) ==
    /\ Idle(h) /\ m # tty.mode[h]
    /\ IF tty.mode[h] = "normal"
       THEN tty' = [tty EXCEPT !.orig[h] = tty.set[tty.on[h]], !.want[h] = m, !.pc[h] = "lock",
              !.unsaved = IF tty.set[tty.on[h]] = "first" THEN @ ELSE @ \union {tty.on[h]}]
       ELSE tty' = [tty EXCEPT !.want[h] = m, !.pc[h] = "set"]

Lock(h) ==
    /\ tty.pc[h] = "lock" /\ tty.lock = Nobody
    /\ tty' = [tty EXCEPT !.lock = h, !.pc[h] = "locked"]

\* Mutant: the newest handle is recorded.
RecordsAlways(t) == TRUE

\* The first handle that leaves the normal mode is the one recorded.
Records(t) == t.orig_fd = Nobody

Record(h) ==
    /\ tty.pc[h] = "locked"
    /\ tty' = [tty EXCEPT !.lock = Nobody, !.pc[h] = "set",
          !.orig_fd = IF Records(tty) THEN h ELSE @,
          !.orig_termios = IF Records(tty) THEN tty.orig[h] ELSE @]

\* The settings for a mode, made from those the handle found.
Made(h, m) == IF m = "normal" THEN tty.orig[h] ELSE m

\* tcsetattr; when it fails the mode stays what it was.
Set(h) ==
    /\ tty.pc[h] = "set"
    /\ \E ok \in BOOLEAN :
        tty' = [tty EXCEPT !.pc[h] = "idle",
          !.mode[h] = IF ok THEN tty.want[h] ELSE @,
          !.set[tty.on[h]] = IF ok THEN Made(h, tty.want[h]) ELSE @,
          !.unsaved = IF ok /\ tty.orig_fd # h THEN @ \union {tty.on[h]} ELSE @]

-----------------------------------------------------------------------------
(* uv__tty_close and uv_tty_reset_mode *)

\* Mutant: uv__tty_close leaves the record.
KeptFd(t, h) == t.orig_fd

\* The descriptor recorded once h is closed: uv__tty_close compares io_watcher.fd with it.
FdAfter(t, h) == IF t.orig_fd = h /\ h \notin t.fake THEN Nobody ELSE t.orig_fd

Close(h) ==
    /\ Idle(h) /\ tty.lock = Nobody
    /\ tty' = [tty EXCEPT !.open = @ \ {h}, !.gone = @ \union {h}, !.orig_fd = FdAfter(tty, h),
          !.set[tty.on[h]] = IF tty.orig_fd = h /\ h \notin tty.fake THEN tty.orig_termios ELSE @]

\* Mutant: uv_tty_reset_mode does not look at the spinlock.
NoLook(t) == TRUE

\* The exchange takes the lock, or finds it taken: UV_EBUSY, and nothing is touched.
LockFree(t) == t.lock = Nobody

\* uv_tty_reset_mode, which runs to its end where it interrupts: in a signal handler of the
\* thread that holds the lock it must not wait.
ResetMode ==
    /\ LockFree(tty) /\ tty.orig_fd \in tty.open
    /\ tty' = [tty EXCEPT !.set[tty.on[tty.orig_fd]] = tty.orig_termios,
          !.leaked = IF tty.lock # Nobody THEN @ \union {tty.lock} ELSE @]

Next ==
    \/ \E h \in Ttys, what \in Described, select \in BOOLEAN : Open(h, what, select)
    \/ \E h \in Ttys, m \in Modes : SetMode(h, m)
    \/ \E h \in Ttys : Lock(h) \/ Record(h) \/ Set(h) \/ Close(h)
    \/ ResetMode

Spec == Init /\ [][Next]_tty

-----------------------------------------------------------------------------
(* Properties *)

TypeOK ==
    /\ tty.open \subseteq Ttys /\ tty.gone \subseteq Ttys
    /\ tty.mode \in [Ttys -> Modes] /\ tty.set \in [Terminals -> Settings]
    /\ tty.orig_fd \in Ttys \union {Nobody} /\ tty.lock \in Ttys \union {Nobody}

\* What is recorded is an open descriptor and what its terminal was set to at first, unless
\* the stream reads through a select thread: then uv__tty_close does not know it again, and
\* the record outlives the descriptor.
NoStaleEvent == (tty.orig_fd # Nobody /\ tty.orig_fd \notin tty.fake) =>
    tty.orig_fd \in tty.open

\* A terminal whose handles are all closed is set as it was at first, when every handle that
\* changed it was the recorded one, found it unchanged, and was known again by uv__tty_close.
ClosedIsClean == \A t \in Terminals \ tty.unsaved :
    (\A h \in Ttys : tty.on[h] = t => h \in tty.gone \ tty.fake) => tty.set[t] = "first"

\* uv_tty_reset_mode never restores between the lock and the unlock of another call.
AssertsHold == tty.leaked = {}
=============================================================================
