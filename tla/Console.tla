------------------------------- MODULE Console -------------------------------
(***************************************************************************)
(* The line editor and input ring of src/core/console.c: console_intr and  *)
(* console_read.  Each section under conslock is one step; console_intr    *)
(* takes its characters one by one.  Indices grow and are reduced modulo   *)
(* INPUT_BUF when the ring is accessed, as in the code.                    *)
(***************************************************************************)
EXTENDS Integers, Sequences

CONSTANTS
    Reader,     \* threads that read the console
    INPUT_BUF,  \* size of the ring
    MaxTyped,   \* bound: characters put into the ring
    MaxRead     \* bound: size of a read

ASSUME ConsoleAssumption ==
    /\ INPUT_BUF \in Nat \ {0}
    /\ MaxTyped \in Nat
    /\ MaxRead \in Nat \ {0}

\* A plain character, newline and end of file; a carriage return is typed
\* for a newline.
Char == {"a", "nl", "eof"}
Typed == Char \cup {"cr"}
stored(c) == IF c = "cr" THEN "nl" ELSE c

VARIABLES
    buf, r, w, e,  \* struct input
    pc,            \* where each reader is
    n, target,     \* what is left of, and the size of, each reader's request
    typed,         \* characters put into the ring so far
    pending,       \* history: what readers must get, in order
    line           \* history: what is typed and still editable

ring == <<buf, r, w, e>>
readers == <<pc, n, target>>
history == <<pending, line>>
vars == <<ring, readers, typed, history>>

Init ==
    /\ buf = [k \in 0 .. INPUT_BUF - 1 |-> "a"]
    /\ r = 0 /\ w = 0 /\ e = 0
    /\ pc = [t \in Reader |-> "idle"]
    /\ n = [t \in Reader |-> 0]
    /\ target = [t \in Reader |-> 0]
    /\ typed = 0
    /\ pending = <<>>
    /\ line = <<>>

at(k) == buf[k % INPUT_BUF]
-----------------------------------------------------------------------------
\* Mutants: one character too many is accepted; the end of a line wakes nobody.
HasRoom_OffByOne == e - r <= INPUT_BUF
awake_Nobody == pc

commits(c) == c \in {"nl", "eof"} \/ e' = r + INPUT_BUF
HasRoom == e - r < INPUT_BUF
awake == [t \in Reader |-> IF pc[t] = "sleep" THEN "loop" ELSE pc[t]]

\* console_intr, default case.
console_intr(x) ==
    LET c == stored(x)
    IN  /\ typed < MaxTyped
        /\ typed' = typed + 1
        /\ HasRoom
        /\ buf' = [buf EXCEPT ![e % INPUT_BUF] = c]
        /\ e' = e + 1
        /\ IF commits(c)
           THEN /\ w' = e'
                /\ pc' = awake
                /\ pending' = pending \o Append(line, c)
                /\ line' = <<>>
           ELSE /\ line' = Append(line, c)
                /\ UNCHANGED <<w, pc, pending>>
        /\ UNCHANGED <<r, n, target>>

Editable == e # w

\* console_intr, backspace.
backspace ==
    /\ Editable
    /\ e' = e - 1
    /\ line' = SubSeq(line, 1, Len(line) - 1)
    /\ UNCHANGED <<buf, r, w, readers, typed, pending>>

\* console_intr, kill line: back to w or behind the last newline.
kill_line ==
    /\ Editable
    /\ \E k \in w .. e :
         /\ k = w \/ at(k - 1) = "nl"
         /\ \A j \in k .. e - 1 : at(j) # "nl"
         /\ e' = k
    /\ line' = <<>>
    /\ UNCHANGED <<buf, r, w, readers, typed, pending>>

\* console_read is called for k characters.
console_read(t, k) ==
    /\ pc[t] = "idle"
    /\ pc' = [pc EXCEPT ![t] = "loop"]
    /\ n' = [n EXCEPT ![t] = k]
    /\ target' = [target EXCEPT ![t] = k]
    /\ UNCHANGED <<ring, typed, history>>

\* Mutant: an end of file that comes after other characters is lost.
keeps_eof_Never(t, got) == FALSE

keeps_eof(t, got) == n[t] - got < target[t]

\* Character number k of those that are left ends a read.
ends(k) == k > 0 /\ at(r + k - 1) \in {"nl", "eof"}

\* console_read under conslock: characters are taken until a newline, an end
\* of file, the size of the request, or the end of the input, where it sleeps
\* and keeps what it has.  An end of file counts for nothing; it is left for
\* the next read if this one got something.
read_loop(t) ==
    /\ pc[t] = "loop"
    /\ \E k \in 0 .. n[t] :
         LET eof == ends(k) /\ at(r + k - 1) = "eof"
             got == IF eof THEN k - 1 ELSE k
             taken == IF eof /\ keeps_eof(t, got) THEN k - 1 ELSE k
         IN  /\ k <= w - r /\ \A j \in 1 .. k - 1 : ~ends(j)
             /\ ends(k) \/ k = n[t] \/ k = w - r
             /\ r' = r + taken
             /\ pending' = SubSeq(pending, taken + 1, Len(pending))
             /\ n' = [n EXCEPT ![t] = @ - got]
             /\ pc' = [pc EXCEPT ![t] = IF ends(k) \/ got = n[t]
                                        THEN "idle" ELSE "sleep"]
    /\ UNCHANGED <<buf, w, e, target, typed, line>>
-----------------------------------------------------------------------------
Next ==
    \/ \E x \in Typed : console_intr(x)
    \/ backspace
    \/ kill_line
    \/ \E t \in Reader :
          \/ \E k \in 1 .. MaxRead : console_read(t, k)
          \/ read_loop(t)

Spec == Init /\ [][Next]_vars
-----------------------------------------------------------------------------
\* What lies between r and w is exactly what was handed over and not read,
\* and what lies between w and e exactly the line being edited, although the
\* ring is overwritten many times and edited in place.
RingHoldsInput ==
    /\ pending = [k \in 1 .. w - r |-> at(r + k - 1)]
    /\ line = [k \in 1 .. e - w |-> at(w + k - 1)]

\* A reader sleeps on input.r only while there is nothing to read: no wakeup
\* of console_intr is lost, also when one reader puts an end of file back that
\* another one could read.
NoSleepWithInput == \A t \in Reader : pc[t] = "sleep" => r = w

\* A read that returns characters does not take the end of file behind them:
\* it is left in the ring, "to make sure caller gets a 0-byte result" from a
\* later read.
EofLeft(t) ==
    LET taken == Len(pending) - Len(pending')
    IN  pc[t] = "loop" /\ pc'[t] # "loop" /\ taken > 0
           => (pending[taken] = "eof" => n'[t] = target'[t])
EofReadAlone == [][\A t \in Reader : EofLeft(t)]_vars
=============================================================================
