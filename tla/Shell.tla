-------------------------------- MODULE Shell --------------------------------
(***************************************************************************)
(* The shell, src/user/sh/main.c, and the init process that starts it,     *)
(* src/user/init/main.c.  A line is a sequence of the tokens gettoken      *)
(* makes ("a" is a word, "+" is >>).  Its command is parsed and run, by    *)
(* processes that fork, wait and exit side by side in the kernel's table   *)
(* (src/core/proc.c), where a parent is known by its entry alone.          *)
(***************************************************************************)
EXTENDS Integers, Sequences, FiniteSets, SequencesExt, TLC

CONSTANTS
    Inputs,   \* sequences of lines that may be typed
    MAXARGS,
    MAXN,     \* bytes of malloc1
    NPROC     \* entries of the process table

Token == {"a", ">", "|", "&", ";", "(", ")"}
Redir == {"<", ">", "+"}

\* struct cmd: argc words of an EXEC, the operator of a REDIR, the subcommands.
node(type, argc, op, kids) == [type |-> type, argc |-> argc, op |-> op, kids |-> kids]
execcmd(argc) == node("EXEC", argc, "", <<>>)
redircmd(cmd, op) == node("REDIR", 0, op, <<cmd>>)
pipecmd(left, right) == node("PIPE", 0, "", <<left, right>>)
listcmd(left, right) == node("LIST", 0, "", <<left, right>>)
backcmd(cmd) == node("BACK", 0, "", <<cmd>>)
-----------------------------------------------------------------------------
\* What a parsing function returns: a command and the place of the next token,
\* or PANIC.
Parsed(cmd, i) == [ok |-> TRUE, cmd |-> cmd, i |-> i]
Panic == [ok |-> FALSE, cmd |-> execcmd(0), i |-> 0]

peek(ts, i) == IF i <= Len(ts) THEN ts[i] ELSE ""

wrap(cmd, ops) == FoldLeft(redircmd, cmd, ops)

\* parseredirs: the operators found from i on.
RECURSIVE parseredirs(_, _, _)
parseredirs(ts, i, ops) ==
    IF peek(ts, i) \notin Redir THEN [ok |-> TRUE, i |-> i, ops |-> ops]
    ELSE IF peek(ts, i + 1) # "a" THEN [ok |-> FALSE, i |-> i, ops |-> ops]
    ELSE parseredirs(ts, i + 2, Append(ops, ts[i]))

\* Mutant: one argument more than argv has room for.
too_many_args_Late(argc) == argc > MAXARGS

too_many_args(argc) == argc >= MAXARGS

\* The loop of parseexec, after argc words.
RECURSIVE parseargs(_, _, _, _)
parseargs(ts, i, argc, ops) ==
    LET r == parseredirs(ts, i, ops)
    IN  IF ~r.ok THEN Panic
        ELSE IF peek(ts, r.i) \in {"|", ")", "&", ";", ""} THEN Parsed(wrap(execcmd(argc), r.ops), r.i)
        ELSE IF ts[r.i] # "a" \/ too_many_args(argc + 1) THEN Panic
        ELSE parseargs(ts, r.i + 1, argc + 1, r.ops)

RECURSIVE parseline(_, _)
RECURSIVE parsepipe(_, _)

parseblock(ts, i) ==
    LET b == parseline(ts, i + 1)
        r == parseredirs(ts, b.i + 1, <<>>)
    IN  IF ~b.ok \/ peek(ts, b.i) # ")" \/ ~r.ok THEN Panic ELSE Parsed(wrap(b.cmd, r.ops), r.i)

parseexec(ts, i) == IF peek(ts, i) = "(" THEN parseblock(ts, i) ELSE parseargs(ts, i, 0, <<>>)

parsepipe(ts, i) ==
    LET l == parseexec(ts, i)
        r == parsepipe(ts, l.i + 1)
    IN  IF ~l.ok \/ peek(ts, l.i) # "|" THEN l
        ELSE IF r.ok THEN Parsed(pipecmd(l.cmd, r.cmd), r.i) ELSE Panic

RECURSIVE parseback(_, _)
parseback(ts, p) == IF p.ok /\ peek(ts, p.i) = "&" THEN parseback(ts, Parsed(backcmd(p.cmd), p.i + 1)) ELSE p

parseline(ts, i) ==
    LET l == parseback(ts, parsepipe(ts, i))
        r == parseline(ts, l.i + 1)
    IN  IF ~l.ok \/ peek(ts, l.i) # ";" THEN l
        ELSE IF r.ok THEN Parsed(listcmd(l.cmd, r.cmd), r.i) ELSE Panic

\* malloc1: the bytes of the structs of a command.
RECURSIVE malloc1(_)
malloc1(cmd) ==
    (CASE cmd.type = "EXEC" -> 168 [] cmd.type = "REDIR" -> 40 [] cmd.type = "BACK" -> 16 [] OTHER -> 24)
    + FoldLeft(LAMBDA n, kid : n + malloc1(kid), 0, cmd.kids)

leftovers(ts, p) == p.i <= Len(ts)

parsecmd(ts) ==
    LET p == parseline(ts, 1)
    IN  IF ~p.ok \/ leftovers(ts, p) \/ malloc1(p.cmd) > MAXN THEN Panic ELSE p
-----------------------------------------------------------------------------
VARIABLES
    input,  \* the lines that are typed, before the input ends
    back,   \* history: a line with & was read
    proc    \* the kernel's table of processes: entry, parent, and where the process is in its program

vars == <<input, back, proc>>

\* init is the first entry of the table, and never exits.
init == 0
Entry == 0 .. NPROC - 1
None == NPROC
Unused == [state |-> "UNUSED", parent |-> None, pc |-> "none", cmd |-> execcmd(0)]

Init ==
    /\ input \in Inputs
    /\ back = FALSE
    /\ proc = [x \in Entry |-> IF x = init THEN [Unused EXCEPT !.state = "RUNNABLE", !.pc = "init"] ELSE Unused]

At(x, l) == proc[x].state = "RUNNABLE" /\ proc[x].pc = l
Runs(x, type) == At(x, "runcmd") /\ proc[x].cmd.type = type
Kids(x) == {y \in Entry : proc[y].parent = x}

goto(x, l) == proc' = [proc EXCEPT ![x].pc = l]

\* fork1: the parent goes on at l; the child, in the first unused entry of the
\* table, goes to m with command cmd.  (The kernel's fork does not return -1: it stops
\* the kernel when it has no entry or page left.)
fork1(x, l, m, cmd) ==
    \E y \in Entry :
        /\ proc[y].state = "UNUSED" /\ \A z \in Entry : z < y => proc[z].state # "UNUSED"
        /\ proc' = [proc EXCEPT ![x].pc = l,
                                ![y] = [state |-> "RUNNABLE", parent |-> x, pc |-> m, cmd |-> cmd]]

\* exit: the children keep the entry as their parent, whoever gets it next.
exit(x) == proc' = [proc EXCEPT ![x].state = "ZOMBIE"]

\* wait: the first zombie whose parent is this entry is gone; without children
\* wait returns -1, which nobody looks at; else the process sleeps.
wait(x, l) ==
    LET zombies == {y \in Kids(x) : proc[y].state = "ZOMBIE"}
    IN  /\ Kids(x) = {} \/ zombies # {}
        /\ proc' = [y \in Entry |-> IF y = x THEN [proc[x] EXCEPT !.pc = l]
                                    ELSE IF zombies # {} /\ y = Min(zombies) THEN Unused ELSE proc[y]]
-----------------------------------------------------------------------------
\* init starts a shell, its only child, and another one when that has exited.
init_fork == At(init, "init") /\ fork1(init, "init_wait", "sh", execcmd(0))
init_wait == At(init, "init_wait") /\ wait(init, "init")

\* The loop of main: a line is read and a child made for it; when it cannot be
\* parsed the child exits at once, as with no command.  At the end of the input
\* the shell exits.  (cd is done by the shell itself.)
main_line(x) ==
    /\ At(x, "sh") /\ input # <<>>
    /\ fork1(x, "sh_wait", "runcmd", parsecmd(Head(input)).cmd)
    /\ input' = Tail(input)
    /\ back' = (back \/ \E k \in DOMAIN Head(input) : Head(input)[k] = "&")

main_wait(x) == At(x, "sh_wait") /\ wait(x, "sh")
main_eof(x) == At(x, "sh") /\ input = <<>> /\ exit(x)

\* runcmd of an EXEC: the program runs (argv[0] = 0 or a failed execv: exit).
run_exec(x) == Runs(x, "EXEC") /\ (exit(x) \/ (proc[x].cmd.argc > 0 /\ goto(x, "program")))
program_exit(x) == At(x, "program") /\ exit(x)

\* open fails, or the command runs.
run_redir(x) == Runs(x, "REDIR") /\ (exit(x) \/ proc' = [proc EXCEPT ![x].cmd = @.kids[1]])

run_list(x) == Runs(x, "LIST") /\ fork1(x, "list", "runcmd", proc[x].cmd.kids[1])

list_wait(x) == At(x, "list") /\ wait(x, "right")
run_right(x) == At(x, "right") /\ proc' = [proc EXCEPT ![x].pc = "runcmd", ![x].cmd = @.kids[2]]

\* The kernel's answer to pipe is 0, whatever the pipe is.
run_pipe(x) == Runs(x, "PIPE") /\ fork1(x, "pipe", "runcmd", proc[x].cmd.kids[1])
pipe_right(x) == At(x, "pipe") /\ fork1(x, "wait1", "runcmd", proc[x].cmd.kids[2])

\* Mutant: one wait for both.
pipe_wait_Once(x) == At(x, "wait1") /\ wait(x, "end")

pipe_wait(x) == \/ At(x, "wait1") /\ wait(x, "wait2")
                \/ At(x, "wait2") /\ wait(x, "end")

run_back(x) == Runs(x, "BACK") /\ fork1(x, "end", "runcmd", proc[x].cmd.kids[1])
run_end(x) == At(x, "end") /\ exit(x)

Step(x) ==
    \/ main_wait(x) \/ main_eof(x)
    \/ run_exec(x) \/ program_exit(x) \/ run_redir(x) \/ run_list(x) \/ list_wait(x) \/ run_right(x)
    \/ run_pipe(x) \/ pipe_right(x) \/ pipe_wait(x) \/ run_back(x) \/ run_end(x)

Next ==
    \/ (init_fork \/ init_wait \/ \E x \in Entry : Step(x)) /\ UNCHANGED <<input, back>>
    \/ \E x \in Entry : main_line(x)

Spec == Init /\ [][Next]_vars
-----------------------------------------------------------------------------
\* The grammar, as the set of commands a sequence of tokens stands for.
Cut(s) == {<<SubSeq(s, 1, k - 1), s[k], SubSeq(s, k + 1, Len(s))>> : k \in 1 .. Len(s)}
IsRedirs(s) == Len(s) % 2 = 0 /\ \A k \in 1 .. Len(s) : IF k % 2 = 1 THEN s[k] \in Redir ELSE s[k] = "a"

Simple(s) ==
    LET file(k) == k > 1 /\ s[k - 1] \in Redir
        words == {k \in 1 .. Len(s) : s[k] = "a" /\ ~file(k)}
    IN  IF /\ \A k \in 1 .. Len(s) : IF s[k] \in Redir THEN k < Len(s) /\ s[k + 1] = "a" ELSE s[k] = "a"
           /\ Cardinality(words) < MAXARGS
        THEN {wrap(execcmd(Cardinality(words)), SelectSeq(s, LAMBDA t : t \in Redir))} ELSE {}

RECURSIVE Line(_)
Block(s) ==
    UNION {IF s[1] = "(" /\ c[2] = ")" /\ IsRedirs(c[3])
           THEN {wrap(cmd, SelectSeq(c[3], LAMBDA t : t \in Redir)) : cmd \in Line(Tail(c[1]))}
           ELSE {} : c \in {d \in Cut(s) : d[1] # <<>>}}

RECURSIVE Pipe(_)
Pipe(s) ==
    LET Command(t) == Simple(t) \cup Block(t)
    IN  Command(s) \cup UNION {IF c[2] = "|" THEN {pipecmd(l, r) : l \in Command(c[1]), r \in Pipe(c[3])} ELSE {} :
                                c \in Cut(s)}

RECURSIVE Back(_)
Back(s) == Pipe(s) \cup IF s # <<>> /\ Last(s) = "&" THEN {backcmd(cmd) : cmd \in Back(Front(s))} ELSE {}

Line(s) == Back(s) \cup UNION {IF c[2] = ";" THEN {listcmd(l, r) : l \in Back(c[1]), r \in Line(c[3])} ELSE {} :
                                c \in Cut(s)}

\* parsecmd finds the command a line stands for: the parser accepts exactly
\* the lines of the grammar that have room in argv and in malloc1's memory, and the
\* command it builds is the only one.  (Looked at while there is no shell.)
ParsesTheGrammar ==
    input # <<>> /\ Kids(init) = {} =>
        LET p == parsecmd(input[1])
        IN  {cmd \in Line(input[1]) : malloc1(cmd) <= MAXN} = IF p.ok THEN {p.cmd} ELSE {}

\* Without &, runcmd waits for all it has started, and for nobody else's
\* children, whatever entries of the table they get: what follows ; and the next
\* prompt find nothing of the commands before still running.
LineIsDone ==
    ~back =>
        \A x \in Entry :
            /\ At(x, "right") => Kids(x) = {}
            /\ At(x, "sh") => \A y \in Entry \ {init, x} : proc[y].state = "UNUSED"
=============================================================================
