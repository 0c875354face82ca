-------------------------------- MODULE Files --------------------------------
(***************************************************************************)
(* Inodes in memory (src/fs/inode.c), the file table (src/fs/file.c) and   *)
(* the system calls on files (src/core/sysfile.c) of several processes.    *)
(*                                                                         *)
(* An inode's lock is a spinlock that belongs to a CPU, but it is held     *)
(* across disk transfers, during which its process leaves the CPU and may  *)
(* come back on another one.  Taking a lock this CPU already has, giving   *)
(* up one it does not have and any other failed assertion stop the CPU:    *)
(* its process keeps it and takes no further step.  What runs without a    *)
(* disk transfer, under one lock, is one step.  num_links is 1 for any     *)
(* positive number.  begin_op and end_op are in GroupCommit, the contents  *)
(* of files in InodeBlocks.                                                *)
(***************************************************************************)
EXTENDS Integers, Sequences, FiniteSets, SequencesExt

CONSTANTS
    Proc, Cpu, None,
    First,      \* the process that started the file system
    Call,       \* the system calls with a path that are made
    Path,       \* paths: [abs, elems], elems a sequence of names
    Image,      \* the root directory mkfs made: a function from names
    NINODES,    \* inodes are 1 .. NINODES - 1
    NFILE, NOFILE

ROOT == 1
Ino == 1 .. NINODES - 1
File == 1 .. NFILE
Fd == 0 .. NOFILE - 1
Name == {".", ".."} \cup UNION {ToSet(q.elems) : q \in Path} \cup DOMAIN Image

VARIABLES
    rc,     \* references to the in-memory inode, 0 when there is none
    mem,    \* its valid, type and num_links
    ilock,  \* the CPU that holds its lock
    disk,   \* type and num_links of the inode on disk
    dir,    \* dir[i][n]: the inode directory i names n, or 0
    ref, fip,     \* of each file: references, and its inode once it has one
    ofile, cwd,   \* of each process; cwd is 0 in an unused one
    cpu,    \* the CPU a process is on while it is in the kernel
    pc, l   \* where it is there, and its local variables

inodevars == <<rc, mem, ilock, disk, dir>>
filevars == <<ref, fip, ofile, cwd>>
vars == <<inodevars, filevars, cpu, pc, l>>

Free == [type |-> "INVALID", num_links |-> 0]
Absent == [valid |-> FALSE, type |-> "INVALID", num_links |-> 0]
NoLocals == [call |-> "none", path |-> <<>>, ip |-> 0, next |-> 0, name |-> ".", fd |-> 0]

\* mkfs made the root and regular files; init_inodes and forkret hold the root.
Init ==
    /\ rc = [i \in Ino |-> IF i = ROOT THEN 2 ELSE 0]
    /\ mem \in [Ino -> [valid : {FALSE}, type : {"INVALID"}, num_links : {0, 1}]]
    /\ \A i \in Ino \ {ROOT} : mem[i] = Absent
    /\ ilock = [i \in Ino |-> None]
    /\ disk = [i \in Ino |-> IF i = ROOT THEN [type |-> "DIRECTORY", num_links |-> 1]
                             ELSE IF \E n \in DOMAIN Image : Image[n] = i
                             THEN [type |-> "REGULAR", num_links |-> 1] ELSE Free]
    /\ dir = [i \in Ino |-> [n \in Name |->
                IF i # ROOT THEN 0 ELSE IF n \in DOMAIN Image THEN Image[n]
                ELSE IF n \in {".", ".."} THEN ROOT ELSE 0]]
    /\ ref = [f \in File |-> 0] /\ fip = [f \in File |-> 0]
    /\ ofile = [p \in Proc |-> [d \in Fd |-> 0]]
    /\ cwd = [p \in Proc |-> IF p = First THEN ROOT ELSE 0]
    /\ cpu = [p \in Proc |-> None]
    /\ pc = [p \in Proc |-> "user"] /\ l = [p \in Proc |-> NoLocals]
-----------------------------------------------------------------------------
least(S) == CHOOSE x \in S : \A y \in S : x <= y

On(p, at) == pc[p] = at /\ cpu[p] # None
goto(p, at) == pc' = [pc EXCEPT ![p] = at]
locals(p, r) == l' = [l EXCEPT ![p] = r]
\* Back in user code, without a CPU of the kernel and without locals.
return(p) ==
    /\ goto(p, "user") /\ locals(p, NoLocals)
    /\ cpu' = [cpu EXCEPT ![p] = None]

\* inode_get: a new in-memory inode has whatever num_links its memory held.
inode_get(i) ==
    /\ rc' = [rc EXCEPT ![i] = @ + 1]
    /\ IF rc[i] > 0 THEN UNCHANGED mem
       ELSE \E n \in {0, 1} : mem' = [mem EXCEPT ![i] = [Absent EXCEPT !.num_links = n]]

inode_share(i) == rc' = [rc EXCEPT ![i] = @ + 1] /\ UNCHANGED mem

\* Mutant: links do not keep an inode.
is_last_Links(i) == rc[i] <= 1

is_last(i) == rc[i] <= 1 /\ mem[i].num_links = 0

\* inode_put: the last reference to an inode without links frees it on disk.
inode_put(i) ==
    /\ rc' = [rc EXCEPT ![i] = @ - 1]
    /\ mem' = IF rc[i] = 1 THEN [mem EXCEPT ![i] = Absent] ELSE mem
    /\ disk' = IF is_last(i) THEN [disk EXCEPT ![i] = Free] ELSE disk
    /\ UNCHANGED <<ilock, dir>>

\* A process at `from` puts inode i, forgets it and goes to `to`.
put(p, from, i, to, r) ==
    /\ On(p, from)
    /\ inode_put(i) /\ locals(p, r) /\ goto(p, to)
    /\ UNCHANGED <<filevars, cpu>>

Loaded(i) == IF mem[i].valid THEN mem[i]
             ELSE [valid |-> TRUE, type |-> disk[i].type, num_links |-> disk[i].num_links]

\* inode_lock: spins while another CPU has the lock, reads the inode if it
\* was not read before and asserts that it is one.
inode_lock(p, from, i, to) ==
    /\ On(p, from)
    /\ ilock[i] = None /\ Loaded(i).type # "INVALID"
    /\ ilock' = [ilock EXCEPT ![i] = cpu[p]]
    /\ mem' = [mem EXCEPT ![i] = Loaded(i)]
    /\ goto(p, to)
    /\ UNCHANGED <<rc, disk, dir, filevars, cpu, l>>

\* inode_unlock asserts that this CPU has the lock.
inode_unlock(p, i) == ilock[i] = cpu[p] /\ ilock' = [ilock EXCEPT ![i] = None]

\* Labels at which a process holds an inode's lock and waits for the disk.
DiskPC == {"look", "search", "fill", "use", "io"}

sleep(p) ==
    /\ pc[p] \in DiskPC /\ cpu[p] # None
    /\ cpu' = [cpu EXCEPT ![p] = None]
    /\ UNCHANGED <<inodevars, filevars, pc, l>>

resume(p, c) ==
    /\ pc[p] # "user" /\ cpu[p] = None
    /\ \A q \in Proc : cpu[q] # c
    /\ cpu' = [cpu EXCEPT ![p] = c]
    /\ UNCHANGED <<inodevars, filevars, pc, l>>
-----------------------------------------------------------------------------
\* The system calls that make an inode (sys_openat with O_CREAT, sys_mkdirat,
\* sys_mknodat), and its type.
NewType == [creat |-> "REGULAR", mkdir |-> "DIRECTORY", mknod |-> "DEVICE"]
parent(p) == l[p].call \in DOMAIN NewType

\* A system call with a path (sys_openat, sys_mkdirat, sys_mknodat, sys_chdir,
\* sys_fstatat, execve), up to the first reference of namex.  nameiparent of
\* the root begins a second operation, which never ends (NamexOp).
syscall(p, c, call, q) ==
    LET i == IF q.abs THEN ROOT ELSE cwd[p]
    IN  /\ pc[p] = "user" /\ cwd[p] # 0
        /\ \A r \in Proc : cpu[r] # c
        /\ cpu' = [cpu EXCEPT ![p] = c]
        /\ IF q.abs THEN inode_get(i) ELSE inode_share(i)
        /\ locals(p, [NoLocals EXCEPT !.call = call, !.path = q.elems, !.ip = i])
        /\ goto(p, IF q.elems # <<>> THEN "walk"
                   ELSE IF call \in DOMAIN NewType THEN "stick" ELSE "found")
        /\ UNCHANGED <<ilock, disk, dir, filevars>>

\* namex with the lock of ip: where the walk ends, or the next inode.
look(p) ==
    LET ip == l[p].ip
        name == Head(l[p].path)
        rest == Tail(l[p].path)
        next == dir[ip][name]
        is_dir == mem[ip].type = "DIRECTORY"
        ends == (parent(p) /\ rest = <<>>) \/ rest = <<".">>
    IN  /\ On(p, "look")
        /\ inode_unlock(p, ip)
        /\ \/ ~is_dir /\ goto(p, "stick") /\ UNCHANGED <<l, rc, mem>>
           \/ /\ is_dir /\ ends
              /\ locals(p, [l[p] EXCEPT !.name = name]) /\ goto(p, "found")
              /\ UNCHANGED <<rc, mem>>
           \/ is_dir /\ ~ends /\ next = 0 /\ goto(p, "drop") /\ UNCHANGED <<l, rc, mem>>
           \/ /\ is_dir /\ ~ends /\ next # 0
              /\ inode_get(next)
              /\ locals(p, [l[p] EXCEPT !.next = next, !.path = rest]) /\ goto(p, "step")
        /\ UNCHANGED <<disk, dir, filevars, cpu>>

\* Mutant: the reference to the directory behind is kept.
moved_Kept(p) == UNCHANGED <<rc, mem, ilock, disk, dir>>

moved(p) == inode_put(l[p].ip)

\* The inode found replaces the directory it was found in.
step(p, from, to) ==
    /\ On(p, from)
    /\ moved(p)
    /\ locals(p, [l[p] EXCEPT !.ip = l[p].next, !.next = 0])
    /\ goto(p, to)
    /\ UNCHANGED <<filevars, cpu>>

namex(p) ==
    \/ inode_lock(p, "walk", l[p].ip, "look")
    \/ look(p)
    \/ step(p, "step", IF l[p].path # <<>> THEN "walk" ELSE IF parent(p) THEN "stick" ELSE "found")
    \/ put(p, "stick", l[p].ip, "stuck", NoLocals)

\* create: the name exists ...
create_found(p) ==
    LET ip == l[p].ip
        i == dir[ip][l[p].name]
    IN  /\ On(p, "search") /\ i # 0
        /\ inode_get(i) /\ inode_unlock(p, ip)
        /\ locals(p, [l[p] EXCEPT !.next = i])
        /\ goto(p, "exists")
        /\ UNCHANGED <<disk, dir, filevars, cpu>>

\* ... or inode_alloc finds a free inode, which is got, locked and read.
inode_alloc(p) ==
    LET F == {i \in Ino : disk[i].type = "INVALID"}
        i == least(F)
        type == NewType[l[p].call]
    IN  /\ On(p, "search") /\ dir[l[p].ip][l[p].name] = 0 /\ F # {}
        /\ disk' = [disk EXCEPT ![i] = [type |-> type, num_links |-> 0]]
        /\ rc' = [rc EXCEPT ![i] = @ + 1]
        /\ mem' = [mem EXCEPT ![i] = [valid |-> TRUE, type |-> type, num_links |-> 0]]
        /\ ilock' = [ilock EXCEPT ![i] = cpu[p]]
        /\ locals(p, [l[p] EXCEPT !.next = i])
        /\ goto(p, "fill")
        /\ UNCHANGED <<dir, filevars, cpu>>

\* The new inode is written and entered in its directory.
create_fill(p) ==
    LET ip == l[p].ip
        i == l[p].next
    IN  /\ On(p, "fill")
        /\ mem' = [mem EXCEPT ![i].num_links = 1]
        /\ disk' = [disk EXCEPT ![i].num_links = 1]
        /\ dir' = [dir EXCEPT ![ip][l[p].name] = i,
                     ![i] = IF l[p].call = "mkdir" THEN [@ EXCEPT !["."] = i, ![".."] = ip] ELSE @]
        /\ inode_unlock(p, ip)
        /\ goto(p, "made")
        /\ UNCHANGED <<rc, filevars, cpu, l>>

create(p) ==
    \/ parent(p) /\ inode_lock(p, "found", l[p].ip, "search")
    \/ create_found(p) \/ inode_alloc(p) \/ create_fill(p)
    \/ step(p, "exists", "reuse") \/ step(p, "made", "use")
    \/ inode_lock(p, "reuse", l[p].ip, "check")

\* Only a regular file may exist already when one is made.
refused(p) == pc[p] = "check" /\ ~(l[p].call = "creat" /\ mem[l[p].ip].type = "REGULAR")

Unused(F) == {f \in F : ref[f] = 0}
FreeFds(p) == {d \in Fd : ofile[p][d] = 0}

\* The system call has its inode, locked.  sys_openat takes a file and a
\* descriptor for it, or neither; sys_chdir wants a directory; the others have
\* read the inode.
use(p) ==
    LET ip == l[p].ip
        opens == ~refused(p) /\ l[p].call \in {"open", "creat"} /\ Unused(File) # {} /\ FreeFds(p) # {}
        moves == l[p].call = "chdir" /\ mem[ip].type = "DIRECTORY"
    IN  /\ On(p, "use") \/ On(p, "check")
        /\ inode_unlock(p, ip)
        /\ IF opens
           THEN /\ ref' = [ref EXCEPT ![least(Unused(File))] = 1]
                /\ ofile' = [ofile EXCEPT ![p][least(FreeFds(p))] = least(Unused(File))]
           ELSE UNCHANGED <<ref, ofile>>
        /\ goto(p, IF opens THEN "opened" ELSE IF moves THEN "chdir" ELSE "drop")
        /\ UNCHANGED <<rc, mem, disk, dir, fip, cwd, cpu, l>>

\* The end of sys_openat, after end_op: the file gets its inode.
opened(p) ==
    /\ On(p, "opened")
    /\ fip' = [f \in File |-> IF fip[f] = 0 /\ \E d \in Fd : ofile[p][d] = f THEN l[p].ip ELSE fip[f]]
    /\ return(p)
    /\ UNCHANGED <<inodevars, ref, ofile, cwd>>

\* The end of sys_chdir, after end_op.
chdir_set(p) ==
    /\ On(p, "chdir_set")
    /\ cwd' = [cwd EXCEPT ![p] = l[p].ip]
    /\ return(p)
    /\ UNCHANGED <<inodevars, ref, fip, ofile>>

\* The end of sys_fstatat, sys_mkdirat and sys_mknodat, and of what failed.
drop(p) == On(p, "drop") /\ inode_put(l[p].ip) /\ return(p) /\ UNCHANGED <<filevars>>

\* What a system call does with the inode it found or made.
finish(p) ==
    \/ ~parent(p) /\ inode_lock(p, "found", l[p].ip, "use")
    \/ use(p) \/ opened(p) \/ drop(p)
    \/ put(p, "chdir", cwd[p], "chdir_set", l[p]) \/ chdir_set(p)
-----------------------------------------------------------------------------
\* System calls on a descriptor.
InUser(p, d) == pc[p] = "user" /\ ofile[p][d] # 0

\* sys_read, sys_write, sys_writev, sys_fstat: the inode is locked for the transfer.
file_io(p, d, c) ==
    /\ InUser(p, d)
    /\ \A r \in Proc : cpu[r] # c
    /\ cpu' = [cpu EXCEPT ![p] = c]
    /\ locals(p, [NoLocals EXCEPT !.fd = d])
    /\ goto(p, "io_lock")
    /\ UNCHANGED <<inodevars, filevars>>

file_inode(p) == fip[ofile[p][l[p].fd]]

\* console_read and console_write give the inode up and lock it again.
console_io(p) ==
    /\ On(p, "io") /\ mem[file_inode(p)].type = "DEVICE"
    /\ inode_unlock(p, file_inode(p)) /\ goto(p, "io_lock")
    /\ UNCHANGED <<rc, mem, disk, dir, filevars, cpu, l>>

io_end(p) ==
    /\ On(p, "io")
    /\ inode_unlock(p, file_inode(p)) /\ return(p)
    /\ UNCHANGED <<rc, mem, disk, dir, filevars>>

\* Mutant: the descriptor is filled and the file not counted again.
duplicated_Uncounted(f) == ref

duplicated(f) == [ref EXCEPT ![f] = @ + 1]

sys_dup(p, d) ==
    /\ InUser(p, d) /\ FreeFds(p) # {}
    /\ ofile' = [ofile EXCEPT ![p][least(FreeFds(p))] = ofile[p][d]]
    /\ ref' = duplicated(ofile[p][d])
    /\ UNCHANGED <<inodevars, fip, cwd, cpu, pc, l>>

\* fileclose of descriptor d: the last reference leaves the inode to be put.
fileclose(p, d, to, last) ==
    LET f == ofile[p][d]
    IN  /\ ref' = [ref EXCEPT ![f] = @ - 1]
        /\ IF ref[f] > 1
           THEN goto(p, to) /\ UNCHANGED <<fip, l>>
           ELSE /\ goto(p, last)
                /\ fip' = [fip EXCEPT ![f] = 0]
                /\ locals(p, [NoLocals EXCEPT !.ip = fip[f], !.fd = d])

sys_close(p, d) ==
    /\ InUser(p, d)
    /\ ofile' = [ofile EXCEPT ![p][d] = 0]
    /\ fileclose(p, d, "user", "drop")
    /\ UNCHANGED <<inodevars, cwd, cpu>>

\* fork copies the descriptors and the current directory.
fork(p, q) ==
    /\ pc[p] = "user" /\ cwd[p] # 0 /\ cwd[q] = 0 /\ pc[q] = "user"
    /\ ofile' = [ofile EXCEPT ![q] = ofile[p]]
    /\ ref' = [f \in File |-> ref[f] + Cardinality({d \in Fd : ofile[p][d] = f})]
    /\ cwd' = [cwd EXCEPT ![q] = cwd[p]]
    /\ inode_share(cwd[p])
    /\ UNCHANGED <<ilock, disk, dir, fip, cpu, pc, l>>

\* exit closes the files in turn, each before it clears the descriptor, and
\* then leaves the directory.
exit(p) ==
    \/ /\ pc[p] = "user" /\ cwd[p] # 0 /\ goto(p, "exit")
       /\ UNCHANGED <<inodevars, filevars, cpu, l>>
    \/ /\ On(p, "exit") /\ FreeFds(p) # Fd
       /\ LET d == least(Fd \ FreeFds(p))
          IN  /\ fileclose(p, d, "exit", "exit_put")
              /\ ofile' = IF ref[ofile[p][d]] > 1 THEN [ofile EXCEPT ![p][d] = 0] ELSE ofile
       /\ UNCHANGED <<inodevars, cwd, cpu>>
    \/ /\ On(p, "exit_put")
       /\ inode_put(l[p].ip) /\ ofile' = [ofile EXCEPT ![p][l[p].fd] = 0]
       /\ goto(p, "exit") /\ locals(p, NoLocals)
       /\ UNCHANGED <<ref, fip, cwd, cpu>>
    \/ /\ On(p, "exit") /\ FreeFds(p) = Fd
       /\ inode_put(cwd[p]) /\ cwd' = [cwd EXCEPT ![p] = 0] /\ return(p)
       /\ UNCHANGED <<ref, fip, ofile>>

Next ==
    \E p \in Proc :
        \/ \E c \in Cpu, call \in Call, q \in Path : syscall(p, c, call, q)
        \/ namex(p) \/ create(p) \/ finish(p)
        \/ \E d \in Fd : sys_dup(p, d) \/ sys_close(p, d) \/ \E c \in Cpu : file_io(p, d, c)
        \/ On(p, "io_lock") /\ inode_lock(p, "io_lock", file_inode(p), "io")
        \/ console_io(p) \/ io_end(p)
        \/ exit(p) \/ \E q \in Proc : fork(p, q)
        \/ sleep(p) \/ \E c \in Cpu : resume(p, c)

Spec == Init /\ [][Next]_vars
-----------------------------------------------------------------------------
count(S, P(_)) == Cardinality({x \in S : P(x)})

\* The counter of an in-memory inode is the number of pointers to it: the
\* root of the tree, open files, current directories and local variables of
\* system calls, so that it is freed when nobody can reach it, and not before.
RefCounts ==
    \A i \in Ino :
        rc[i] = (IF i = ROOT THEN 1 ELSE 0)
                + count(File, LAMBDA f : ref[f] > 0 /\ fip[f] = i)
                + count(Proc, LAMBDA p : cwd[p] = i /\ pc[p] # "chdir_set")
                + count(Proc, LAMBDA p : l[p].ip = i) + count(Proc, LAMBDA p : l[p].next = i)

\* The counter of a file is the number of descriptors that refer to it, apart
\* from one that exit is closing, and a file has its inode when somebody may
\* use the descriptor.
FileRefs ==
    LET refers(p, d, f) == ofile[p][d] = f /\ ~(pc[p] = "exit_put" /\ l[p].fd = d)
    IN  \A f \in File :
          /\ ref[f] = count(Proc \X Fd, LAMBDA x : refers(x[1], x[2], f))
          /\ \A p \in Proc, d \in Fd : refers(p, d, f) /\ fip[f] = 0 => pc[p] = "opened"

\* inode_put never frees an inode somebody can still name, although it looks
\* at num_links of inodes that were never read: an inode is in use on disk
\* exactly when it is the root, has one name, or is being made.
NamedIsAllocated ==
    \A i \in Ino \ {ROOT} :
        LET names == count(Ino \X (Name \ {".", ".."}), LAMBDA x : dir[x[1]][x[2]] = i)
        IN  /\ names <= 1
            /\ disk[i].type # "INVALID" <=>
                   names = 1 \/ \E p \in Proc : pc[p] = "fill" /\ l[p].next = i
=============================================================================
