----------------------------- MODULE FileSystem -----------------------------
(***************************************************************************)
(* The inode and directory layers (fs.c), the file table (file.c) and the  *)
(* system calls on them (sysfile.c), made by concurrent processes.         *)
(*                                                                         *)
(* A process is a thread with a stack k of labels to return to, so that    *)
(* namex, ilock, iput and fileclose are written once.  A step is what a    *)
(* process does under the inode locks it holds between two points where it *)
(* waits for another, or one section under icache.lock or ftable.lock.     *)
(*                                                                         *)
(* Abstractions.  A path is the sequence of its elements, with "/" first   *)
(* when it is absolute; a directory's content is a function from names to  *)
(* inode numbers, 0 for none; the content of files is in FileData.  iget   *)
(* keeps at most one cache entry in use for an inode, so that an entry is  *)
(* named by the inode's number.  `disk` is what bread returns.  A          *)
(* transaction is durable as a whole once no call is in one (Log           *)
(* implements AtomicDisk), so that a crash at any moment is a crash at the *)
(* last moment when inop was empty.                                        *)
(***************************************************************************)
EXTENDS Integers, Sequences, FiniteSets, FiniteSetsExt

CONSTANTS
  Procs,      \* process slots, init's left out
  Names,      \* names of files, other than "." and ".."
  NINODES,    \* inodes on the disk: 1..NINODES
  NINODE,     \* param.h: entries of icache
  NFILE,      \* param.h: entries of ftable
  NOFILE,     \* param.h: descriptors of a process
  Menus,      \* bound: the sets of calls that processes are seen to make
  CRASHES,    \* whether the machine crashes
  None        \* no process

ASSUME FileSystemAssumption ==
  /\ {NINODES, NINODE, NFILE, NOFILE} \subseteq Nat
  /\ CRASHES \in BOOLEAN
  /\ NINODES > 0
  /\ None \notin Procs
  /\ {".", "..", "/"} \cap Names = {}

VARIABLES
  disk,       \* the inodes and the directories' contents, through bread
  icache,     \* icache.inode
  lock,       \* the holder of each inode's sleep lock
  th,         \* the processes
  cwd,        \* p->cwd
  ofile,      \* p->ofile
  ftable,     \* ftable.file
  inop,       \* processes between begin_op and end_op
  alive,      \* slots that hold a process
  panicked,   \* the text of the panic that stopped the machine, or ""
  menu,       \* the calls of this behaviour
  lost,       \* history: inodes named in a directory that was freed
  dangling    \* history: inodes that lookups found as ".." of a removed directory

inodes == <<disk, icache, lock>>
files == <<ofile, ftable>>
world == <<menu, lost, dangling>>
vars == <<disk, icache, lock, th, cwd, ofile, ftable, inop, alive, panicked,
          menu, lost, dangling>>

ROOTINO == 1
Inums == 1..NINODES
AllNames == Names \cup {".", ".."}
NoEnt == [n \in AllNames |-> 0]
Files == 1..NFILE
Fds == 1..NOFILE

NoInode == [ref |-> 0, valid |-> FALSE, type |-> "none", nlink |-> 0]
NoCall == [op |-> "none"]
Idle == [pc |-> "out", k |-> <<>>, call |-> NoCall, path |-> <<>>,
         parent |-> FALSE, ip |-> 0, dp |-> 0, old |-> 0, lk |-> 0, put |-> 0,
         f |-> 0, g |-> 0, d |-> 0]

(* At boot each process is in the root directory. *)
Booted == [[i \in Inums |-> NoInode] EXCEPT ![ROOTINO].ref = Cardinality(Procs)]

(* The image mkfs writes: a root directory that is its own parent. *)
Init ==
  /\ disk = [i \in Inums |->
               IF i = ROOTINO
                 THEN [type |-> "dir", nlink |-> 1,
                       ent |-> [NoEnt EXCEPT !["."] = 1, ![".."] = 1]]
                 ELSE [type |-> "none", nlink |-> 0, ent |-> NoEnt]]
  /\ icache = Booted
  /\ lock = [i \in Inums |-> None]
  /\ th = [p \in Procs |-> Idle]
  /\ cwd = [p \in Procs |-> ROOTINO]
  /\ ofile = [p \in Procs |-> [d \in Fds |-> 0]]
  /\ ftable = [f \in Files |-> [ref |-> 0, type |-> "none", ip |-> 0]]
  /\ inop = {}
  /\ alive = Procs
  /\ panicked = ""
  /\ menu \in Menus
  /\ lost = {} /\ dangling = {}

-----------------------------------------------------------------------------
(* Threads. *)

Set(p, t) == th' = [th EXCEPT ![p] = t]
At(p, l) == panicked = "" /\ th[p].pc = l

(* Calls of the subroutines; a call in tail position leaves k as it is. *)
Ilock(t, i, l) == [t EXCEPT !.pc = "ilock", !.lk = i, !.k = <<l>> \o @]
IputLast(t, i) == [t EXCEPT !.pc = "iput", !.put = i]
Iput(t, i, l) == IputLast([t EXCEPT !.k = <<l>> \o @], i)
Fileclose(t, f, l) == [t EXCEPT !.pc = "fileclose", !.f = f, !.k = <<l>> \o @]

(* A call that has looked a path up locks what it found, dp if it asked for *)
(* the parent, or fails.                                                    *)
LockedAt == [create |-> "create_parent", unlink |-> "unlink_parent",
             link |-> "link_old", link_new |-> "link_locked",
             open |-> "open_locked", chdir |-> "chdir_locked",
             exec |-> "exec_locked"]
LookedUp(t, l) ==
  IF t.ip = 0
    THEN IF l = "link_new" THEN Ilock(t, t.old, "link_bad")
         ELSE [t EXCEPT !.pc = "end_op"]
    ELSE Ilock(IF t.parent THEN [t EXCEPT !.dp = t.ip, !.ip = 0] ELSE t,
               t.ip, LockedAt[l])

(* Return; a system call returns to "out" and its local variables are gone. *)
Ret(t) ==
  IF t.k = <<>> THEN Idle
  ELSE LET l == Head(t.k)
           u == [t EXCEPT !.k = Tail(@)]
       IN IF l \in DOMAIN LockedAt THEN LookedUp(u, l) ELSE [u EXCEPT !.pc = l]

-----------------------------------------------------------------------------
(* fs.c: the inode cache. *)

(* iget finds the entry in use, or takes an empty one and marks it invalid; *)
(* on an entry in use it does what idup does.                               *)
Got(i) ==
  [icache EXCEPT ![i] = IF @.ref > 0 THEN [@ EXCEPT !.ref = @ + 1]
                        ELSE [@ EXCEPT !.ref = 1, !.valid = FALSE]]
CacheFull(i) ==
  /\ icache[i].ref = 0
  /\ Cardinality({j \in Inums : icache[j].ref > 0}) >= NINODE
iget(i) ==
  /\ icache' = Got(i)
  /\ panicked' = IF CacheFull(i) THEN "iget: no inodes" ELSE ""

(* ilock reads the inode from the disk if the entry is not valid. *)
Loaded(i) ==
  [icache[i] EXCEPT !.valid = TRUE, !.type = disk[i].type, !.nlink = disk[i].nlink]
ilock(p) ==
  LET t == th[p]
      i == t.lk
  IN /\ At(p, "ilock")
     /\ lock[i] = None
     /\ panicked' = IF icache[i].ref < 1 THEN "ilock"
                    ELSE IF ~icache[i].valid /\ disk[i].type = "none"
                      THEN "ilock: no type" ELSE ""
     /\ lock' = [lock EXCEPT ![i] = p]
     /\ icache' = [icache EXCEPT ![i] = IF @.valid THEN @ ELSE Loaded(i)]
     /\ Set(p, Ret([t EXCEPT !.lk = 0]))
     /\ UNCHANGED <<disk, cwd, files, inop, alive, world>>

Unlocked(i) == [lock EXCEPT ![i] = None]

(* Mutant: an unlinked inode is freed whoever else refers to it. *)
LastRef_any(i) == TRUE

LastRef(i) == icache[i].ref = 1

(* iput takes the lock to look at nlink, and gives it up again unless it is *)
(* the one to free the inode.                                               *)
iput(p) ==
  LET t == th[p]
      i == t.put
  IN /\ At(p, "iput")
     /\ lock[i] = None
     /\ IF icache[i].valid /\ icache[i].nlink = 0 /\ LastRef(i)
          THEN /\ lock' = [lock EXCEPT ![i] = p]
               /\ Set(p, [t EXCEPT !.pc = "iput_free"])
          ELSE /\ Set(p, [t EXCEPT !.pc = "iput_drop"])
               /\ UNCHANGED lock
     /\ UNCHANGED <<disk, icache, cwd, files, inop, alive, panicked, world>>

(* itrunc, type 0, iupdate; the entry is invalid for whoever gets it next. *)
iput_free(p) ==
  LET t == th[p]
      i == t.put
  IN /\ At(p, "iput_free")
     /\ disk' = [disk EXCEPT ![i].type = "none", ![i].ent = NoEnt]
     /\ icache' = [icache EXCEPT ![i].type = "none", ![i].valid = FALSE]
     /\ lock' = Unlocked(i)
     /\ lost' = lost \cup ({disk[i].ent[n] : n \in Names} \ {0})
     /\ Set(p, [t EXCEPT !.pc = "iput_drop"])
     /\ UNCHANGED <<cwd, files, inop, alive, panicked, menu, dangling>>

(* An entry that is not referred to holds nothing: iget starts it afresh. *)
iput_drop(p) ==
  LET t == th[p]
  IN /\ At(p, "iput_drop")
     /\ icache' = [icache EXCEPT ![t.put] =
                     IF @.ref = 1 THEN NoInode ELSE [@ EXCEPT !.ref = @ - 1]]
     /\ Set(p, Ret([t EXCEPT !.put = 0]))
     /\ UNCHANGED <<disk, lock, cwd, files, inop, alive, panicked, world>>

-----------------------------------------------------------------------------
(* fs.c: path lookup. *)

(* namex starts at the root or at the current directory. *)
namex(p, t, path, parent, l) ==
  LET abs == path # <<>> /\ Head(path) = "/"
      from == IF abs THEN ROOTINO ELSE cwd[p]
      rest == IF abs THEN Tail(path) ELSE path
      u == [t EXCEPT !.ip = from, !.path = rest, !.parent = parent, !.k = <<l>> \o @]
  IN /\ iget(from)
     /\ Set(p, IF rest # <<>> THEN Ilock(u, from, "namex_locked")
               ELSE IF parent THEN IputLast([u EXCEPT !.ip = 0], from)
               ELSE Ret(u))

(* A directory that has a name, in the directory that its ".." names. *)
Attached(d) ==
  d = ROOTINO \/ \E n \in Names : disk[disk[d].ent[".."]].ent[n] = d

(* A turn of its loop once ip is locked. *)
namex_locked(p) ==
  LET t == th[p]
      next == disk[t.ip].ent[Head(t.path)]
      isdir == icache[t.ip].type = "dir"
      last == t.parent /\ Len(t.path) = 1
      u == [t EXCEPT !.ip = next, !.path = Tail(@)]
  IN /\ At(p, "namex_locked")
     /\ lock' = Unlocked(t.ip)
     /\ \/ /\ ~isdir \/ (~last /\ next = 0)
           /\ Set(p, IputLast([t EXCEPT !.ip = 0], t.ip))
           /\ UNCHANGED <<icache, panicked>>
        \/ /\ isdir /\ last
           /\ Set(p, Ret(t))
           /\ UNCHANGED <<icache, panicked>>
        \/ /\ isdir /\ ~last /\ next # 0
           /\ iget(next)
           /\ Set(p, IF u.path = <<>> THEN IputLast(u, t.ip)
                     ELSE Iput([u EXCEPT !.lk = next, !.k = <<"namex_locked">> \o @],
                               t.ip, "ilock"))
     /\ dangling' = IF isdir /\ ~last /\ Head(t.path) = ".." /\ ~Attached(t.ip)
                      THEN dangling \cup {next} ELSE dangling
     /\ UNCHANGED <<disk, cwd, files, inop, alive, menu, lost>>

-----------------------------------------------------------------------------
(* sysfile.c: the calls that take a path.  Each begins a transaction, looks *)
(* the path up, and locks what it found.                                    *)

Creates(c) == c.op \in {"mkdir", "mknod"} \/ c.mode = "create"
begin_op(p) ==
  \E c \in {d \in menu : d.path # <<>>} :
    /\ At(p, "out") /\ p \in alive
    /\ inop' = inop \cup {p}
    /\ namex(p, [Idle EXCEPT !.call = c], c.path,
                   Creates(c) \/ c.op = "unlink",
                   IF Creates(c) THEN "create" ELSE c.op)
    /\ UNCHANGED <<disk, lock, cwd, files, alive, world>>

end_op(p) ==
  /\ At(p, "end_op")
  /\ inop' = inop \ {p}
  /\ Set(p, Ret(th[p]))
  /\ UNCHANGED <<inodes, cwd, files, alive, panicked, world>>

(* iupdate: a new link count, in the cache and on the disk. *)
Nlink(i, n) ==
  /\ icache' = [icache EXCEPT ![i].nlink = n]
  /\ disk' = [disk EXCEPT ![i].nlink = n]

(* iunlockput, and then end_op or the label l. *)
iunlockput(p, t, i, l) ==
  /\ lock' = Unlocked(i)
  /\ Set(p, Iput(t, i, l))

(* sys_link. *)

link_old(p) ==
  LET t == th[p]
  IN /\ At(p, "link_old")
     /\ \/ /\ icache[t.ip].type = "dir"
           /\ iunlockput(p, [t EXCEPT !.ip = 0], t.ip, "end_op")
           /\ UNCHANGED <<disk, icache>>
        \/ /\ icache[t.ip].type # "dir"
           /\ Nlink(t.ip, icache[t.ip].nlink + 1)
           /\ lock' = Unlocked(t.ip)
           /\ Set(p, [t EXCEPT !.pc = "link_parent", !.old = t.ip, !.ip = 0])
     /\ UNCHANGED <<cwd, files, inop, alive, panicked, world>>

link_parent(p) ==
  /\ At(p, "link_parent")
  /\ namex(p, th[p], th[p].call.new, TRUE, "link_new")
  /\ UNCHANGED <<disk, lock, cwd, files, inop, alive, world>>

(* dirlookup, as dirlink and create ask it. *)
Existing(dp, name) == disk[dp].ent[name]

(* dirlink's new entry. *)
dirlink(d, dp, name, inum) == [d EXCEPT ![dp].ent[name] = inum]

(* dirlink refuses a name that is there: it gets its inode, and puts it. *)
link_locked(p) ==
  LET t == th[p]
      e == Existing(t.dp, t.path[1])
  IN /\ At(p, "link_locked")
     /\ \/ /\ e # 0
           /\ iget(e)
           /\ Set(p, Iput(t, e, "link_exists"))
           /\ UNCHANGED <<disk, lock>>
        \/ /\ e = 0
           /\ disk' = dirlink(disk, t.dp, t.path[1], t.old)
           /\ iunlockput(p, [t EXCEPT !.dp = 0], t.dp, "link_done")
           /\ UNCHANGED <<icache, panicked>>
     /\ UNCHANGED <<cwd, files, inop, alive, world>>

link_done(p) ==
  LET t == th[p]
  IN /\ At(p, "link_done")
     /\ Set(p, Iput([t EXCEPT !.old = 0], t.old, "end_op"))
     /\ UNCHANGED <<inodes, cwd, files, inop, alive, panicked, world>>

link_exists(p) ==
  LET t == th[p]
      bad == [t EXCEPT !.dp = 0, !.lk = t.old, !.k = <<"link_bad">> \o @]
  IN /\ At(p, "link_exists")
     /\ iunlockput(p, bad, t.dp, "ilock")
     /\ UNCHANGED <<disk, icache, cwd, files, inop, alive, panicked, world>>

(* Mutant: a link that failed keeps its count. *)
Undone_not(n) == n

Undone(n) == n - 1

link_bad(p) ==
  LET t == th[p]
  IN /\ At(p, "link_bad")
     /\ Nlink(t.old, Undone(icache[t.old].nlink))
     /\ iunlockput(p, [t EXCEPT !.old = 0], t.old, "end_op")
     /\ UNCHANGED <<cwd, files, inop, alive, panicked, world>>

-----------------------------------------------------------------------------
(* sys_unlink. *)

(* Mutant: "." and ".." are names like the others. *)
IsDot_no(name) == FALSE

IsDot(name) == name \in {".", ".."}

unlink_parent(p) ==
  LET t == th[p]
      e == disk[t.dp].ent[t.path[1]]
  IN /\ At(p, "unlink_parent")
     /\ \/ /\ IsDot(t.path[1]) \/ e = 0
           /\ Set(p, [t EXCEPT !.pc = "unlink_bad"])
           /\ UNCHANGED <<icache, panicked>>
        \/ /\ ~IsDot(t.path[1]) /\ e # 0
           /\ iget(e)
           /\ Set(p, Ilock([t EXCEPT !.ip = e], e, "unlink_child"))
     /\ UNCHANGED <<disk, lock, cwd, files, inop, alive, world>>

(* Mutant: a directory is removed with what is in it. *)
isdirempty_any(i) == TRUE

isdirempty(i) == \A n \in Names : disk[i].ent[n] = 0

(* dp and ip are locked. *)
unlink_child(p) ==
  LET t == th[p]
      isdir == icache[t.ip].type = "dir"
      n == icache[t.dp].nlink - IF isdir THEN 1 ELSE 0
  IN /\ At(p, "unlink_child")
     /\ panicked' = IF icache[t.ip].nlink < 1 THEN "unlink: nlink < 1" ELSE ""
     /\ \/ /\ isdir /\ ~isdirempty(t.ip)
           /\ iunlockput(p, [t EXCEPT !.ip = 0], t.ip, "unlink_bad")
           /\ UNCHANGED <<disk, icache>>
        \/ /\ isdir => isdirempty(t.ip)
           /\ disk' = [disk EXCEPT ![t.dp].ent[t.path[1]] = 0, ![t.dp].nlink = n]
           /\ icache' = [icache EXCEPT ![t.dp].nlink = n]
           /\ iunlockput(p, [t EXCEPT !.dp = 0], t.dp, "unlink_drop")
     /\ UNCHANGED <<cwd, files, inop, alive, world>>

unlink_drop(p) ==
  LET t == th[p]
  IN /\ At(p, "unlink_drop")
     /\ Nlink(t.ip, icache[t.ip].nlink - 1)
     /\ iunlockput(p, [t EXCEPT !.ip = 0], t.ip, "end_op")
     /\ UNCHANGED <<cwd, files, inop, alive, panicked, world>>

unlink_bad(p) ==
  LET t == th[p]
  IN /\ At(p, "unlink_bad")
     /\ iunlockput(p, [t EXCEPT !.dp = 0], t.dp, "end_op")
     /\ UNCHANGED <<disk, icache, cwd, files, inop, alive, panicked, world>>

-----------------------------------------------------------------------------
(* create, for sys_open, sys_mkdir and sys_mknod. *)

CreateType(c) ==
  IF c.op = "mkdir" THEN "dir" ELSE IF c.op = "mknod" THEN "dev" ELSE "file"

(* ialloc takes an inode it finds free; its scan gives up each block before *)
(* it reads the next, so that any free one may be the first it meets.       *)
ialloc(i, type) == [disk EXCEPT ![i] = [type |-> type, nlink |-> 0, ent |-> NoEnt]]

create_parent(p) ==
  LET t == th[p]
      e == Existing(t.dp, t.path[1])
      free == {i \in Inums : disk[i].type = "none"}
  IN /\ At(p, "create_parent")
     /\ \/ /\ e # 0
           /\ iget(e)
           /\ iunlockput(p, [t EXCEPT !.dp = 0, !.ip = e, !.lk = e,
                                      !.k = <<"create_found">> \o @], t.dp, "ilock")
           /\ UNCHANGED <<disk, cwd, files, inop, alive, world>>
        \/ /\ e = 0 /\ free = {}
           /\ panicked' = "ialloc: no inodes"
           /\ UNCHANGED <<inodes, th, cwd, files, inop, alive, world>>
        \/ /\ e = 0
           /\ \E i \in free :
                /\ disk' = ialloc(i, CreateType(t.call))
                /\ iget(i)
                /\ Set(p, Ilock([t EXCEPT !.ip = i], i, "create_new"))
           /\ UNCHANGED <<lock, cwd, files, inop, alive, world>>

(* What a call does with the inode that create returns locked. *)
Created(c) == IF c.op = "open" THEN "open_file" ELSE "created"

create_found(p) ==
  LET t == th[p]
  IN /\ At(p, "create_found")
     /\ \/ /\ CreateType(t.call) = "file" /\ icache[t.ip].type = "file"
           /\ Set(p, [t EXCEPT !.pc = Created(t.call)])
           /\ UNCHANGED lock
        \/ /\ CreateType(t.call) # "file" \/ icache[t.ip].type # "file"
           /\ iunlockput(p, [t EXCEPT !.ip = 0], t.ip, "end_op")
     /\ UNCHANGED <<disk, icache, cwd, files, inop, alive, panicked, world>>

(* dp and ip are locked. *)
create_new(p) ==
  LET t == th[p]
      isdir == CreateType(t.call) = "dir"
      n == icache[t.dp].nlink + IF isdir THEN 1 ELSE 0
      made == [disk EXCEPT ![t.ip].nlink = 1, ![t.dp].nlink = n]
      dots == dirlink(dirlink(made, t.ip, ".", t.ip), t.ip, "..", t.dp)
  IN /\ At(p, "create_new")
     /\ disk' = dirlink(IF isdir THEN dots ELSE made, t.dp, t.path[1], t.ip)
     /\ icache' = [icache EXCEPT ![t.ip].nlink = 1, ![t.dp].nlink = n]
     /\ panicked' = IF disk[t.dp].ent[t.path[1]] # 0 THEN "create: dirlink" ELSE ""
     /\ iunlockput(p, [t EXCEPT !.dp = 0], t.dp, Created(t.call))
     /\ UNCHANGED <<cwd, files, inop, alive, world>>

created(p) ==
  LET t == th[p]
  IN /\ At(p, "created")
     /\ iunlockput(p, [t EXCEPT !.ip = 0], t.ip, "end_op")
     /\ UNCHANGED <<disk, icache, cwd, files, inop, alive, panicked, world>>

-----------------------------------------------------------------------------
(* sys_open, sys_chdir, exec, once ip is locked. *)

open_locked(p) ==
  LET t == th[p]
  IN /\ At(p, "open_locked")
     /\ \/ /\ icache[t.ip].type = "dir" /\ t.call.mode # "read"
           /\ iunlockput(p, [t EXCEPT !.ip = 0], t.ip, "end_op")
        \/ /\ ~(icache[t.ip].type = "dir" /\ t.call.mode # "read")
           /\ Set(p, [t EXCEPT !.pc = "open_file"])
           /\ UNCHANGED lock
     /\ UNCHANGED <<disk, icache, cwd, files, inop, alive, panicked, world>>

FreeFiles == {f \in Files : ftable[f].ref = 0}
FreeFds(p) == {d \in Fds : ofile[p][d] = 0}

(* filealloc, under ftable.lock. *)
open_file(p) ==
  LET t == th[p]
  IN /\ At(p, "open_file")
     /\ \/ /\ FreeFiles = {}
           /\ Set(p, [t EXCEPT !.pc = "open_bad"])
           /\ UNCHANGED ftable
        \/ /\ FreeFiles # {}
           /\ ftable' = [ftable EXCEPT ![Min(FreeFiles)].ref = 1]
           /\ Set(p, [t EXCEPT !.pc = "open_fd", !.f = Min(FreeFiles)])
     /\ UNCHANGED <<inodes, cwd, ofile, inop, alive, panicked, world>>

(* fdalloc; a descriptor of the process is its own. *)
open_fd(p) ==
  LET t == th[p]
      d == Min(FreeFds(p))
  IN /\ At(p, "open_fd")
     /\ \/ /\ FreeFds(p) = {}
           /\ Set(p, Fileclose(t, t.f, "open_bad"))
           /\ UNCHANGED <<lock, ofile>>
        \/ /\ FreeFds(p) # {}
           /\ ofile' = [ofile EXCEPT ![p][d] = t.f]
           /\ lock' = Unlocked(t.ip)
           /\ Set(p, [t EXCEPT !.pc = "open_end", !.f = 0, !.d = d])
     /\ UNCHANGED <<disk, icache, cwd, ftable, inop, alive, panicked, world>>

(* Mutant: sys_open unlocks the inode and forgets to put it. *)
open_bad_leak(p) ==
  LET t == th[p]
  IN /\ At(p, "open_bad")
     /\ lock' = Unlocked(t.ip)
     /\ Set(p, [t EXCEPT !.pc = "end_op", !.ip = 0])
     /\ UNCHANGED <<disk, icache, cwd, files, inop, alive, panicked, world>>

open_bad(p) ==
  LET t == th[p]
  IN /\ At(p, "open_bad")
     /\ iunlockput(p, [t EXCEPT !.ip = 0], t.ip, "end_op")
     /\ UNCHANGED <<disk, icache, cwd, files, inop, alive, panicked, world>>

(* end_op, and then the file's fields: no other process has the file yet. *)
open_end(p) ==
  LET t == th[p]
  IN /\ At(p, "open_end")
     /\ inop' = inop \ {p}
     /\ ftable' = [ftable EXCEPT ![ofile[p][t.d]].type = "inode",
                                 ![ofile[p][t.d]].ip = t.ip]
     /\ Set(p, Idle)
     /\ UNCHANGED <<inodes, cwd, ofile, alive, panicked, world>>

chdir_locked(p) ==
  LET t == th[p]
  IN /\ At(p, "chdir_locked")
     /\ \/ /\ icache[t.ip].type # "dir"
           /\ iunlockput(p, [t EXCEPT !.ip = 0], t.ip, "end_op")
           /\ UNCHANGED cwd
        \/ /\ icache[t.ip].type = "dir"
           /\ lock' = Unlocked(t.ip)
           /\ Set(p, Iput(t, cwd[p], "chdir_end"))
           /\ cwd' = [cwd EXCEPT ![p] = 0]
     /\ UNCHANGED <<disk, icache, files, inop, alive, panicked, world>>

chdir_end(p) ==
  LET t == th[p]
  IN /\ At(p, "chdir_end")
     /\ inop' = inop \ {p}
     /\ cwd' = [cwd EXCEPT ![p] = t.ip]
     /\ Set(p, Idle)
     /\ UNCHANGED <<inodes, files, alive, panicked, world>>

(* exec reads the program and lets go of it, whether it likes it or not; *)
(* its memory is in Memory.                                              *)
exec_locked(p) ==
  LET t == th[p]
  IN /\ At(p, "exec_locked")
     /\ iunlockput(p, [t EXCEPT !.ip = 0], t.ip, "end_op")
     /\ UNCHANGED <<disk, icache, cwd, files, inop, alive, panicked, world>>

-----------------------------------------------------------------------------
(* file.c. *)

(* The last close of an inode goes on to begin_op, iput, end_op. *)
fileclose(p) ==
  LET t == th[p]
      f == ftable[t.f]
  IN /\ At(p, "fileclose")
     /\ panicked' = IF f.ref < 1 THEN "fileclose" ELSE ""
     /\ ftable' = [ftable EXCEPT ![t.f] =
                     IF f.ref = 1 THEN [ref |-> 0, type |-> "none", ip |-> 0]
                     ELSE [f EXCEPT !.ref = @ - 1]]
     /\ Set(p, IF f.ref = 1 /\ f.type = "inode"
                 THEN [t EXCEPT !.f = 0, !.put = f.ip, !.pc = "close_put"]
                 ELSE Ret([t EXCEPT !.f = 0]))
     /\ UNCHANGED <<inodes, cwd, ofile, inop, alive, world>>

close_put(p) ==
  LET t == th[p]
  IN /\ At(p, "close_put")
     /\ inop' = inop \cup {p}
     /\ Set(p, Iput(t, t.put, "end_op"))
     /\ UNCHANGED <<inodes, cwd, files, alive, panicked, world>>

(* The calls on descriptors; argfd refuses one that is not open. *)
argfd(p) == Fds \ FreeFds(p)
filedup(f) == [ftable EXCEPT ![f].ref = @ + 1]
Calls(p, op) ==
  /\ At(p, "out") /\ p \in alive
  /\ \E c \in menu : c.op = op

sys_close(p) ==
  \E d \in argfd(p) :
    /\ Calls(p, "close")
    /\ ofile' = [ofile EXCEPT ![p][d] = 0]
    /\ Set(p, [Idle EXCEPT !.pc = "fileclose", !.f = ofile[p][d]])
    /\ UNCHANGED <<inodes, cwd, ftable, inop, alive, panicked, world>>

sys_dup(p) ==
  \E d \in argfd(p) :
    /\ Calls(p, "dup")
    /\ FreeFds(p) # {}
    /\ ofile' = [ofile EXCEPT ![p][Min(FreeFds(p))] = ofile[p][d]]
    /\ ftable' = filedup(ofile[p][d])
    /\ UNCHANGED <<inodes, th, cwd, inop, alive, panicked, world>>

(* fileread, filestat and, in a transaction, filewrite lock the inode. *)
sys_rw(p) ==
  \E d \in argfd(p), w \in BOOLEAN :
    /\ Calls(p, IF w THEN "write" ELSE "read")
    /\ ftable[ofile[p][d]].type = "inode"
    /\ inop' = IF w THEN inop \cup {p} ELSE inop
    /\ Set(p, Ilock([Idle EXCEPT !.d = d, !.k = IF w THEN <<"end_op">> ELSE <<>>],
                    ftable[ofile[p][d]].ip, "rw_locked"))
    /\ UNCHANGED <<inodes, cwd, files, alive, panicked, world>>

rw_locked(p) ==
  LET t == th[p]
  IN /\ At(p, "rw_locked")
     /\ lock' = Unlocked(ftable[ofile[p][t.d]].ip)
     /\ Set(p, Ret(t))
     /\ UNCHANGED <<disk, icache, cwd, files, inop, alive, panicked, world>>

-----------------------------------------------------------------------------
(* sys_pipe: pipealloc takes two files and a page; the pipe itself is Pipe. *)

sys_pipe(p) ==
  /\ Calls(p, "pipe")
  /\ FreeFiles # {}
  /\ ftable' = [ftable EXCEPT ![Min(FreeFiles)].ref = 1]
  /\ Set(p, [Idle EXCEPT !.pc = "pipe_file", !.f = Min(FreeFiles)])
  /\ UNCHANGED <<inodes, cwd, ofile, inop, alive, panicked, world>>

pipe_file(p) ==
  LET t == th[p]
  IN /\ At(p, "pipe_file")
     /\ \/ /\ FreeFiles = {}
           /\ Set(p, [t EXCEPT !.pc = "fileclose"])
           /\ UNCHANGED ftable
        \/ /\ FreeFiles # {}
           /\ ftable' = [ftable EXCEPT ![Min(FreeFiles)].ref = 1]
           /\ Set(p, [t EXCEPT !.pc = "pipe_kalloc", !.g = Min(FreeFiles)])
     /\ UNCHANGED <<inodes, cwd, ofile, inop, alive, panicked, world>>

(* kalloc may fail; with the page, the files become a pipe's and fdalloc *)
(* needs two descriptors.                                                *)
pipe_kalloc(p) ==
  LET t == th[p]
      d0 == Min(FreeFds(p))
      d1 == Min(FreeFds(p) \ {d0})
      piped == [f \in Files |-> IF f \in {t.f, t.g} THEN [ftable[f] EXCEPT !.type = "pipe"]
                                ELSE ftable[f]]
  IN /\ At(p, "pipe_kalloc")
     /\ \/ /\ Set(p, Fileclose(t, t.f, "pipe_bad"))
           /\ UNCHANGED files
        \/ /\ Cardinality(FreeFds(p)) < 2
           /\ ftable' = piped
           /\ Set(p, Fileclose(t, t.f, "pipe_bad"))
           /\ UNCHANGED ofile
        \/ /\ Cardinality(FreeFds(p)) > 1
           /\ ftable' = piped
           /\ ofile' = [ofile EXCEPT ![p][d0] = t.f, ![p][d1] = t.g]
           /\ Set(p, Idle)
     /\ UNCHANGED <<inodes, cwd, inop, alive, panicked, world>>

pipe_bad(p) ==
  LET t == th[p]
  IN /\ At(p, "pipe_bad")
     /\ Set(p, [t EXCEPT !.pc = "fileclose", !.f = t.g, !.g = 0])
     /\ UNCHANGED <<inodes, cwd, files, inop, alive, panicked, world>>

-----------------------------------------------------------------------------
(* proc.c: what fork and exit do with files and the current directory. *)

fork(p) ==
  \E q \in Procs \ alive :
    /\ Calls(p, "fork") /\ th[q] = Idle
    /\ ofile' = [ofile EXCEPT ![q] = ofile[p]]
    /\ ftable' = [f \in Files |->
                    [ftable[f] EXCEPT !.ref = @ + Cardinality({d \in Fds : ofile[p][d] = f})]]
    /\ icache' = [icache EXCEPT ![cwd[p]].ref = @ + 1]
    /\ cwd' = [cwd EXCEPT ![q] = cwd[p]]
    /\ alive' = alive \cup {q}
    /\ UNCHANGED <<disk, lock, th, inop, panicked, world>>

sys_exit(p) ==
  /\ Calls(p, "exit")
  /\ Set(p, [Idle EXCEPT !.pc = "exit"])
  /\ UNCHANGED <<inodes, cwd, files, inop, alive, panicked, world>>

(* The descriptors in turn, and then the current directory. *)
exit(p) ==
  LET t == th[p]
      d == Min(Fds \ FreeFds(p))
  IN /\ At(p, "exit")
     /\ \/ /\ FreeFds(p) # Fds
           /\ ofile' = [ofile EXCEPT ![p][d] = 0]
           /\ Set(p, Fileclose(t, ofile[p][d], "exit"))
           /\ UNCHANGED <<cwd, inop, alive>>
        \/ /\ FreeFds(p) = Fds
           /\ inop' = inop \cup {p}
           /\ cwd' = [cwd EXCEPT ![p] = 0]
           /\ alive' = alive \ {p}
           /\ Set(p, Iput(t, cwd[p], "end_op"))
           /\ UNCHANGED ofile
     /\ UNCHANGED <<inodes, ftable, panicked, world>>

-----------------------------------------------------------------------------
(* A crash leaves the disk; the processes of the next boot start afresh. *)
Crash ==
  /\ panicked = "" /\ inop = {} /\ CRASHES
  /\ icache' = Booted
  /\ lock' = [i \in Inums |-> None]
  /\ th' = [p \in Procs |-> Idle]
  /\ cwd' = [p \in Procs |-> ROOTINO]
  /\ ofile' = [p \in Procs |-> [d \in Fds |-> 0]]
  /\ ftable' = [f \in Files |-> [ref |-> 0, type |-> "none", ip |-> 0]]
  /\ alive' = Procs
  /\ UNCHANGED <<disk, inop, panicked, world>>

(* After a panic the machine stands still. *)
Halted == panicked # "" /\ UNCHANGED vars

Step(p) ==
  \/ begin_op(p) \/ end_op(p) \/ namex_locked(p)
  \/ ilock(p) \/ iput(p) \/ iput_free(p) \/ iput_drop(p)
  \/ link_old(p) \/ link_parent(p) \/ link_locked(p) \/ link_done(p)
  \/ link_exists(p) \/ link_bad(p)
  \/ unlink_parent(p) \/ unlink_child(p) \/ unlink_drop(p) \/ unlink_bad(p)
  \/ create_parent(p) \/ create_found(p) \/ create_new(p) \/ created(p)
  \/ open_locked(p) \/ open_file(p) \/ open_fd(p) \/ open_bad(p) \/ open_end(p)
  \/ chdir_locked(p) \/ chdir_end(p) \/ exec_locked(p)
  \/ fileclose(p) \/ close_put(p) \/ sys_close(p) \/ sys_dup(p)
  \/ sys_rw(p) \/ rw_locked(p)
  \/ sys_pipe(p) \/ pipe_file(p) \/ pipe_kalloc(p) \/ pipe_bad(p)
  \/ fork(p) \/ sys_exit(p) \/ exit(p)

Next == Crash \/ Halted \/ \E p \in Procs : Step(p)

Spec == Init /\ [][Next]_vars

-----------------------------------------------------------------------------
(* Properties. *)

(* No call panics, whatever the others do meanwhile: no lookup reaches a    *)
(* freed inode (ilock: no type), no entry is written twice (create:         *)
(* dirlink), no count is taken below one (unlink: nlink < 1, fileclose).    *)
(* Two kinds of panic may come: the inodes run out, on the disk (ialloc) or *)
(* in the cache (iget); and a lookup that is inside a removed directory     *)
(* follows its "..", whose inode has been removed and freed since.          *)
NoPanic ==
  \/ panicked \in {"", "ialloc: no inodes", "iget: no inodes"}
  \/ /\ panicked = "ilock: no type"
     /\ \E i \in dangling : lock[i] # None /\ disk[i].type = "none"

(* fs.c's reference counts are exact at every moment: an entry of icache    *)
(* is counted once for each pointer to it, in a call under way, in a        *)
(* current directory or in an open file, and an entry of ftable once for    *)
(* each descriptor.  A process outside a call holds no inode's lock.        *)
Pointers(i) ==
  Cardinality({p \in Procs : cwd[p] = i})
  + Cardinality({q \in Procs \X {"ip", "dp", "old", "put"} : th[q[1]][q[2]] = i})
  + Cardinality({f \in Files : ftable[f].type = "inode" /\ ftable[f].ip = i})
RefCounts ==
  /\ \A i \in Inums : icache[i].ref = Pointers(i)
  /\ \A f \in Files :
       ftable[f].ref = Cardinality({q \in Procs \X Fds : ofile[q[1]][q[2]] = f})
                       + Cardinality({q \in Procs \X {"f", "g"} : th[q[1]][q[2]] = f})
  /\ \A i \in Inums : lock[i] # None => th[lock[i]].pc # "out"

(* usertests.c, of linkunlink: "another concurrent link/unlink/create test, *)
(* to look for deadlocks."  Of any set of processes, one does not wait for  *)
(* an inode's lock that a process of the set holds.                         *)
Awaits(p) ==
  IF th[p].pc = "ilock" THEN th[p].lk ELSE IF th[p].pc = "iput" THEN th[p].put ELSE 0
Circular(S) ==
  S # {} /\ \A p \in S : Awaits(p) # 0 /\ lock[Awaits(p)] \in S
NoCircularWait == \A S \in SUBSET Procs : ~Circular(S)

(* Processes wait in a circle for inode locks only where one of them puts   *)
(* an inode while it holds the lock of another: create and sys_unlink put   *)
(* the directory (iunlockput(dp)) and hold the inode in it, dirlink puts    *)
(* what a name already stands for and holds the directory, which "." even   *)
(* names itself.  Every other order in which the calls take inode locks is  *)
(* safe.                                                                    *)
PutsUnderLock(p) ==
  /\ th[p].pc = "iput"
  /\ Head(th[p].k) \in {"unlink_drop", "open_file", "created", "link_exists"}
LocksInOrder ==
  \A S \in SUBSET Procs : Circular(S) => \E p \in S : PutsUnderLock(p)

(* When no call is in a transaction, which is what a crash leaves on the    *)
(* disk: every entry of a directory names an allocated inode, and nlink is  *)
(* the number of entries that name the inode, ".." of a directory that has  *)
(* a name included.  A file created in a directory that was already removed *)
(* keeps its count when that directory is freed.                            *)
Links(i) ==
  {e \in Inums \X (AllNames \ {"."}) :
     /\ disk[e[1]].type = "dir"
     /\ disk[e[1]].ent[e[2]] = i
     /\ e[2] = ".." => Attached(e[1])}
Consistent ==
  inop = {} =>
    \A i \in Inums : disk[i].type # "none" =>
      /\ \A n \in Names : disk[i].ent[n] # 0 => disk[disk[i].ent[n]].type # "none"
      /\ IF i \in lost THEN disk[i].nlink >= Cardinality(Links(i))
         ELSE disk[i].nlink = Cardinality(Links(i))

(* A name once in a directory stays there, for the same inode, until it is  *)
(* unlinked, and a directory that holds a name is not unlinked: no step     *)
(* replaces an entry (dirlink) or removes that of a directory with entries  *)
(* (isdirempty).                                                            *)
NoEntryLost ==
  [][\A d \in Inums, n \in Names :
       LET i == disk[d].ent[n]
       IN i # 0 /\ disk'[d].ent[n] # i =>
            /\ disk'[d].ent[n] = 0
            /\ disk[i].type = "dir" => \A m \in Names : disk[i].ent[m] = 0]_vars

(* fs.c, of iput: "If that was the last reference and the inode has no      *)
(* links to it, free the inode (and its content) on disk."                  *)
FreedAtLast ==
  inop = {} =>
    \A i \in Inums : disk[i].type # "none" /\ disk[i].nlink = 0 => icache[i].ref > 0
====
