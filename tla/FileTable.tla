----------------------------- MODULE FileTable ------------------------------
(***************************************************************************)
(* Open files: the table of kernel/file.c, the descriptors of each process *)
(* and the calls of kernel/sysfile.c, kernel/pipe.c, kernel/socket.c and   *)
(* kernel/proc.c that allocate, share and close files.                     *)
(*                                                                         *)
(* An action is a section under ftable.lock together with the changes to   *)
(* the caller's own descriptors next to it.  A file that is closed for the *)
(* last time is emptied under the lock and its object (pipe end, inode or  *)
(* socket) is closed afterwards, from a copy.                              *)
(***************************************************************************)
EXTENDS Naturals, Sequences, FiniteSets

CONSTANTS
    Proc,   \* slots of the process table
    Init1,  \* the first process
    NFILE, NOFILE,
    NPIPE,  \* pages that kalloc() has for pipes
    Calls   \* the system calls that programs make

VARIABLES
    live,     \* processes that have not called exit()
    ref,      \* f->ref
    what,     \* f->type and the object that the file refers to
    ofile,    \* p->ofile
    pc, toclose, \* the files on which the process is about to call fileclose()
    ff,       \* the copy of the file in fileclose()
    rf, wf,   \* files of the pipe() or connect() under way, 0 when none
    kid, at,  \* the child of a fork() under way, and the next descriptor of it
    ends,     \* open ends of each pipe, {} for a page that is free
    iref,     \* references to the inode that programs open
    panicked

objVars == <<ends, iref>>
vars    == <<live, ref, what, ofile, pc, toclose, ff, rf, wf, kid, at,
             objVars, panicked>>

File == 1 .. NFILE
Fd   == 0 .. NOFILE - 1
Pipe == 1 .. NPIPE

Obj(t, k, e) == [type |-> t, id |-> k, end |-> e]
None   == Obj("FD_NONE", 0, "-")
Inode  == Obj("FD_INODE", 0, "-")
Socket == Obj("FD_SOCKET", 0, "-")

Init ==
    /\ live = {Init1}
    /\ ref = [f \in File |-> 0]
    /\ what = [f \in File |-> None]
    /\ ofile = [p \in Proc |-> [d \in Fd |-> 0]]
    /\ pc = [p \in Proc |-> "user"]
    /\ toclose = [p \in Proc |-> <<>>]
    /\ ff = [p \in Proc |-> None]
    /\ rf = [p \in Proc |-> 0]
    /\ wf = [p \in Proc |-> 0]
    /\ kid = [p \in Proc |-> {}]
    /\ at = [p \in Proc |-> 0]
    /\ ends = [k \in Pipe |-> {}]
    /\ iref = 0
    /\ panicked = 0

Lowest(S) == CHOOSE i \in S : \A j \in S : i <= j

FreeFiles == {f \in File : ref[f] = 0}              \* filealloc()
FreeFds(p) == {d \in Fd : ofile[p][d] = 0}          \* fdalloc()

MayCall(p, call) ==
    p \in live /\ pc[p] = "user" /\ panicked = 0 /\ call \in Calls

Goto(p, l) == pc' = [pc EXCEPT ![p] = l]

\* The process goes on to close the files of s.
CloseAll(p, s) == Goto(p, "closing") /\ toclose' = [toclose EXCEPT ![p] = s]

-----------------------------------------------------------------------------
(* open(), dup() and close() *)

OpenOk(p) ==
    /\ MayCall(p, "open") /\ FreeFiles # {} /\ FreeFds(p) # {}
    /\ LET f == Lowest(FreeFiles)
       IN /\ ref' = [ref EXCEPT ![f] = 1]
          /\ what' = [what EXCEPT ![f] = Inode]
          /\ ofile' = [ofile EXCEPT ![p][Lowest(FreeFds(p))] = f]
    /\ iref' = iref + 1
    /\ UNCHANGED <<live, pc, toclose, ff, rf, wf, kid, at, ends, panicked>>

\* A file but no descriptor: fileclose() of a file that has no type yet.
OpenNoFd(p) ==
    /\ MayCall(p, "open") /\ FreeFiles # {} /\ FreeFds(p) = {}
    /\ ref' = [ref EXCEPT ![Lowest(FreeFiles)] = 1]
    /\ CloseAll(p, <<Lowest(FreeFiles)>>)
    /\ UNCHANGED <<live, what, ofile, ff, rf, wf, kid, at, objVars, panicked>>

\* filedup()
RefUnchanged(f, n) == ref
RefPlus(f, n) == [ref EXCEPT ![f] = @ + n]

Dup(p, d) ==
    /\ MayCall(p, "dup") /\ ofile[p][d] # 0 /\ FreeFds(p) # {}
    /\ ofile' = [ofile EXCEPT ![p][Lowest(FreeFds(p))] = ofile[p][d]]
    /\ ref' = RefPlus(ofile[p][d], 1)
    /\ UNCHANGED <<live, what, pc, toclose, ff, rf, wf, kid, at, objVars,
                   panicked>>

Close(p, d) ==
    /\ MayCall(p, "close") /\ ofile[p][d] # 0
    /\ ofile' = [ofile EXCEPT ![p][d] = 0]
    /\ CloseAll(p, <<ofile[p][d]>>)
    /\ UNCHANGED <<live, ref, what, ff, rf, wf, kid, at, objVars, panicked>>

-----------------------------------------------------------------------------
(* fileclose() *)

\* The copy that fileclose() makes before it gives the slot free.
CopyAfterReset(f) == None
Copy(f) == what[f]

FileClose(p) ==
    /\ pc[p] = "closing" /\ panicked = 0 /\ toclose[p] # <<>>
    /\ LET f == Head(toclose[p])
       IN IF ref[f] < 1
          THEN panicked' = 1 /\ UNCHANGED <<ref, what, pc, ff>>
          ELSE /\ ref' = [ref EXCEPT ![f] = @ - 1]
               /\ IF ref[f] > 1
                  THEN UNCHANGED <<what, pc, ff>>
                  ELSE /\ ff' = [ff EXCEPT ![p] = Copy(f)]
                       /\ what' = [what EXCEPT ![f] = None]
                       /\ Goto(p, "object")
               /\ UNCHANGED panicked
    /\ toclose' = [toclose EXCEPT ![p] = Tail(@)]
    /\ UNCHANGED <<live, ofile, rf, wf, kid, at, objVars>>

\* pipeclose() closes one end.
EndsLeftNone(es, e) == {}
EndsLeft(es, e) == es \ {e}

\* pipeclose(), iput() or socket_close() on the copy, without the lock.
CloseObject(p) ==
    /\ pc[p] = "object" /\ panicked = 0
    /\ ends' = IF ff[p].type = "FD_PIPE"
               THEN [ends EXCEPT ![ff[p].id] = EndsLeft(@, ff[p].end)]
               ELSE ends
    /\ iref' = IF ff[p].type = "FD_INODE" THEN iref - 1 ELSE iref
    /\ panicked' = IF ff[p].type = "FD_NONE" THEN 1 ELSE 0
    /\ ff' = [ff EXCEPT ![p] = None]
    /\ Goto(p, "closing")
    /\ UNCHANGED <<live, ref, what, ofile, toclose, rf, wf, kid, at>>

CloseDone(p) ==
    /\ pc[p] = "closing" /\ toclose[p] = <<>> /\ panicked = 0
    /\ Goto(p, "user")
    /\ UNCHANGED <<live, ref, what, ofile, toclose, ff, rf, wf, kid, at,
                   objVars, panicked>>

-----------------------------------------------------------------------------
(* pipe(): pipealloc() takes ftable.lock twice. *)

PipeFirst(p) ==
    /\ MayCall(p, "pipe") /\ FreeFiles # {}
    /\ ref' = [ref EXCEPT ![Lowest(FreeFiles)] = 1]
    /\ rf' = [rf EXCEPT ![p] = Lowest(FreeFiles)]
    /\ Goto(p, "pipe2")
    /\ UNCHANGED <<live, what, ofile, toclose, ff, wf, kid, at, objVars,
                   panicked>>

\* No second file, or no page: the files have no type yet.
PipeBad(p) ==
    /\ pc[p] = "pipe2" /\ panicked = 0
    /\ \/ FreeFiles = {} /\ CloseAll(p, <<rf[p]>>) /\ UNCHANGED ref
       \/ LET f == Lowest(FreeFiles)
          IN /\ FreeFiles # {}
             /\ \A k \in Pipe : ends[k] # {}
             /\ ref' = [ref EXCEPT ![f] = 1]
             /\ CloseAll(p, <<rf[p], f>>)
    /\ rf' = [rf EXCEPT ![p] = 0]
    /\ UNCHANGED <<live, what, ofile, ff, wf, kid, at, objVars, panicked>>

PipeSecond(p, k) ==
    /\ pc[p] = "pipe2" /\ panicked = 0
    /\ FreeFiles # {} /\ ends[k] = {}
    /\ LET f == Lowest(FreeFiles)
       IN /\ ref' = [ref EXCEPT ![f] = 1]
          /\ wf' = [wf EXCEPT ![p] = f]
          /\ what' = [what EXCEPT ![rf[p]] = Obj("FD_PIPE", k, "r"),
                                  ![f] = Obj("FD_PIPE", k, "w")]
    /\ ends' = [ends EXCEPT ![k] = {"r", "w"}]
    /\ Goto(p, "pipe3")
    /\ UNCHANGED <<live, ofile, toclose, ff, rf, kid, at, iref, panicked>>

PipeOk(p) ==
    /\ pc[p] = "pipe3" /\ panicked = 0 /\ Cardinality(FreeFds(p)) >= 2
    /\ LET a == Lowest(FreeFds(p))
           b == Lowest(FreeFds(p) \ {a})
       IN ofile' = [ofile EXCEPT ![p][a] = rf[p], ![p][b] = wf[p]]
    /\ rf' = [rf EXCEPT ![p] = 0]
    /\ wf' = [wf EXCEPT ![p] = 0]
    /\ Goto(p, "user")
    /\ UNCHANGED <<live, ref, what, toclose, ff, kid, at, objVars, panicked>>

\* The files that a failed pipe() closes.
PipeFiles(p) == <<rf[p], wf[p]>>

\* No two descriptors, or copyout() failed: the descriptor taken is reset.
PipeFail(p) ==
    /\ pc[p] = "pipe3" /\ panicked = 0
    /\ CloseAll(p, PipeFiles(p))
    /\ rf' = [rf EXCEPT ![p] = 0]
    /\ wf' = [wf EXCEPT ![p] = 0]
    /\ UNCHANGED <<live, ref, what, ofile, ff, kid, at, objVars, panicked>>

-----------------------------------------------------------------------------
(* connect(): socket_alloc() does not test what filealloc() returns, and   *)
(* sys_connect() tests an unsigned descriptor for being negative.          *)

ConnectAlloc(p) ==
    /\ MayCall(p, "connect") /\ FreeFiles # {}
    /\ ref' = [ref EXCEPT ![Lowest(FreeFiles)] = 1]
    /\ what' = [what EXCEPT ![Lowest(FreeFiles)] = Socket]
    /\ wf' = [wf EXCEPT ![p] = Lowest(FreeFiles)]
    /\ Goto(p, "connect2")
    /\ UNCHANGED <<live, ofile, toclose, ff, rf, kid, at, objVars, panicked>>

\* filealloc() or kalloc() returned 0, which is written through: the page
\* fault ends in the panic of kerneltrap().
ConnectFault(p) ==
    /\ MayCall(p, "connect")
    /\ panicked' = 1
    /\ UNCHANGED <<live, ref, what, ofile, pc, toclose, ff, rf, wf, kid, at,
                   objVars>>

ConnectFd(p) ==
    /\ pc[p] = "connect2" /\ panicked = 0 /\ FreeFds(p) # {}
    /\ ofile' = [ofile EXCEPT ![p][Lowest(FreeFds(p))] = wf[p]]
    /\ wf' = [wf EXCEPT ![p] = 0]
    /\ Goto(p, "user")
    /\ UNCHANGED <<live, ref, what, toclose, ff, rf, kid, at, objVars, panicked>>

\* No descriptor, or the type of socket is unknown: the file is forgotten.
ConnectLost(p) ==
    /\ pc[p] = "connect2" /\ panicked = 0
    /\ wf' = [wf EXCEPT ![p] = 0]
    /\ Goto(p, "user")
    /\ UNCHANGED <<live, ref, what, ofile, toclose, ff, rf, kid, at, objVars,
                   panicked>>

-----------------------------------------------------------------------------
(* fork() and exit() *)

ForkAlloc(p, q) ==
    /\ MayCall(p, "fork") /\ q \notin live /\ pc[q] = "user"
    /\ \A r \in Proc : kid[r] # {q}
    /\ kid' = [kid EXCEPT ![p] = {q}]
    /\ Goto(p, "fork")
    /\ UNCHANGED <<live, ref, what, ofile, toclose, ff, rf, wf, at, objVars,
                   panicked>>

\* One turn of the loop over the parent's descriptors.
ForkDup(p, q) ==
    /\ pc[p] = "fork" /\ panicked = 0 /\ kid[p] = {q} /\ at[p] < NOFILE
    /\ ofile' = [ofile EXCEPT ![q][at[p]] = ofile[p][at[p]]]
    /\ ref' = IF ofile[p][at[p]] = 0 THEN ref
              ELSE RefPlus(ofile[p][at[p]], 1)
    /\ at' = [at EXCEPT ![p] = @ + 1]
    /\ UNCHANGED <<live, what, pc, toclose, ff, rf, wf, kid, objVars, panicked>>

ForkDone(p, q) ==
    /\ pc[p] = "fork" /\ panicked = 0 /\ kid[p] = {q} /\ at[p] = NOFILE
    /\ live' = live \cup {q}
    /\ kid' = [kid EXCEPT ![p] = {}]
    /\ at' = [at EXCEPT ![p] = 0]
    /\ Goto(p, "user")
    /\ UNCHANGED <<ref, what, ofile, toclose, ff, rf, wf, objVars, panicked>>

\* The descriptors in use, in the order in which exit() closes them.
OpenFds(p) ==
    SelectSeq([i \in 1 .. NOFILE |-> ofile[p][i - 1]], LAMBDA f : f # 0)

\* The descriptors are the caller's own: clearing each one after its
\* fileclose(), as exit() does, differs from this only for itself.
Exit(p) ==
    /\ MayCall(p, "exit") /\ p # Init1
    /\ live' = live \ {p}
    /\ ofile' = [ofile EXCEPT ![p] = [d \in Fd |-> 0]]
    /\ CloseAll(p, OpenFds(p))
    /\ UNCHANGED <<ref, what, ff, rf, wf, kid, at, objVars, panicked>>

-----------------------------------------------------------------------------
Next ==
    \E p \in Proc :
        \/ OpenOk(p) \/ OpenNoFd(p)
        \/ \E d \in Fd : Dup(p, d) \/ Close(p, d)
        \/ FileClose(p) \/ CloseObject(p) \/ CloseDone(p)
        \/ PipeFirst(p) \/ PipeBad(p) \/ PipeOk(p) \/ PipeFail(p)
        \/ \E k \in Pipe : PipeSecond(p, k)
        \/ ConnectAlloc(p) \/ ConnectFault(p) \/ ConnectFd(p) \/ ConnectLost(p)
        \/ \E q \in Proc : ForkAlloc(p, q) \/ ForkDup(p, q) \/ ForkDone(p, q)
        \/ Exit(p)

Spec == Init /\ [][Next]_vars

-----------------------------------------------------------------------------
(* Properties. *)

\* The references to f: descriptors, calls under way, and files that a
\* process is about to close.
References(f) ==
      Cardinality({x \in Proc \X Fd : ofile[x[1]][x[2]] = f})
    + Cardinality({p \in Proc : rf[p] = f})
    + Cardinality({p \in Proc : wf[p] = f})
    + Cardinality({x \in Proc \X (1 .. NOFILE + 2) :
                      /\ x[2] <= Len(toclose[x[1]])
                      /\ toclose[x[1]][x[2]] = f})

\* file.c:30-75, sysfile.c:39-40 and proc.c:298-301: a file has as many
\* references as there are descriptors and calls under way that refer to it,
\* so that it is not given up while somebody refers to it and is closed in the
\* end.  The exception is sockets, whose file connect() may lose when it fails:
\* these have as many or more.
RefsExact ==
    panicked = 0 =>
        \A f \in File : /\ ref[f] >= References(f)
                        /\ what[f] # Socket => ref[f] = References(f)

\* file.c:72-80 and pipe.c:58-73: an end of a pipe is open as long as exactly
\* one file stands for it, or one process is closing it from its copy, and
\* the page is not reused while an end is in use.
EndsMatch ==
    \A k \in Pipe, e \in {"r", "w"} :
        Cardinality({f \in File : what[f] = Obj("FD_PIPE", k, e)})
        + Cardinality({p \in Proc : ff[p] = Obj("FD_PIPE", k, e)})
            = IF e \in ends[k] THEN 1 ELSE 0

\* file.c:81-86: every open inode file holds one reference to the inode, and
\* gives it back once.
InodeRefs ==
    iref = Cardinality({f \in File : what[f] = Inode})
           + Cardinality({p \in Proc : ff[p] = Inode})

\* file.c:66-67 and 90-91: fileclose() never finds a file that is closed or
\* that has no type.
NoPanic == panicked = 0
=============================================================================
