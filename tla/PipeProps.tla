----------------------------- MODULE PipeProps ------------------------------
(***************************************************************************)
(* What pipes and the descriptor tables promise.                           *)
(***************************************************************************)
EXTENDS Pipe

\* TypeOK: counters stay within the width of the code's unsigned fields, and
\* a suspended call names a file and a page (struct file, struct pipe).
TypeOK ==
    /\ used \in [Procs -> BOOLEAN]
    /\ fdt \in [Procs \X Fds -> Files \cup {None}]
    /\ ref \in [Files -> Nat]
    /\ type \in [Files -> {"FD_NONE", "FD_PIPE"}]
    /\ writable \in [Files -> {0, 1}]
    /\ fpipe \in [Files -> Pages \cup {None}]
    /\ live \in [Pages -> BOOLEAN]
    /\ readopen \in [Pages -> {0, 1}]
    /\ writeopen \in [Pages -> {0, 1}]
    /\ nread \in [Pages -> 0 .. COUNTER_MOD - 1]
    /\ nwrite \in [Pages -> 0 .. COUNTER_MOD - 1]
    /\ data \in [Pages -> [Slots -> Nat]]
    /\ sent \in [Pages -> Nat]
    /\ got \in [Pages -> Nat]
    /\ \A t \in Threads :
          op[t] = Idle \/ (op[t].kind \in {"read", "write"} /\ op[t].file \in Files
                           /\ op[t].pipe \in Pages /\ op[t].left \in Nat \ {0})
    /\ cut \subseteq Threads
    /\ panicked \in BOOLEAN

\* StreamIntact: the bytes between nread and nwrite of a live pipe are exactly
\* the ones written and not yet read, in the order they were written, never
\* more than PIPESIZE of them: pipewrite overwrites no unread byte, and
\* piperead delivers none twice, when the counters wrap too.
StreamIntact ==
    \A g \in Pages : live[g] =>
        /\ sent[g] - got[g] \in 0 .. PIPESIZE
        /\ Avail(g) = sent[g] - got[g]
        /\ \A i \in 0 .. Avail(g) - 1 : data[g][(nread[g] + i) % PIPESIZE] = got[g] + i + 1

Holders(f) == {x \in Procs \X Fds : used[x[1]] /\ fdt[x] = f}

\* NoDanglingFd: what a process's descriptor names stays an open pipe end, with
\* a reference for every descriptor, however fork and close interleave.
NoDanglingFd ==
    \A f \in Files : Holders(f) # {} =>
        /\ ref[f] >= Cardinality(Holders(f))
        /\ type[f] = "FD_PIPE"
        /\ live[fpipe[f]]

OpenOn(g, w) == \E f \in Files : ref[f] > 0 /\ fpipe[f] = g /\ writable[f] = w

\* EndsTruth: readopen and writeopen of a live pipe say which of its ends some
\* file still is, and a freed page is named by no open file.
EndsTruth ==
    \A g \in Pages :
        IF live[g]
        THEN /\ readopen[g] = 1 <=> OpenOn(g, 0)
             /\ writeopen[g] = 1 <=> OpenOn(g, 1)
             /\ OpenOn(g, 0) \/ OpenOn(g, 1)
        ELSE ~OpenOn(g, 0) /\ ~OpenOn(g, 1)

\* FilesTrue: descriptors, open files and pipe ends agree with each other, however
\* pipe, fork, close and exit interleave (filealloc, fileclose, pipeclose).
FilesTrue == TypeOK /\ NoDanglingFd /\ EndsTruth

\* SuspendedSafe: the pipe a thread goes on with after the yield inside
\* pipewrite or piperead is the one it was called on, not freed memory and not
\* another pipe in the same page, as long as no thread of its own process
\* closed the descriptor meanwhile; other processes may do what they like.
SuspendedSafe ==
    \A t \in Threads : op[t] # Idle /\ t \notin cut =>
        /\ live[op[t].pipe]
        /\ ref[op[t].file] > 0
        /\ fpipe[op[t].file] = op[t].pipe
=============================================================================
