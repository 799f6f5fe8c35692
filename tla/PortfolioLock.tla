--------------------------- MODULE PortfolioLock ---------------------------
(***************************************************************************)
(* The lock file of portfolio_lock.py.  `run` and `reset --yes` hold it      *)
(* while they own the paper portfolio.  The file is created exclusively,    *)
(* its metadata is written afterwards, and a file whose writer is dead on    *)
(* the same host is removed by the next process, which reads, judges,        *)
(* confirms and unlinks it in four separate steps.                           *)
(*                                                                          *)
(* A member of Procs is one process from its start to its end, so it stands *)
(* for the token as well, and for the file it may create.                    *)
(***************************************************************************)
EXTENDS Naturals, FiniteSets

CONSTANTS
    Procs,        \* the processes that are ever started
    Host, Pid,    \* functions on Procs: where a process runs, and its pid there
    MaxAttempts,  \* LOCK_UNLINK_ATTEMPTS
    Overlap,      \* two processes may be acquiring at the same time
    Faults,       \* processes may die holding the lock, and an unlink be denied
    NoProc        \* nobody

ASSUME LockAssumption ==
    /\ NoProc \notin Procs
    /\ MaxAttempts \in Nat \ {0}
    /\ Overlap \in BOOLEAN /\ Faults \in BOOLEAN

VARIABLES
    file,      \* the process whose file is at the lock path, or NoProc
    complete,  \* the processes that have written their file's metadata
    pc,        \* where each process is in acquire and release
    seen,      \* the token a process has read from a lock in its way
    tries      \* failed attempts of the current _unlink_lock_matching_token

vars == <<file, complete, pc, seen, tries>>

Acquiring == {"create", "read", "judge", "stale_confirm", "stale_unlink", "write"}
Owning == {"held", "own_confirm", "own_unlink"}
Over == {"released", "refused", "dead"}

Live(p) == pc[p] \in Acquiring \cup Owning

\* The metadata that _read_existing returns, NoProc for {}.
Metadata == IF file \in complete THEN file ELSE NoProc

\* _process_is_alive asks for the pid only: any process that has it now will do.
PidAlive(q) == \E r \in Procs : Live(r) /\ Host[r] = Host[q] /\ Pid[r] = Pid[q]

Goto(p, label) == pc' = [pc EXCEPT ![p] = label]

Init ==
    /\ file = NoProc /\ complete = {}
    /\ pc = [p \in Procs |-> "new"]
    /\ seen = [p \in Procs |-> NoProc]
    /\ tries = [p \in Procs |-> 0]

-----------------------------------------------------------------------------
(* acquire *)

Start(p) ==
    /\ pc[p] = "new"
    /\ \A q \in Procs : Live(q) => Host[q] # Host[p] \/ Pid[q] # Pid[p]
    /\ Overlap \/ \A q \in Procs : pc[q] \notin Acquiring
    /\ Goto(p, "create")
    /\ UNCHANGED <<file, complete, seen, tries>>

\* os.open with O_CREAT | O_EXCL
Create(p) ==
    /\ pc[p] = "create"
    /\ IF file = NoProc THEN file' = p /\ Goto(p, "write")
                        ELSE file' = file /\ Goto(p, "read")
    /\ UNCHANGED <<complete, seen, tries>>

CreateDenied(p) ==
    /\ pc[p] = "create" /\ Faults
    /\ Goto(p, "refused")
    /\ UNCHANGED <<file, complete, seen, tries>>

\* The file that was in the way: gone, or without metadata, it counts as locked.
ReadExisting(p) ==
    /\ pc[p] = "read"
    /\ seen' = [seen EXCEPT ![p] = Metadata]
    /\ Goto(p, IF Metadata = NoProc THEN "refused" ELSE "judge")
    /\ UNCHANGED <<file, complete, tries>>

\* Mutant: the lock of another host is judged by the pid alone.
StaleAnyHost(p) == ~PidAlive(seen[p])

\* Mutant: a lock of this host counts as stale while its process runs.
StaleWhileAlive(p) == Host[seen[p]] = Host[p]

\* _is_stale_same_host_lock
Stale(p) == Host[seen[p]] = Host[p] /\ ~PidAlive(seen[p])

Judge(p) ==
    /\ pc[p] = "judge"
    /\ Goto(p, IF Stale(p) THEN "stale_confirm" ELSE "refused")
    /\ tries' = [tries EXCEPT ![p] = 0]
    /\ UNCHANGED <<file, complete, seen>>

\* The token is read again; another token means that the lock was not removed.
StaleConfirm(p) ==
    /\ pc[p] = "stale_confirm"
    /\ Goto(p, IF Metadata = seen[p] THEN "stale_unlink" ELSE "refused")
    /\ UNCHANGED <<file, complete, seen, tries>>

\* The path is unlinked, whatever file is there by now; none is as good.
StaleUnlink(p) ==
    /\ pc[p] = "stale_unlink"
    /\ file' = NoProc
    /\ Goto(p, "create")
    /\ UNCHANGED <<complete, seen, tries>>

WriteMetadata(p) ==
    /\ pc[p] = "write"
    /\ complete' = complete \cup {p}
    /\ Goto(p, "held")
    /\ UNCHANGED <<file, seen, tries>>

-----------------------------------------------------------------------------
(* release *)

Release(p) ==
    /\ pc[p] = "held"
    /\ Goto(p, IF Metadata = p THEN "own_confirm" ELSE "released")
    /\ tries' = [tries EXCEPT ![p] = 0]
    /\ UNCHANGED <<file, complete, seen>>

OwnConfirm(p) ==
    /\ pc[p] = "own_confirm"
    /\ Goto(p, IF Metadata = p THEN "own_unlink" ELSE "released")
    /\ UNCHANGED <<file, complete, seen, tries>>

OwnUnlink(p) ==
    /\ pc[p] = "own_unlink"
    /\ file' = NoProc
    /\ Goto(p, "released")
    /\ UNCHANGED <<complete, seen, tries>>

-----------------------------------------------------------------------------
(* faults *)

\* Mutant: denied attempts are not counted.
DeniedAgainUncounted(p, confirm) ==
    /\ Goto(p, confirm)
    /\ tries' = tries

\* Mutant: one attempt more than LOCK_UNLINK_ATTEMPTS.
DeniedAgainOneMore(p, confirm) ==
    /\ tries' = [tries EXCEPT ![p] = @ + 1]
    /\ Goto(p, IF tries[p] + 1 > MaxAttempts THEN "dead" ELSE confirm)

\* A PermissionError is retried, from the token check on; the last one is raised and
\* ends the process with the lock file in place.
DeniedAgain(p, confirm) ==
    /\ tries' = [tries EXCEPT ![p] = @ + 1]
    /\ Goto(p, IF tries[p] + 1 >= MaxAttempts THEN "dead" ELSE confirm)

UnlinkDenied(p) ==
    /\ Faults
    /\ \/ pc[p] = "stale_unlink" /\ DeniedAgain(p, "stale_confirm")
       \/ pc[p] = "own_unlink" /\ DeniedAgain(p, "own_confirm")
    /\ UNCHANGED <<file, complete, seen>>

Die(p) ==
    /\ Faults /\ Live(p)
    /\ Goto(p, "dead")
    /\ UNCHANGED <<file, complete, seen, tries>>

-----------------------------------------------------------------------------

Acquire(p) ==
    \/ Create(p) \/ ReadExisting(p) \/ Judge(p)
    \/ StaleConfirm(p) \/ StaleUnlink(p) \/ WriteMetadata(p)

Step(p) ==
    \/ Start(p) \/ Acquire(p) \/ CreateDenied(p)
    \/ Release(p) \/ OwnConfirm(p) \/ OwnUnlink(p)
    \/ UnlinkDenied(p) \/ Die(p)

Next == \E p \in Procs : Step(p)

Spec == Init /\ [][Next]_vars

\* A process in acquire is scheduled until it has the lock or gives up.
FairSpec == Spec /\ \A p \in Procs : WF_vars(Acquire(p) \/ UnlinkDenied(p))

-----------------------------------------------------------------------------
(* Properties *)

\* Every variable has its type.
TypeOK ==
    /\ file \in Procs \cup {NoProc}
    /\ complete \subseteq Procs
    /\ pc \in [Procs -> Acquiring \cup Owning \cup Over \cup {"new"}]
    /\ seen \in [Procs -> Procs \cup {NoProc}]
    /\ tries \in [Procs -> 0 .. MaxAttempts]

\* README: a second runner or reset fails fast while the lock is active.  No two
\* processes own the portfolio files at the same time.
AtMostOneHolder ==
    \A p, q \in Procs : pc[p] \in Owning /\ pc[q] \in Owning => p = q

\* README: locks from another host or with unverifiable metadata are left in place.
\* A lock file disappears only through its live owner's release, or because its writer
\* is over and a process of the same host, which read its metadata, removes it.
OnlyStaleRemoved ==
    [][\A q \in Procs : file = q /\ file' # q =>
           \/ pc[q] = "own_unlink" /\ pc'[q] = "released"
           \/ /\ pc[q] \in Over /\ q \in complete
              /\ \E p \in Procs :
                     /\ pc[p] = "stale_unlink" /\ pc'[p] = "create"
                     /\ seen[p] = q /\ Host[p] = Host[q]]_vars

\* README: if a lock belongs to a dead process on the same host, the runner removes it
\* and continues.  A process that has read the metadata of such a lock is not refused.
DeadOwnerNotRefused ==
    [][\A p \in Procs : pc[p] = "judge" /\ pc'[p] = "refused" =>
           Live(seen[p]) \/ Host[seen[p]] # Host[p]]_vars

\* README: fails fast.  acquire() loops without a bound, and still every start ends
\* with the lock or with an error.
StartDecides == \A p \in Procs : pc[p] \in Acquiring ~> pc[p] \notin Acquiring

=============================================================================
