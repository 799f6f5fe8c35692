------------------------ MODULE PortfolioLockProofs ------------------------
(***************************************************************************)
(* The lock excludes for every set of processes, hosts and pids, as long as *)
(* acquisitions do not overlap or nothing fails.                            *)
(***************************************************************************)
EXTENDS PortfolioLock, TLAPS

\* Either starts are kept apart, or no process dies and no unlink is denied.
Benign == ~Overlap \/ ~Faults

\* The lock path belongs to the one process that may write or hold it, or to a dead
\* one; metadata exists only once its writer has left acquire.
FileOwned ==
    /\ \A p \in Procs : pc[p] = "write" => file = p
    /\ \A p \in Procs : pc[p] \in Owning => file = p /\ p \in complete
    /\ \A p \in Procs : file = p => pc[p] \in {"write", "dead"} \cup Owning
    /\ \A p \in complete : pc[p] \in Owning \cup Over

\* A process about to remove a stale lock has read the metadata of a process of its
\* host that is over; when it unlinks, that file is still the one at the path.
StaleIsOver ==
    /\ \A p \in Procs : pc[p] = "judge" => seen[p] \in complete
    /\ \A p \in Procs : pc[p] \in {"stale_confirm", "stale_unlink"} =>
           /\ seen[p] \in complete /\ pc[seen[p]] \in Over
           /\ Host[seen[p]] = Host[p]
    /\ \A p \in Procs : pc[p] = "stale_unlink" => file = seen[p] /\ ~Overlap

OneAcquires ==
    ~Overlap => \A p, q \in Procs : pc[p] \in Acquiring /\ pc[q] \in Acquiring => p = q

NoDeath == ~Faults => \A p \in Procs : pc[p] # "dead"

LockInv == TypeOK /\ FileOwned /\ StaleIsOver /\ OneAcquires /\ NoDeath

-----------------------------------------------------------------------------

\* The variables keep their types: the retry counter of a denied unlink never passes
\* LOCK_UNLINK_ATTEMPTS, because the last attempt raises.
CountInv ==
    /\ TypeOK
    /\ \A p \in Procs : pc[p] \in {"stale_confirm", "stale_unlink", "own_confirm", "own_unlink"}
           => tries[p] < MaxAttempts

LEMMA InitCount == Init => CountInv
  BY LockAssumption DEF Init, CountInv, TypeOK

LEMMA StepCount == CountInv /\ [Next]_vars => CountInv'
<1>. SUFFICES ASSUME CountInv, [Next]_vars PROVE CountInv'
  OBVIOUS
<1>. USE LockAssumption DEF CountInv, TypeOK, Goto, Acquiring, Owning, Over
<1>1. ASSUME NEW p \in Procs, Start(p) PROVE CountInv'
  BY <1>1 DEF Start
<1>2. ASSUME NEW p \in Procs, Create(p) PROVE CountInv'
  BY <1>2 DEF Create
<1>3. ASSUME NEW p \in Procs, CreateDenied(p) PROVE CountInv'
  BY <1>3 DEF CreateDenied
<1>4. ASSUME NEW p \in Procs, ReadExisting(p) PROVE CountInv'
  BY <1>4 DEF ReadExisting, Metadata
<1>5. ASSUME NEW p \in Procs, Judge(p) PROVE CountInv'
  BY <1>5 DEF Judge
<1>6. ASSUME NEW p \in Procs, StaleConfirm(p) PROVE CountInv'
  BY <1>6 DEF StaleConfirm
<1>7. ASSUME NEW p \in Procs, StaleUnlink(p) PROVE CountInv'
  BY <1>7 DEF StaleUnlink
<1>8. ASSUME NEW p \in Procs, WriteMetadata(p) PROVE CountInv'
  BY <1>8 DEF WriteMetadata
<1>9. ASSUME NEW p \in Procs, Release(p) PROVE CountInv'
  BY <1>9 DEF Release
<1>10. ASSUME NEW p \in Procs, OwnConfirm(p) PROVE CountInv'
  BY <1>10 DEF OwnConfirm
<1>11. ASSUME NEW p \in Procs, OwnUnlink(p) PROVE CountInv'
  BY <1>11 DEF OwnUnlink
<1>12. ASSUME NEW p \in Procs, UnlinkDenied(p) PROVE CountInv'
  BY <1>12 DEF UnlinkDenied, DeniedAgain
<1>13. ASSUME NEW p \in Procs, Die(p) PROVE CountInv'
  BY <1>13 DEF Die
<1>14. CASE UNCHANGED vars
  BY <1>14 DEF vars
<1>. QED
  BY <1>1, <1>2, <1>3, <1>4, <1>5, <1>6, <1>7, <1>8, <1>9, <1>10, <1>11, <1>12, <1>13,
     <1>14 DEF Next, Step, Acquire

THEOREM LockTypeCorrect == Spec => []TypeOK
<1>1. CountInv => TypeOK
  BY DEF CountInv
<1>. QED
  BY <1>1, InitCount, StepCount, PTL DEF Spec

-----------------------------------------------------------------------------

LEMMA InitLock == Init => LockInv
<1>1. Init => TypeOK
  BY LockAssumption DEF Init, TypeOK
<1>. QED
  BY <1>1, LockAssumption DEF Init, LockInv, FileOwned, StaleIsOver, OneAcquires, NoDeath,
     Acquiring, Owning, Over

LEMMA StepLock ==
  ASSUME Benign, LockInv, TypeOK', [Next]_vars
  PROVE  LockInv'
<1>. USE LockAssumption DEF Benign, LockInv, FileOwned, StaleIsOver, OneAcquires, NoDeath,
         TypeOK, Goto, Acquiring, Owning, Over
<1>1. ASSUME NEW p \in Procs, Start(p) PROVE LockInv'
  BY <1>1 DEF Start
<1>2. ASSUME NEW p \in Procs, Create(p) PROVE LockInv'
  BY <1>2 DEF Create, Live
<1>3. ASSUME NEW p \in Procs, CreateDenied(p) PROVE LockInv'
  BY <1>3 DEF CreateDenied
<1>4. ASSUME NEW p \in Procs, ReadExisting(p) PROVE LockInv'
  BY <1>4 DEF ReadExisting, Metadata
<1>5. ASSUME NEW p \in Procs, Judge(p) PROVE LockInv'
  BY <1>5 DEF Judge, Stale, PidAlive, Live
<1>6. ASSUME NEW p \in Procs, StaleConfirm(p) PROVE LockInv'
  BY <1>6 DEF StaleConfirm, Metadata
<1>7. ASSUME NEW p \in Procs, StaleUnlink(p) PROVE LockInv'
  BY <1>7 DEF StaleUnlink
<1>8. ASSUME NEW p \in Procs, WriteMetadata(p) PROVE LockInv'
  BY <1>8 DEF WriteMetadata
<1>9. ASSUME NEW p \in Procs, Release(p) PROVE LockInv'
  BY <1>9 DEF Release, Metadata
<1>10. ASSUME NEW p \in Procs, OwnConfirm(p) PROVE LockInv'
  BY <1>10 DEF OwnConfirm, Metadata
<1>11. ASSUME NEW p \in Procs, OwnUnlink(p) PROVE LockInv'
  BY <1>11 DEF OwnUnlink
<1>12. ASSUME NEW p \in Procs, UnlinkDenied(p) PROVE LockInv'
  BY <1>12 DEF UnlinkDenied, DeniedAgain
<1>13. ASSUME NEW p \in Procs, Die(p) PROVE LockInv'
  BY <1>13 DEF Die, Live
<1>14. CASE UNCHANGED vars
  BY <1>14 DEF vars
<1>. QED
  BY <1>1, <1>2, <1>3, <1>4, <1>5, <1>6, <1>7, <1>8, <1>9, <1>10, <1>11, <1>12, <1>13,
     <1>14 DEF Next, Step, Acquire

\* Two processes never own the portfolio files at the same time (README: a second
\* runner or reset fails fast), if starts do not overlap or nothing fails.
THEOREM LockExcludes == ASSUME Benign PROVE Spec => []AtMostOneHolder
<1>1. LockInv => AtMostOneHolder
  BY DEF LockInv, FileOwned, AtMostOneHolder
<1>2. LockInv /\ TypeOK' /\ [Next]_vars => LockInv'
  BY StepLock
<1>. QED
  BY <1>1, <1>2, InitLock, LockTypeCorrect, PTL DEF Spec

\* The file of a live process, of another host, or without metadata is never removed by
\* anybody else (README: such locks are left in place), under the same condition.
THEOREM LockOnlyStaleRemoved == ASSUME Benign PROVE Spec => OnlyStaleRemoved
<1> DEFINE Removal(q) ==
        \/ pc[q] = "own_unlink" /\ pc'[q] = "released"
        \/ /\ pc[q] \in Over /\ q \in complete
           /\ \E p \in Procs :
                  /\ pc[p] = "stale_unlink" /\ pc'[p] = "create"
                  /\ seen[p] = q /\ Host[p] = Host[q]
<1>1. ASSUME LockInv, [Next]_vars, NEW q \in Procs, file = q, file' # q
      PROVE  Removal(q)
  <2>. USE <1>1, LockAssumption DEF LockInv, TypeOK, Goto
  <2>1. CASE \E p \in Procs : StaleUnlink(p)
    <3>1. PICK p \in Procs : StaleUnlink(p)
      BY <2>1
    <3>2. seen[p] = q /\ pc[q] \in Over /\ q \in complete /\ Host[p] = Host[q]
      BY <3>1 DEF StaleUnlink, StaleIsOver
    <3>. QED
      BY <3>1, <3>2 DEF StaleUnlink
  <2>2. CASE \E p \in Procs : OwnUnlink(p)
    BY <2>2 DEF OwnUnlink, FileOwned, Owning
  <2>3. CASE \E p \in Procs : Create(p)
    BY <2>3 DEF Create
  <2>4. CASE file' = file
    BY <2>4
  <2>. QED
    BY <2>1, <2>2, <2>3, <2>4 DEF Next, Step, Acquire, vars, Start, CreateDenied,
       ReadExisting, Judge, StaleConfirm, WriteMetadata, Release, OwnConfirm, UnlinkDenied,
       DeniedAgain, Die
<1>2. LockInv /\ [Next]_vars => [\A q \in Procs : file = q /\ file' # q => Removal(q)]_vars
  BY <1>1
<1>3. LockInv /\ TypeOK' /\ [Next]_vars => LockInv'
  BY StepLock
<1>. QED
  BY <1>2, <1>3, InitLock, LockTypeCorrect, PTL DEF Spec, OnlyStaleRemoved

=============================================================================
