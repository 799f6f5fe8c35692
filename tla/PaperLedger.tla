---------------------------- MODULE PaperLedger ----------------------------
(***************************************************************************)
(* What the saved paper portfolio promises, whatever the runner does: one   *)
(* durable ledger that moves by whole transactions.  At most one execution  *)
(* is open; it enters the history once, when it closes, or leaves no trace; *)
(* and trades, redemptions and settlements turn money into holdings and     *)
(* results and back without making or losing any.                           *)
(***************************************************************************)
EXTENDS Integers, Sequences

CONSTANTS Capital,  \* the starting capital
          Nobody    \* no execution is open

VARIABLES
    money,    \* cash
    basis,    \* cost basis of what is held
    result,   \* realized result
    open,     \* the id of the open execution, or Nobody
    filled,   \* part of the open execution was traded
    history   \* ids of the recorded executions

ledger == <<money, basis, result, open, filled, history>>

Balanced == money + basis = Capital + result

InHistory(id) == \E i \in DOMAIN history : history[i] = id

\* A ledger may be handed over by an earlier version, in balance.
LedgerInit == Balanced

\* Money moves, never to less cash, and the books balance afterwards.
Move == money' >= money /\ Balanced'

Hold == UNCHANGED <<money, basis, result>>

Open ==
    /\ open = Nobody /\ open' # Nobody /\ ~InHistory(open')
    /\ ~filled'
    /\ Hold /\ UNCHANGED history

Fill == open # Nobody /\ filled' /\ Move /\ UNCHANGED <<open, history>>

Close ==
    /\ open # Nobody /\ filled /\ ~InHistory(open)
    /\ open' = Nobody /\ ~filled' /\ history' = Append(history, open)
    /\ Hold

\* Only an execution that traded nothing, or is in the history, leaves without trace.
Drop ==
    /\ open # Nobody /\ (filled => InHistory(open))
    /\ open' = Nobody /\ ~filled'
    /\ Hold /\ UNCHANGED history

\* One execution in one transaction, possibly while another one is open.
Trade ==
    /\ history' # <<>>
    /\ LET id == history'[Len(history')]
       IN  ~InHistory(id) /\ id # open /\ history' = Append(history, id)
    /\ Move /\ UNCHANGED <<open, filled>>

Settle == Move /\ UNCHANGED <<open, filled, history>>

Wipe == /\ money' = Capital /\ basis' = 0 /\ result' = 0
        /\ open' = Nobody
        /\ ~filled' /\ history' = <<>>

LedgerNext == Open \/ Fill \/ Close \/ Drop \/ Trade \/ Settle \/ Wipe

LedgerSpec == LedgerInit /\ [][LedgerNext]_ledger

=============================================================================
