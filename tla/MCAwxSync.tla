----------------------------- MODULE MCAwxSync -----------------------------
(* Instances of AwxSync for TLC, and its refinement of ImportLedger.       *)
EXTENDS AwxSync

(* Jobs that need an import still and that the listing of a sync under way *)
(* or, below the cursor, of an earlier one went past.                      *)
Hidden == (missed \cup UNION {unseen[w] : w \in Workers}) \ Settled

(* The ledger read off the state of the sync.                              *)
Ledger == INSTANCE ImportLedger
            WITH cursor <- dbCursor, settled <- Settled, hidden <- Hidden,
                 stored <- runs, deleted <- ~dbExists
LedgerSpec == Ledger!Spec
=============================================================================
