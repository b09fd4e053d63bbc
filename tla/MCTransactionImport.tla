------------------------ MODULE MCTransactionImport ------------------------
(***************************************************************************)
(* Instances of TransactionImport for TLC.                                 *)
(***************************************************************************)
EXTENDS TransactionImport, TLC

\* Every row of a file names an account of its own, the same in each file, so
\* that an account that is deleted makes part of a file invalid.  The row
\* stands for its account, which keeps the rows interchangeable.
RowAccounts == [f \in Files |-> [r \in Rows |-> r]]

ImportSymmetry == Permutations(Files) \cup Permutations(Rows)
=============================================================================
