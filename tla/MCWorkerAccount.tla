--------------------------- MODULE MCWorkerAccount ---------------------------
(* Small instances of WorkerAccount for TLC. *)
EXTENDS WorkerAccount, TLC

\* Accounts, documents, requests and calls are interchangeable.
AccountSymmetry ==
    Permutations(Account) \cup Permutations(Document)
        \cup Permutations(Request) \cup Permutations(Call)
=============================================================================
