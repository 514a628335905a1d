----------------------------- MODULE MCVaultNotes -----------------------------
(***************************************************************************)
(* Finite instances of VaultNotes: the workloads the runs let the calls    *)
(* draw their requests from.                                               *)
(***************************************************************************)
EXTENDS VaultRefinement, TLC

CONSTANTS p1, p2

On(ops, path, other) ==
    {r \in [op : ops, path : {path}, dst : {other}, cond : BOOLEAN] :
        r.cond => r.op \in CondOps}

Unconditional(requests) == {r \in requests : ~ r.cond}

\* Everything that locks the mutex for the whole of its read and write: every
\* operation on p1, and an append, a move and a delete of p2 to meet them.  Etags
\* are left to one operation that may create and one that removes, which keeps the
\* instance with three calls small; the edits have theirs in SweepRequests.
LockedRequests ==
    {r \in On((Ops \ SweepOps) \ {"periodic"}, p1, p2)
             \cup Unconditional(On({"append", "move", "delete"}, p2, p1)) :
        r.cond => r.op \in {"append", "move"}}

\* Small edits, moves and the vault-wide walks, for crashes and liveness.
SweepRequests ==
    Unconditional(On({"renameTag", "moveLinks", "periodic", "append", "patch"}, p1, p2))
        \cup Unconditional(On({"delete", "move"}, p2, p1))
        \cup On({"removeTag", "moveLinks"}, p1, p2)

\* A client that appends to the periodic note that another asks for.
PeriodicRequests == Unconditional(On({"periodic", "append"}, p1, p2))

CallSymmetry == Permutations(Call)
===============================================================================
