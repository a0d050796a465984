-------------------------- MODULE FileRefinement ---------------------------
(***************************************************************************)
(* Requests served one after the other implement AtomicFiles: moving bytes *)
(* and committing metadata looks like one step, also when the transaction  *)
(* fails and the move is undone.                                           *)
(***************************************************************************)
EXTENDS FileLifecycle

\* A request that has renamed the file and not yet committed or undone it.
InDoubt(w, p) ==
    /\ req[w].path = p
    /\ req[w].pc \in {"read", "write", "undo", "undoReplace"}
    /\ Moves(req[w].op, req[w].area)

\* The area a file counts as being in: until the commit, where it came from.
LogicalArea(p) ==
    IF \E w \in Workers : InDoubt(w, p)
    THEN req[CHOOSE w \in Workers : InDoubt(w, p)].area
    ELSE CHOOSE a \in Area : a \in store[p]

\* What AtomicFiles calls rec.
Logical == [i \in FileIds |->
    IF files[i] = NoRow THEN [status |-> "none", area |-> "none"]
    ELSE [status |-> files[i].status, area |-> LogicalArea(files[i].path)]]

Atomic == INSTANCE AtomicFiles WITH rec <- Logical
=============================================================================
