------------------------------- MODULE Promise -------------------------------
(***************************************************************************)
(* What async.Task promises to the script that starts an operation of the  *)
(* runtime and waits for it: the operation settles once, with one outcome, *)
(* and Wait returns after that or is interrupted by an exception.          *)
(***************************************************************************)
CONSTANTS Promises, NoPromise

VARIABLES
    state,     \* of each promise
    waitingOn  \* the promise the script waits for

Init ==
    /\ state = [p \in Promises |-> "none"]
    /\ waitingOn = NoPromise

\* An operation that has nothing to wait for settles as it starts.
Start(p, s) ==
    /\ state[p] = "none" /\ waitingOn = NoPromise
    /\ s \in {"pending", "completed"}
    /\ state' = [state EXCEPT ![p] = s]
    /\ UNCHANGED waitingOn

\* A settling may interrupt the wait for another promise.
Settle(p, s) ==
    /\ state[p] = "pending"
    /\ s \in {"completed", "faulted"}
    /\ state' = [state EXCEPT ![p] = s]
    /\ waitingOn' \in {waitingOn, NoPromise}

\* When the program stops, several promises are given up at once.
GiveUp ==
    /\ waitingOn = NoPromise
    /\ \E gone \in SUBSET {p \in Promises : state[p] = "pending"} :
            state' = [p \in Promises |-> IF p \in gone THEN "faulted" ELSE state[p]]
    /\ UNCHANGED waitingOn

Wait(p) ==
    /\ state[p] # "none" /\ waitingOn = NoPromise
    /\ waitingOn' = p
    /\ UNCHANGED state

Return ==
    /\ waitingOn # NoPromise
    /\ state[waitingOn] # "pending"
    /\ waitingOn' = NoPromise
    /\ UNCHANGED state

Next ==
    \/ \E p \in Promises, s \in {"pending", "completed"} : Start(p, s)
    \/ \E p \in Promises, s \in {"completed", "faulted"} : Settle(p, s)
    \/ \E p \in Promises : Wait(p)
    \/ GiveUp \/ Return

Spec == Init /\ [][Next]_<< state, waitingOn >>
=============================================================================
