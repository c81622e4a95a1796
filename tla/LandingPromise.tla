--------------------------- MODULE LandingPromise ---------------------------
(***************************************************************************)
(* What the integrator promises to whoever approves: the target gains only *)
(* direct pushes and landings of approved heads, one landing spends one    *)
(* approval, and a landing takes away no request but the one it lands.     *)
(*                                                                         *)
(* An approval is spent by the landing of its head under its name.  It     *)
(* outlives its request, since a request that is withdrawn while a pass    *)
(* already works on it may still land.                                     *)
(***************************************************************************)
EXTENDS Naturals, Sequences

CONSTANTS Name, Heads, None

VARIABLES
    history,    \* what landed or was pushed, in order
    request,    \* request[n]: the head asked for, or None
    owed        \* owed[n][h]: approvals of h under n that no landing has spent

vars == <<history, request, owed>>

Init ==
    /\ history = <<>>
    /\ request \in [Name -> Heads \cup {None}]
    /\ owed = [n \in Name |-> [h \in Heads |-> IF request[n] = h THEN 1 ELSE 0]]

Approve(n, h) ==
    /\ request[n] # h
    /\ request' = [request EXCEPT ![n] = h]
    /\ owed' = [owed EXCEPT ![n][h] = @ + 1]
    /\ UNCHANGED history

\* The approver withdraws the request, or the withdrawal of its change does.
Remove(n) ==
    /\ request[n] # None
    /\ request' = [request EXCEPT ![n] = None]
    /\ UNCHANGED <<history, owed>>

Push ==
    /\ history' = Append(history, None)
    /\ UNCHANGED <<request, owed>>

\* A landing takes the request with it, and only while that names what
\* lands.  A request filed again since stays: it is an approval of its own.
Land(n, h) ==
    /\ owed[n][h] > 0
    /\ history' = Append(history, [name |-> n, head |-> h])
    /\ owed' = [owed EXCEPT ![n][h] = @ - 1]
    /\ \/ request[n] = h /\ request' = [request EXCEPT ![n] = None]
       \/ UNCHANGED request

Next ==
    \/ Push
    \/ \E n \in Name : Remove(n) \/ \E h \in Heads : Approve(n, h) \/ Land(n, h)

Spec == Init /\ [][Next]_vars
=============================================================================
