----------------------------- MODULE SerialQueue -----------------------------
(***************************************************************************)
(* What a squad queue promises: per squad, tasks wait in one line and get  *)
(* their turn one at a time and in the order of the line; a task leaves    *)
(* the line by its turn or because it is withdrawn; a reset empties        *)
(* everything and the lines may be filled again afterwards.                *)
(***************************************************************************)
EXTENDS Integers, Sequences, FiniteSets

CONSTANTS Tasks, Squads, SquadOf

VARIABLES
    line,   \* the waiting tasks of each squad
    turn    \* the tasks of each squad that have their turn

vars == <<line, turn>>

Waiting(s) == {line[s][i] : i \in DOMAIN line[s]}

Init ==
    /\ line = [s \in Squads |-> <<>>]
    /\ turn = [s \in Squads |-> {}]

Join(t) ==
    /\ t \notin Waiting(SquadOf[t])
    /\ line' = [line EXCEPT ![SquadOf[t]] = Append(@, t)]
    /\ UNCHANGED turn

\* The others keep their order.
Withdraw(t) ==
    LET s == SquadOf[t] IN
    \E k \in DOMAIN line[s] :
        /\ line[s][k] = t
        /\ line' = [line EXCEPT ![s] = SubSeq(@, 1, k - 1) \o SubSeq(@, k + 1, Len(@))]
        /\ UNCHANGED turn

Begin(s) ==
    /\ turn[s] = {}
    /\ line[s] # <<>>
    /\ turn' = [turn EXCEPT ![s] = {Head(line[s])}]
    /\ line' = [line EXCEPT ![s] = Tail(@)]

End(s) ==
    /\ turn[s] # {}
    /\ turn' = [turn EXCEPT ![s] = {}]
    /\ UNCHANGED line

Reset ==
    /\ line' = [s \in Squads |-> <<>>]
    /\ turn' = [s \in Squads |-> {}]

\* The tasks of a set, each once, in some order.
Refill(s) ==
    /\ line[s] = <<>>
    /\ turn[s] = {}
    /\ \E set \in SUBSET {t \in Tasks : SquadOf[t] = s} :
           \E q \in [1..Cardinality(set) -> set] :
               /\ {q[i] : i \in DOMAIN q} = set
               /\ line' = [line EXCEPT ![s] = q]
    /\ UNCHANGED turn

Next ==
    \/ \E t \in Tasks : Join(t) \/ Withdraw(t)
    \/ \E s \in Squads : Begin(s) \/ End(s) \/ Refill(s)
    \/ Reset

Spec == Init /\ [][Next]_vars
=============================================================================
