------------------------------- MODULE Ledger -------------------------------
(***************************************************************************)
(* What a partition promises to its callers, without its goroutine, queues  *)
(* and batches: every write takes effect at one instant between its call    *)
(* and its answer, one after another, an event once; a query answers with   *)
(* all that has taken effect by some instant in the course of it.           *)
(***************************************************************************)
EXTENDS Integers, Sequences, FiniteSets, SequencesExt

CONSTANTS
    Calls,     \* calls that write
    IdOf,      \* IdOf[c]: the event that call c brings
    Queries    \* calls that read

VARIABLES
    log,       \* the events in effect
    effect,    \* effect[c]: "none", "pending", then what the call will be told
    reading,   \* queries under way
    read       \* read[q]: the events it will be told

ledgerVars == <<log, effect, reading, read>>

Init ==
    /\ log = <<>>
    /\ effect = [c \in Calls |-> "none"]
    /\ reading = {}
    /\ read = [q \in Queries |-> {}]

Submit(c) ==
    /\ effect[c] = "none"
    /\ effect' = [effect EXCEPT ![c] = "pending"]
    /\ UNCHANGED <<log, reading, read>>

\* Some pending writes, one after another.
Pending == {c \in Calls : effect[c] = "pending"}
After(l, c) == IF IdOf[c] \in Range(l) THEN l ELSE Append(l, IdOf[c])
TakeEffect(order) ==
    /\ log' = FoldLeft(After, log, order)
    /\ effect' = [c \in Calls |->
         IF c \notin Range(order) THEN effect[c]
         ELSE LET i == CHOOSE i \in DOMAIN order : order[i] = c
              IN IF IdOf[c] \in Range(FoldLeft(After, log, SubSeq(order, 1, i - 1)))
                 THEN "duplicate" ELSE "fresh"]
    /\ UNCHANGED <<reading, read>>

Ask(q) ==
    /\ q \notin reading
    /\ reading' = reading \cup {q}
    /\ UNCHANGED <<log, effect, read>>

Read(q) ==
    /\ q \in reading
    /\ reading' = reading \ {q}
    /\ read' = [read EXCEPT ![q] = Range(log)]
    /\ UNCHANGED <<log, effect>>

Next ==
    \/ \E c \in Calls : Submit(c)
    \/ \E some \in SUBSET Pending : \E order \in SetToSeqs(some) : TakeEffect(order)
    \/ \E q \in Queries : Ask(q) \/ Read(q)

Spec == Init /\ [][Next]_ledgerVars
=============================================================================
