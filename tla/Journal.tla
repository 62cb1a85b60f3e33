------------------------------ MODULE Journal ------------------------------
(***************************************************************************)
(* What the log of a partition promises, without its WAL, its snapshot and *)
(* its idempotency index: a sequence of records that grows at one end and   *)
(* is trimmed at the other, under offsets that stay; an id that it can      *)
(* still show is not accepted again for some time; a process that starts    *)
(* again finds all of it but the repetitions of an id; a loss of power      *)
(* takes records from the end, and none that is firm.                       *)
(***************************************************************************)
EXTENDS Integers, Sequences, FiniteSets

CONSTANTS
    Ids,         \* event ids
    Idempotent,  \* are repeated ids refused?
    Recall       \* for how many ticks

VARIABLES
    clock,
    from,        \* the offset of the first record
    tail,        \* the records at from, from + 1, ...; a record is <<id, time>>
    firm         \* the first so many of them survive a loss of power

journalVars == <<clock, from, tail, firm>>

\* The first record of every id; and t is s without the others, in the same order.
Firsts(s) == {i \in DOMAIN s : \A j \in 1..(i - 1) : s[j][1] # s[i][1]}
OnlyFirsts(t, s) ==
    /\ Len(t) = Cardinality(Firsts(s))
    /\ \A i \in Firsts(s) : t[Cardinality({j \in Firsts(s) : j <= i})] = s[i]

Init == clock = 0 /\ from = 0 /\ tail = <<>> /\ firm = 0

Accept(id) ==
    /\ Idempotent => \A i \in DOMAIN tail : tail[i][1] = id => clock - tail[i][2] > Recall
    /\ tail' = Append(tail, <<id, clock>>)
    /\ UNCHANGED <<clock, from, firm>>

Sync ==
    /\ firm' = Len(tail)
    /\ UNCHANGED <<clock, from, tail>>

\* What a snapshot covers goes; what is left is written anew.
Trim ==
    /\ \E n \in 0..Len(tail) : from' = from + n /\ tail' = SubSeq(tail, n + 1, Len(tail))
    /\ firm' = Len(tail')
    /\ UNCHANGED clock

\* A new process: as many records at most are firm no longer as are gone.
Reopen ==
    /\ OnlyFirsts(tail', tail)
    /\ firm' \in 0..firm
    /\ firm - firm' <= Len(tail) - Len(tail')
    /\ UNCHANGED <<clock, from>>

\* And after a loss of power.  The snapshot that counts the trimmed records may be
\* an older one, which puts what is left under lower offsets.
LosePower ==
    /\ \E n \in firm..Len(tail) : OnlyFirsts(tail', SubSeq(tail, 1, n))
    /\ from' \in 0..from
    /\ firm' = Len(tail')
    /\ UNCHANGED clock

Tick ==
    /\ clock' = clock + 1
    /\ UNCHANGED <<from, tail, firm>>

Next ==
    \/ \E id \in Ids : Accept(id)
    \/ Sync
    \/ Trim
    \/ Reopen
    \/ LosePower
    \/ Tick

Spec == Init /\ [][Next]_journalVars
=============================================================================
