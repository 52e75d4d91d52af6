------------------------------ MODULE ByteLog -------------------------------
(***************************************************************************)
(* What the block behind an appender promises to those who write to it,    *)
(* flush it and open it again: a first-in first-out store of bytes that    *)
(* passes every byte on to the log file, in order, and that, when it is    *)
(* durable, outlives the process. A byte is passed on once, unless the     *)
(* process dies after a flush has copied it and before the store drops it. *)
(* LogBuffer.tla implements it.                                            *)
(***************************************************************************)
EXTENDS Naturals, Sequences, SequencesExt

CONSTANTS Byte,      \* the bytes that are written
          Capacity   \* how many the store holds

VARIABLES durable,   \* whether the store outlives the process
          state,     \* "down", "up", or "taking": copied and not yet dropped
          held,      \* the bytes in the store
          out,       \* the bytes a flush has copied and not yet passed on
          log        \* the bytes of the log file

vars == <<durable, state, held, out, log>>

Init == durable \in BOOLEAN /\ state = "down" /\ held = << >> /\ out = << >> /\ log = << >>

\* A write is stored whole, or cut where the store is full.
Put == /\ state = "up"
       /\ \E b \in Byte, n \in 1..(Capacity - Len(held)) : held' = held \o [i \in 1..n |-> b]
       /\ UNCHANGED <<durable, state, out, log>>

Take == /\ state = "up" /\ out = << >>
        /\ state' = "taking" /\ out' = held
        /\ UNCHANGED <<durable, held, log>>

\* The first flush after an open takes what the last process left, complete and
\* in order. The bytes that may follow are not promised to be anything.
Recover == /\ state = "down" /\ out = << >>
           /\ state' = "taking" /\ IsPrefix(held, out')
           /\ UNCHANGED <<durable, held, log>>

Drop == state = "taking" /\ state' = "up" /\ held' = << >> /\ UNCHANGED <<durable, out, log>>

Emit == state # "taking" /\ log' = log \o out /\ out' = << >> /\ UNCHANGED <<durable, state, held>>

\* close empties the store.
Wipe == state = "up" /\ state' = "down" /\ held' = << >> /\ UNCHANGED <<durable, out, log>>

Crash == /\ state' = "down" /\ out' = << >>
         /\ held' = IF durable THEN held ELSE << >>
         /\ UNCHANGED <<durable, log>>

Next == Put \/ Take \/ Recover \/ Drop \/ Emit \/ Wipe \/ Crash

Spec == Init /\ [][Next]_vars
=============================================================================
