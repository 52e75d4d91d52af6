------------------------------ MODULE Delivery ------------------------------
(***************************************************************************)
(* What an appender promises those who append to it. A record that append  *)
(* accepts is in a block until somebody takes it to the log file, where it *)
(* stays. What is in the mapped block outlives the process; what is in a   *)
(* heap block or under way need not. A record is given up only by close,   *)
(* by an open that has not flushed yet, by the file system or by the end   *)
(* of the process, and no record is ever nowhere. Appender.tla implements  *)
(* it.                                                                     *)
(***************************************************************************)
EXTENDS Naturals

CONSTANTS Rec,       \* the records
          Old,       \* those an earlier process may have left in the mapped block
          CanFail    \* whether the file system may refuse a record

VARIABLES up,        \* the appender is open
          named,     \* it has been open in this process, which knows the log file by then
          lives,     \* how often it has been opened
          block,     \* the records in the mapped block
          fragile,   \* the records in a heap block that stands in for it
          moving,    \* the records taken out of either and not in the file yet
          filed,     \* the records in the log file
          lost       \* the records given up

records == <<block, fragile, moving, filed, lost>>
vars == <<up, named, lives, records>>

Known == block \cup fragile \cup moving \cup filed \cup lost

Init == /\ up = FALSE /\ named = FALSE /\ lives = 0
        /\ block \in SUBSET Old /\ fragile = {} /\ moving = {} /\ filed = {} /\ lost = {}

\* A block comes into use, with what the last process left in it.
Attach == ~up /\ lives' = lives + 1 /\ UNCHANGED <<up, named, records>>

Open == ~up /\ lives > 0 /\ up' = TRUE /\ named' = TRUE /\ UNCHANGED <<lives, records>>

\* A record is stored, goes straight to the file, or finds the block nearly full and
\* has a message stored in its place. A call that began before the last close may
\* store either over what a new block holds, be it copied by then or not.
Store(stored, refused) ==
    \E over \in SUBSET (IF up THEN {} ELSE block) : \E copied \in SUBSET over :
        /\ block' = (block \ over) \cup stored
        /\ moving' = moving \cup copied
        /\ lost' = lost \cup (over \ copied) \cup refused

Accept == /\ lives > 0 /\ UNCHANGED <<up, named, lives, filed>>
          /\ \E r \in Rec \ Known :
              \/ (Store({r}, {}) \/ Store({}, {r})) /\ UNCHANGED fragile
              \/ fragile' = fragile \cup {r} /\ UNCHANGED <<block, moving, lost>>
              \/ moving' = moving \cup {r} /\ UNCHANGED <<block, fragile, lost>>

Take == /\ UNCHANGED <<up, named, lives, filed, lost>>
        /\ \E rs \in SUBSET (block \cup fragile) :
            /\ block' = block \ rs /\ fragile' = fragile \ rs
            /\ moving' = moving \cup rs

\* What reaches the file was under way; or is the second copy of a record whose first
\* was refused. Only where the flush of an open crosses with another are there two.
Again == IF lives > 1 THEN lost ELSE lost \cap Old

File == /\ named /\ UNCHANGED <<up, named, lives>>
        /\ \E rs \in SUBSET (moving \cup Again), no \in SUBSET (IF CanFail THEN moving ELSE {}) :
            /\ filed' = filed \cup rs
            /\ block' = block \ rs /\ fragile' = fragile \ rs
            /\ moving' = moving \ (rs \cup no)
            /\ lost' = (lost \cup no) \ rs

\* A flush that runs beside the first open of a process and has taken what the last one
\* left does not know the file yet.
Drop == /\ ~named /\ UNCHANGED <<up, named, lives, block, fragile, filed>>
        /\ \E rs \in SUBSET moving : moving' = moving \ rs /\ lost' = lost \cup rs

Close == up /\ up' = FALSE /\ UNCHANGED <<named, lives, records>>

\* The block goes, or open clears it after its flush: what the flush has copied goes on.
Wipe == /\ ~up /\ UNCHANGED <<up, named, lives, filed>>
        /\ \E rs \in SUBSET (block \cup fragile) : \E copied \in SUBSET rs :
            /\ block' = block \ rs /\ fragile' = fragile \ rs
            /\ moving' = moving \cup copied
            /\ lost' = lost \cup (rs \ copied)

\* The process dies. Of what was under way, some may still be in the mapped block.
Crash == /\ up' = FALSE /\ named' = FALSE /\ UNCHANGED <<lives, filed>>
         /\ \E kept \in SUBSET moving :
             /\ block' = block \cup kept
             /\ lost' = lost \cup fragile \cup (moving \ kept)
         /\ fragile' = {} /\ moving' = {}

Next == Take \/ File \/ Drop \/ Accept \/ Attach \/ Open \/ Close \/ Wipe \/ Crash

Spec == Init /\ [][Next]_vars
=============================================================================
