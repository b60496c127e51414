---------------------------- MODULE ReadersWriters ----------------------------
(***************************************************************************)
(* What a readers-writer lock promises: any number of readers hold it      *)
(* together, a writer holds it alone, and only a holder releases it.       *)
(***************************************************************************)
CONSTANT Threads

VARIABLES readHolders,   \* the threads that hold the lock for reading
          writeHolders   \* the threads that hold it for writing

vars == <<readHolders, writeHolders>>

Init == readHolders = {} /\ writeHolders = {}

AcquireRead(t) == /\ t \notin readHolders /\ writeHolders = {}
                  /\ readHolders' = readHolders \cup {t}
                  /\ UNCHANGED writeHolders

ReleaseRead(t) == /\ t \in readHolders
                  /\ readHolders' = readHolders \ {t}
                  /\ UNCHANGED writeHolders

AcquireWrite(t) == /\ readHolders = {} /\ writeHolders = {}
                   /\ writeHolders' = {t}
                   /\ UNCHANGED readHolders

ReleaseWrite(t) == /\ writeHolders = {t}
                   /\ writeHolders' = {}
                   /\ UNCHANGED readHolders

Next == \E t \in Threads : \/ AcquireRead(t) \/ ReleaseRead(t)
                           \/ AcquireWrite(t) \/ ReleaseWrite(t)

Spec == Init /\ [][Next]_vars
=============================================================================
