----------------------------- MODULE FileStore -----------------------------
(***************************************************************************)
(* What JexFS promises of file contents, without blocks, bitmaps,          *)
(* directories or descriptors.  A file is the function from its unit       *)
(* offsets, 0 .. size-1, to the units stored there.  A step concerns one   *)
(* file: it comes into being empty, one value is written over a range of   *)
(* it, or it goes away.  A write may stop early (disk full, power          *)
(* failure); it has then stored some of its units.  The promise ends when  *)
(* the store breaks, and a broken store takes no more steps.               *)
(***************************************************************************)
EXTENDS Integers

CONSTANTS Ids,        \* identities of files
          Vals,       \* the values written
          Hole,       \* what a unit no write ever reached holds
          MaxUnits    \* bound on the offset of a unit

VARIABLES files,      \* the files that exist, by identity
          broken      \* whether the promise has ended

Create(id) ==
    /\ id \notin DOMAIN files
    /\ files' = [i \in DOMAIN files \cup {id} |-> IF i = id THEN <<>> ELSE files[i]]

(* A unit of the file keeps its value or, inside the range, takes the new  *)
(* one; a unit that lay past the old end and before the range, or that no  *)
(* write ever reached, is unspecified.                                     *)
Written(old, new, lo, hi, v) ==
    /\ DOMAIN old \subseteq DOMAIN new
    /\ \A u \in DOMAIN new :
          \/ u \in DOMAIN old /\ new[u] = old[u]
          \/ u \in lo .. hi - 1 /\ new[u] = v
          \/ u \notin DOMAIN old /\ u < lo
          \/ u \in DOMAIN old /\ old[u] = Hole

Write(id) ==
    /\ id \in DOMAIN files
    /\ DOMAIN files' = DOMAIN files
    /\ \A i \in DOMAIN files \ {id} : files'[i] = files[i]
    /\ \E lo, hi \in 0 .. MaxUnits, v \in Vals : Written(files[id], files'[id], lo, hi, v)

Remove(id) ==
    /\ id \in DOMAIN files
    /\ files' = [i \in DOMAIN files \ {id} |-> files[i]]

Next ==
    /\ ~ broken
    /\ \/ broken'
       \/ /\ ~ broken'
          /\ \E id \in Ids : Create(id) \/ Write(id) \/ Remove(id)

Spec == [][Next]_<<files, broken>>
=============================================================================
