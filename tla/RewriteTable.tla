---------------------------- MODULE RewriteTable ----------------------------
(***************************************************************************)
(* The in-memory rewrite cache, src/src/d810_cobra/table.py, as seen by    *)
(* the components that share it: the live rule and the two background      *)
(* workers.                                                                *)
(*                                                                         *)
(* A key stands for a canonical key (a tree up to renaming of its leaves,  *)
(* at a bitwidth) and a rewrite for a positional tree, so every            *)
(* alpha-equivalent expression shares an entry.  Every operation of the    *)
(* class holds the table's own lock for the whole of its effect, so each   *)
(* is one atomic step here, and the components decide where it happens.    *)
(*                                                                         *)
(* Storage is d810's CacheImpl, which is not part of this repository: the  *)
(* code in src/ relies on a bounded map that, when a NEW key is stored     *)
(* beyond max_size, drops one entry and passes it to removal_listener on   *)
(* the storing thread.  Which entry is dropped is left open.               *)
(***************************************************************************)
EXTENDS Integers, FiniteSets

CONSTANTS
    Keys,        \* canonical keys
    Rewrites,    \* positional rewrites
    NoTree,      \* Entry.rewrite = None
    MaxEntries   \* max_size of the CacheImpl

ASSUME NoTreeAssumption == NoTree \notin Rewrites
ASSUME MaxEntriesAssumption == MaxEntries \in Nat \ {0}

VARIABLE entries \* RewriteTable._entries; a key that is not stored maps to Absent

Outcomes == {"proved", "no_rewrite", "pending"}

Entry == [outcome : Outcomes \cup {"absent"},
          rewrite : Rewrites \cup {NoTree},
          proof_verified : BOOLEAN]

Absent == [outcome |-> "absent", rewrite |-> NoTree, proof_verified |-> FALSE]
NoRewrite == [outcome |-> "no_rewrite", rewrite |-> NoTree, proof_verified |-> FALSE]
Pending == [outcome |-> "pending", rewrite |-> NoTree, proof_verified |-> FALSE]
Proved(r, verified) ==
    [outcome |-> "proved", rewrite |-> r, proof_verified |-> verified]

EntriesType == entries \in [Keys -> Entry]
EmptyTable == [k \in Keys |-> Absent]

(* What lookup answers: a stored entry, or Absent for None.                *)
Known(k) == entries[k] # Absent
IsPending(k) == entries[k].outcome = "pending"
IsProved(k) == entries[k].outcome = "proved"
IsSettled(k) == entries[k].outcome \in {"proved", "no_rewrite"}

(* The sets of keys that storing under k may push out: none when k is      *)
(* already stored or there is room, one victim otherwise.                  *)
Evictions(k) ==
    LET stored == {j \in Keys : Known(j)}
    IN IF Known(k) \/ Cardinality(stored) < MaxEntries
       THEN {{}}
       ELSE {{victim} : victim \in stored}

Store(k, entry, gone) ==
    entries' = [j \in Keys |-> IF j = k THEN entry
                               ELSE IF j \in gone THEN Absent
                               ELSE entries[j]]

Drop(k) == entries' = [entries EXCEPT ![k] = Absent]

-----------------------------------------------------------------------------
(* The operations.  `gone` is the set of keys the store pushes out; the    *)
(* caller picks it in Evictions(k).                                        *)

RecordProved(k, r, verified, gone) == Store(k, Proved(r, verified), gone)

RecordNoRewrite(k, gone) == Store(k, NoRewrite, gone)

(* Mutant of RecordPending: the guard for settled entries is missing.      *)
RecordPendingAnyway(k, gone) == Store(k, Pending, gone)

(* A result that is already settled is not clobbered.                      *)
RecordPending(k, gone) ==
    IF IsSettled(k) THEN UNCHANGED entries ELSE Store(k, Pending, gone)

ClearPending(k) ==
    IF IsPending(k) THEN Drop(k) ELSE UNCHANGED entries

ClearUnverified(k) ==
    IF IsProved(k) /\ ~entries[k].proof_verified
    THEN Drop(k) ELSE UNCHANGED entries

=============================================================================
