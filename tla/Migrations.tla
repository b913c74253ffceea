----------------------------- MODULE Migrations -----------------------------
(***************************************************************************)
(* The scripts of database/migrations that move or rewrite signals while   *)
(* the bot runs: archive_legacy_signals.py and the older archive_legacy.py *)
(* copy legacy rows in one transaction and delete them in the next, and    *)
(* dedup_open_signals.py expires all but the newest open signal.  Each     *)
(* reads in a session of its own, so the tracker, or the end of the        *)
(* script, comes in between.                                               *)
(***************************************************************************)
EXTENDS Naturals, FiniteSets
LOCAL INSTANCE FiniteSetsExt

CONSTANTS Rows,      \* ids of signals of one symbol, in the order of creation
          Legacy,    \* the rows of an older engine
          Scripts,   \* "guarded": archive_legacy_signals, "plain": archive_legacy
          CopiesMax  \* bound on the copies of a row

ConstantsOK ==
    /\ Rows \subseteq Nat /\ Legacy \subseteq Rows
    /\ Scripts \subseteq {"guarded", "plain"} /\ CopiesMax \in Nat \ {0}

VARIABLES table,    \* status of each row, "gone" once deleted
          copies,   \* how many copies of a row the archive holds
          kept,     \* the status its last copy has
          step,     \* where the archiving script is
          todo,     \* the rows it read, with the status it read
          dup       \* the rows the deduplication is about to expire
vars == <<table, copies, kept, step, todo, dup>>

Present == {r \in Rows : table[r] # "gone"}
Nothing == [r \in {} |-> "gone"]

Init ==
    /\ table \in [Rows -> {"OPEN", "SL"}]
    /\ copies = [r \in Rows |-> 0] /\ kept = [r \in Rows |-> "gone"]
    /\ step = "idle" /\ todo = Nothing /\ dup = {}

(* The tracker records an event of an open signal, TP2 like TP1.  A stop   *)
(* after a target leaves the status the target's.                          *)
Later == [OPEN |-> {"TP1", "TP3", "SL", "EXPIRED"}, TP1 |-> {"TP3"}]
Track ==
    /\ \E r \in Present :
        /\ table[r] \in DOMAIN Later
        /\ \E s \in Later[table[r]] : table' = [table EXCEPT ![r] = s]
    /\ UNCHANGED <<copies, kept, step, todo, dup>>

(* What was archived is archived again (mutation).                         *)
ToArchiveAgain(script) == Legacy \cap Present

(* Archived ids are left out by the guarded script alone.                  *)
ToArchive(script) ==
    {r \in Legacy \cap Present : script = "guarded" => copies[r] = 0}

ArchiveReads ==
    /\ step = "idle"
    /\ \E script \in Scripts :
        /\ ToArchive(script) # {}
        /\ todo' = [r \in ToArchive(script) |-> table[r]]
    /\ step' = "copy"
    /\ UNCHANGED <<table, copies, kept, dup>>

ArchiveCopies ==
    /\ step = "copy" /\ \A r \in DOMAIN todo : copies[r] < CopiesMax
    /\ copies' = [r \in Rows |-> copies[r] + (IF r \in DOMAIN todo THEN 1 ELSE 0)]
    /\ kept' = [r \in Rows |-> IF r \in DOMAIN todo THEN todo[r] ELSE kept[r]]
    /\ step' = "delete"
    /\ UNCHANGED <<table, todo, dup>>

ArchiveDeletes ==
    /\ step = "delete"
    /\ table' = [r \in Rows |-> IF r \in DOMAIN todo THEN "gone" ELSE table[r]]
    /\ step' = "idle" /\ todo' = Nothing
    /\ UNCHANGED <<copies, kept, dup>>

Crash ==
    /\ step \in {"copy", "delete"}
    /\ step' = "idle" /\ todo' = Nothing
    /\ UNCHANGED <<table, copies, kept, dup>>

Open == {r \in Rows : table[r] = "OPEN"}

Older == Open \ {Max(Open)}

DedupReads ==
    /\ dup = {} /\ Cardinality(Open) > 1
    /\ dup' = Older
    /\ UNCHANGED <<table, copies, kept, step, todo>>

(* The UPDATE goes by the id alone.                                        *)
DedupWrites ==
    /\ dup # {}
    /\ table' = [r \in Rows |-> IF r \in dup \cap Present THEN "EXPIRED" ELSE table[r]]
    /\ dup' = {}
    /\ UNCHANGED <<copies, kept, step, todo>>

Next ==
    \/ Track \/ ArchiveReads \/ ArchiveCopies \/ ArchiveDeletes \/ Crash
    \/ DedupReads \/ DedupWrites
Spec == Init /\ [][Next]_vars

(***************************************************************************)
(* Properties                                                              *)
(***************************************************************************)

(* "Records are NEVER deleted. They are copied ... then removed", and the  *)
(* guard "prevents double-archiving when the script is re-run"             *)
(* (archive_legacy_signals.py:19): wherever a script ends and whatever is  *)
(* run again, a row is in the table or in the archive, and the guarded     *)
(* script alone copies it once.                                            *)
MovedNotLost ==
    \A r \in Rows :
        /\ table[r] = "gone" => copies[r] >= 1
        /\ Scripts = {"guarded"} => copies[r] <= 1

(* "Production table is clean" (archive_legacy_signals.py:297): a copied   *)
(* row that is left in the table is deleted by a later run.                *)
LeftoversGo ==
    \A r \in Legacy : copies[r] > 0 /\ table[r] # "gone" =>
        r \in DOMAIN todo \/ \E script \in Scripts : r \in ToArchive(script)

(* The archive holds what became of the signal.                            *)
CopyIsLast == \A r \in Rows : table[r] = "gone" => kept[r] # "OPEN"

(* Only what is open when the deduplication writes is expired.             *)
OnlyOpenExpires ==
    [][\A r \in Rows : table'[r] = "EXPIRED" => table[r] \in {"OPEN", "EXPIRED"}]_vars
=============================================================================
