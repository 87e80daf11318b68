------------------------------ MODULE PriceFile ------------------------------
(***************************************************************************)
(* How a pull replaces prices.json (pricing.rs, apply_pull and             *)
(* write_table), file operation by file operation.                         *)
(*                                                                         *)
(* A pull may be killed or fail between any two operations; the user may   *)
(* save the file from an editor; and nothing keeps two pulls apart.  Of a  *)
(* table is kept which pulls and edits have gone into it; merge only adds  *)
(* (PriceHistory).  Names and files are told apart: a file that is open    *)
(* stays the same file under another name.                                 *)
(***************************************************************************)
CONSTANTS
  Pulls,   \* the runs of `turnpike prices pull'
  Edits,   \* the user's saves
  Origin,  \* the file prices.json is at the start, if there is one
  None,    \* no file of that name
  Overlap  \* may the user save, and a pull start, while another pull runs?

File == Pulls \cup {Origin}

Changes == Pulls \cup Edits

ASSUME PriceFileAssumption ==
  /\ Overlap \in BOOLEAN
  /\ Origin \notin Pulls /\ None \notin File /\ Pulls \cap Edits = {}

VARIABLES
  disk,   \* what each file holds
  dest,   \* the file named prices.json
  tmp,    \* ... prices.json.tmp
  bak,    \* what prices.json.bak holds
  pc,     \* where each pull stands
  loaded, \* the table each pull has read
  handle, \* the file each pull has open
  saved,  \* the edits made so far
  typo    \* the user has saved prices.json with a typo

vars == <<disk, dest, tmp, bak, pc, loaded, handle, saved, typo>>
userVars == <<saved, typo>>

\* A file is empty when it has just been created or truncated, garbled when two
\* writers have written over each other.
Content == [state : {"empty", "whole", "garbled"}, holds : SUBSET Changes]

Empty        == [state |-> "empty", holds |-> {}]
Garbled      == [state |-> "garbled", holds |-> {}]
Whole(table) == [state |-> "whole", holds |-> table]

Active(p) == pc[p] \in {"read", "copying", "copied", "open", "written"}

\* No other pull is running, unless pulls may overlap.
Alone(p) == Overlap \/ \A q \in Pulls \ {p} : ~Active(q)

-----------------------------------------------------------------------------
Init ==
  /\ dest \in {None, Origin} /\ tmp = None
  /\ disk = [f \in File |-> Whole({})] /\ bak = Empty
  /\ pc = [p \in Pulls |-> "idle"]
  /\ loaded = [p \in Pulls |-> {}] /\ handle = [p \in Pulls |-> None]
  /\ saved = {} /\ typo = FALSE

(***************************************************************************)
(* read_table: no file is an empty table, a file that does not parse an    *)
(* error.                                                                  *)
(***************************************************************************)
\* Slip: whatever is there is taken.
ParsesAnyway == TRUE

Parses == disk[dest].state = "whole" /\ ~typo

Read(p) ==
  /\ pc[p] = "idle" /\ Alone(p)
  /\ dest # None => Parses
  /\ loaded' = [loaded EXCEPT ![p] = IF dest = None THEN {} ELSE disk[dest].holds]
  /\ pc' = [pc EXCEPT ![p] = "read"]
  /\ UNCHANGED <<disk, dest, tmp, bak, handle, userVars>>

Malformed(p) ==
  /\ pc[p] = "idle" /\ Alone(p)
  /\ dest # None /\ ~Parses
  /\ pc' = [pc EXCEPT ![p] = "failed"]
  /\ UNCHANGED <<disk, dest, tmp, bak, loaded, handle, userVars>>

(***************************************************************************)
(* write_table                                                             *)
(***************************************************************************)
\* Slip: only the first table is backed up.
BacksUpOnce(p) == dest # None /\ bak.state = "empty"

BacksUp(p) == dest # None

StartBackup(p) ==
  /\ pc[p] = "read" /\ BacksUp(p)
  /\ bak' = Empty
  /\ pc' = [pc EXCEPT ![p] = "copying"]
  /\ UNCHANGED <<disk, dest, tmp, loaded, handle, userVars>>

FinishBackup(p) ==
  /\ pc[p] = "copying"
  /\ bak' = disk[dest]
  /\ pc' = [pc EXCEPT ![p] = "copied"]
  /\ UNCHANGED <<disk, dest, tmp, loaded, handle, userVars>>

NoBackup(p) ==
  /\ pc[p] = "read" /\ ~BacksUp(p)
  /\ pc' = [pc EXCEPT ![p] = "copied"]
  /\ UNCHANGED <<disk, dest, tmp, bak, loaded, handle, userVars>>

\* Slip: prices.json itself is opened.
OpenedInPlace(p) == IF dest = None THEN p ELSE dest

\* fs::write creates prices.json.tmp, or truncates the one it finds, ...
Opened(p) == IF tmp = None THEN p ELSE tmp

OpenTmp(p) ==
  /\ pc[p] = "copied"
  /\ tmp' = Opened(p)
  /\ handle' = [handle EXCEPT ![p] = tmp']
  /\ disk' = [disk EXCEPT ![tmp'] = Empty]
  /\ pc' = [pc EXCEPT ![p] = "open"]
  /\ UNCHANGED <<dest, bak, loaded, userVars>>

\* Slip: what models.dev lists replaces the table.
FetchedOnly(p) == {p}

Merged(p) == loaded[p] \cup {p}

\* ... and writes: over what another writer of the same file may have put there.
WriteTmp(p) ==
  /\ pc[p] = "open"
  /\ \E c \in {Whole(Merged(p)), Garbled} :
       /\ disk[handle[p]] = Empty => c # Garbled
       /\ disk' = [disk EXCEPT ![handle[p]] = c]
  /\ pc' = [pc EXCEPT ![p] = "written"]
  /\ UNCHANGED <<dest, tmp, bak, loaded, handle, userVars>>

TmpAfterRename == None

\* It fails when another pull has renamed the file first.
Rename(p) ==
  /\ pc[p] = "written"
  /\ dest' = IF tmp = None THEN dest ELSE tmp
  /\ tmp' = TmpAfterRename
  /\ pc' = [pc EXCEPT ![p] = IF tmp = None THEN "failed" ELSE "done"]
  /\ UNCHANGED <<disk, bak, loaded, handle, userVars>>

\* A signal, or an I/O error that `?' returns: what is on disk stays.
Stop(p) ==
  /\ Active(p)
  /\ pc' = [pc EXCEPT ![p] = "failed"]
  /\ UNCHANGED <<disk, dest, tmp, bak, loaded, handle, userVars>>

-----------------------------------------------------------------------------
Quiet == Overlap \/ \A p \in Pulls : ~Active(p)

\* The user saves what the editor shows and a line more.
SaveEdit(e) ==
  /\ e \notin saved /\ Quiet
  /\ dest # None /\ Parses
  /\ disk' = [disk EXCEPT ![dest].holds = @ \cup {e}]
  /\ saved' = saved \cup {e}
  /\ UNCHANGED <<dest, tmp, bak, pc, loaded, handle, typo>>

\* ... or a typo, or its correction.
Slip ==
  /\ Quiet
  /\ dest # None /\ disk[dest].state = "whole"
  /\ typo' = ~typo
  /\ UNCHANGED <<disk, dest, tmp, bak, pc, loaded, handle, saved>>

\* Every pull has ended.
AllOver ==
  /\ \A p \in Pulls : pc[p] \in {"done", "failed"}
  /\ UNCHANGED vars

Next ==
  \/ \E p \in Pulls : \/ Read(p) \/ Malformed(p) \/ StartBackup(p) \/ FinishBackup(p)
                      \/ NoBackup(p) \/ OpenTmp(p) \/ WriteTmp(p) \/ Rename(p)
                      \/ Stop(p)
  \/ \E e \in Edits : SaveEdit(e)
  \/ Slip
  \/ AllOver

Spec == Init /\ [][Next]_vars

-----------------------------------------------------------------------------
(***************************************************************************)
(* Properties                                                              *)
(***************************************************************************)
\* The type invariant; prices.json and prices.json.tmp are never the same file.
TypeOK ==
  /\ disk \in [File -> Content] /\ bak \in Content
  /\ dest \in File \cup {None} /\ tmp \in File \cup {None}
  /\ dest = tmp => dest = None
  /\ pc \in [Pulls -> {"idle", "read", "copying", "copied", "open", "written", "done", "failed"}]
  /\ loaded \in [Pulls -> SUBSET Changes] /\ handle \in [Pulls -> File \cup {None}]
  /\ saved \subseteq Edits /\ typo \in BOOLEAN

Table == IF dest = None THEN {} ELSE {disk[dest].holds}

\* Whoever opens prices.json at any moment finds no file or a whole table (write_table's
\* comment: an interrupted write cannot truncate it; README: `swaps the new one in
\* atomically').
TableIsWhole == dest # None => disk[dest].state = "whole"

Store == INSTANCE TableStore WITH table <- Table

\* Wherever pulls are killed, what readers see changes as if each pull and each edit
\* were one step, and nothing that went into the table is lost.
ImplementsStore == Store!Spec

\* What a pull replaces is in prices.json.bak at that moment, whole (README: `a pull
\* keeps the previous copy').
PreviousIsKept == [][ dest' # dest /\ dest # None => bak = disk[dest] ]_vars

\* A table with a typo in it is left to the user, byte for byte (README: `an error that
\* leaves the file untouched').
TypoIsUntouched == [][ typo => dest' = dest /\ (dest # None => disk'[dest] = disk[dest]) ]_vars
=============================================================================
