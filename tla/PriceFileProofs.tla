--------------------------- MODULE PriceFileProofs ---------------------------
(***************************************************************************)
(* One pull at a time replaces prices.json atomically: theorems about      *)
(* PriceFile, for any number of pulls and edits, killed at any point.      *)
(***************************************************************************)
EXTENDS PriceFile, TLAPS

Held == IF dest = None THEN {} ELSE disk[dest].holds

\* Pulls do not overlap, and a typo keeps them away.
OnePull ==
  /\ \A p, q \in Pulls : Active(p) /\ Active(q) => p = q
  /\ \A p \in Pulls : Active(p) => ~typo
  /\ typo => dest # None

\* A file has a name only once the pull that made it has opened it.
NamedLate ==
  \A p \in Pulls : pc[p] \in {"idle", "read", "copying", "copied"} => p # dest /\ p # tmp

\* What a pull has read is still there, and its copy is in prices.json.bak.
StillThere ==
  \A p \in Pulls :
    /\ Active(p) => loaded[p] = Held
    /\ pc[p] = "copying" => dest # None
    /\ pc[p] \in {"copied", "open", "written"} /\ dest # None => bak = disk[dest]

\* What a pull has opened is prices.json.tmp, and it alone writes there.
OwnTmp ==
  \A p \in Pulls :
    /\ pc[p] \in {"open", "written"} => tmp # None /\ handle[p] = tmp
    /\ pc[p] = "open" => disk[tmp] = Empty
    /\ pc[p] = "written" => disk[tmp] = Whole(Held \cup {p})

\* The inductive invariant.
FileInv == TypeOK /\ TableIsWhole /\ OnePull /\ NamedLate /\ StillThere /\ OwnTmp

-----------------------------------------------------------------------------
\* The invariant holds of no file and of a table nobody has pulled into yet.
LEMMA FileInvInit == Init => FileInv
<1> SUFFICES ASSUME Init PROVE FileInv
  OBVIOUS
<1>1. TypeOK
  BY PriceFileAssumption DEF Init, TypeOK, File, Content, Whole, Empty
<1>2. TableIsWhole
  BY DEF Init, TableIsWhole, Whole, File
<1>3. \A p \in Pulls : ~Active(p) /\ pc[p] = "idle"
  BY DEF Init, Active
<1>4. NamedLate
  BY PriceFileAssumption DEF Init, NamedLate, File
<1>5. ~typo
  BY DEF Init
<1> QED
  BY <1>1, <1>2, <1>3, <1>4, <1>5 DEF FileInv, OnePull, StillThere, OwnTmp

\* Each step of a pull that is alone, of the editor, and of a pull that dies keeps it.
LEMMA FileInvStep ==
  ASSUME ~Overlap, FileInv, [Next]_vars
  PROVE  FileInv'
<1> USE DEF FileInv
<1>1. ASSUME NEW p \in Pulls, Read(p) PROVE FileInv'
  <2>1. TypeOK'
    <3>1. dest # None => disk[dest].holds \subseteq Changes
      BY DEF TypeOK, Content
    <3> QED
      BY <1>1, <3>1 DEF Read, TypeOK, userVars
  <2>2. TableIsWhole' /\ NamedLate'
    BY <1>1 DEF Read, TypeOK, TableIsWhole, NamedLate
  <2>3. \A q \in Pulls \ {p} : ~Active(q) /\ pc'[q] = pc[q]
    BY <1>1 DEF Read, TypeOK, Alone
  <2>4. pc'[p] = "read" /\ loaded'[p] = Held
    BY <1>1 DEF Read, TypeOK, Held
  <2>5. ~typo'
    BY <1>1 DEF Read, Parses, userVars, OnePull
  <2> QED
    BY <1>1, <2>1, <2>2, <2>3, <2>4, <2>5
    DEF Read, OnePull, StillThere, OwnTmp, Active, Held, userVars
<1>2. ASSUME NEW p \in Pulls, Malformed(p) \/ Stop(p) PROVE FileInv'
  BY <1>2 DEF Malformed, Stop, TypeOK, TableIsWhole, OnePull, NamedLate, StillThere, OwnTmp,
              Active, Held, userVars
<1>3. ASSUME NEW p \in Pulls, StartBackup(p) \/ FinishBackup(p) \/ NoBackup(p) PROVE FileInv'
  <2>1. TypeOK'
    BY <1>3 DEF StartBackup, FinishBackup, NoBackup, TypeOK, Content, Empty, userVars, StillThere
  <2>2. TableIsWhole' /\ NamedLate'
    BY <1>3 DEF StartBackup, FinishBackup, NoBackup, TypeOK, TableIsWhole, NamedLate
  <2>3. \A q \in Pulls \ {p} : ~Active(q) /\ pc'[q] = pc[q]
    BY <1>3 DEF StartBackup, FinishBackup, NoBackup, TypeOK, OnePull, Active
  <2>4. OnePull' /\ OwnTmp'
    BY <1>3, <2>3 DEF StartBackup, FinishBackup, NoBackup, TypeOK, OnePull, OwnTmp, Active, Held,
                      userVars
  <2>5. StillThere'
    BY <1>3, <2>3 DEF StartBackup, FinishBackup, NoBackup, TypeOK, StillThere, Active, Held,
                      BacksUp
  <2> QED
    BY <2>1, <2>2, <2>4, <2>5
<1>4. ASSUME NEW p \in Pulls, OpenTmp(p) PROVE FileInv'
  <2>1. tmp' \in File /\ tmp' # dest /\ tmp' # None
    BY <1>4, PriceFileAssumption DEF OpenTmp, Opened, NamedLate, TypeOK, File
  <2>2. disk'[tmp'] = Empty /\ \A f \in File \ {tmp'} : disk'[f] = disk[f]
    BY <1>4, <2>1 DEF OpenTmp, TypeOK
  <2>3. TypeOK'
    BY <1>4, <2>1, <2>2 DEF OpenTmp, TypeOK, Content, Empty, userVars
  <2>4. dest' = dest /\ (dest # None => disk'[dest] = disk[dest]) /\ Held' = Held
    BY <1>4, <2>1, <2>2 DEF OpenTmp, TypeOK, Held
  <2>5. TableIsWhole'
    BY <2>4 DEF TableIsWhole
  <2>6. \A q \in Pulls \ {p} : ~Active(q) /\ pc'[q] = pc[q]
    BY <1>4 DEF OpenTmp, TypeOK, OnePull, Active
  <2>7. pc'[p] = "open" /\ handle'[p] = tmp'
    BY <1>4 DEF OpenTmp, TypeOK
  <2>8. NamedLate'
    <3> SUFFICES ASSUME NEW q \in Pulls, pc'[q] \in {"idle", "read", "copying", "copied"}
                 PROVE  q # dest /\ q # tmp'
      BY <2>4 DEF NamedLate
    <3>1. q # p /\ pc[q] = pc'[q]
      BY <2>6, <2>7
    <3>2. q # dest /\ q # tmp
      BY <3>1 DEF NamedLate
    <3> QED
      BY <1>4, <3>1, <3>2 DEF OpenTmp, Opened
  <2>9. OnePull' /\ OwnTmp'
    BY <1>4, <2>1, <2>2, <2>6, <2>7 DEF OpenTmp, OnePull, OwnTmp, Active, userVars
  <2>10. StillThere'
    BY <1>4, <2>4, <2>6, <2>7 DEF OpenTmp, StillThere, Active
  <2> QED
    BY <2>3, <2>5, <2>8, <2>9, <2>10
<1>5. ASSUME NEW p \in Pulls, WriteTmp(p) PROVE FileInv'
  <2>1. handle[p] = tmp /\ tmp # None /\ tmp \in File /\ tmp # dest
    BY <1>5 DEF WriteTmp, OwnTmp, TypeOK
  <2>2. disk' = [disk EXCEPT ![tmp] = Whole(Merged(p))]
    BY <1>5, <2>1 DEF WriteTmp, OwnTmp
  <2>3. Merged(p) = Held \cup {p} /\ Merged(p) \subseteq Changes
    BY <1>5 DEF WriteTmp, Merged, StillThere, Active, TypeOK, Changes
  <2>4. TypeOK'
    BY <1>5, <2>1, <2>2, <2>3 DEF WriteTmp, TypeOK, Content, Whole, userVars
  <2>5. dest' = dest /\ (dest # None => disk'[dest] = disk[dest]) /\ Held' = Held
    BY <1>5, <2>1, <2>2 DEF WriteTmp, TypeOK, Held
  <2>6. TableIsWhole'
    BY <2>5 DEF TableIsWhole
  <2>7. \A q \in Pulls \ {p} : ~Active(q) /\ pc'[q] = pc[q]
    BY <1>5 DEF WriteTmp, TypeOK, OnePull, Active
  <2>8. pc'[p] = "written" /\ disk'[tmp] = Whole(Held \cup {p})
    BY <1>5, <2>1, <2>2, <2>3 DEF WriteTmp, TypeOK
  <2>9. NamedLate' /\ OnePull'
    BY <1>5, <2>7, <2>8 DEF WriteTmp, NamedLate, OnePull, Active, userVars
  <2>10. StillThere' /\ OwnTmp'
    BY <1>5, <2>1, <2>5, <2>7, <2>8 DEF WriteTmp, StillThere, OwnTmp, Active
  <2> QED
    BY <2>4, <2>6, <2>9, <2>10
<1>6. ASSUME NEW p \in Pulls, Rename(p) PROVE FileInv'
  <2>1. tmp # None /\ tmp \in File /\ disk[tmp] = Whole(Held \cup {p})
    BY <1>6 DEF Rename, OwnTmp, TypeOK
  <2>2. dest' = tmp /\ tmp' = None /\ UNCHANGED <<disk, bak, loaded, handle, saved, typo>>
    BY <1>6, <2>1 DEF Rename, TmpAfterRename, userVars
  <2>3. TypeOK'
    BY <1>6, <2>1, <2>2, PriceFileAssumption DEF Rename, TypeOK
  <2>4. TableIsWhole'
    BY <2>1, <2>2 DEF TableIsWhole, Whole
  <2>5. \A q \in Pulls : ~Active(q)'
    BY <1>6, <2>1 DEF Rename, TypeOK, OnePull, Active
  <2>6. pc'[p] = "done" /\ \A q \in Pulls \ {p} : pc'[q] = pc[q]
    BY <1>6, <2>1 DEF Rename, TypeOK
  <2>7. NamedLate'
    BY <2>2, <2>6, PriceFileAssumption DEF NamedLate, File
  <2>8. OnePull' /\ StillThere' /\ OwnTmp'
    BY <2>1, <2>2, <2>5 DEF OnePull, StillThere, OwnTmp, Active
  <2> QED
    BY <2>3, <2>4, <2>7, <2>8
<1>7. ASSUME NEW e \in Edits, SaveEdit(e) PROVE FileInv'
  <2>1. \A p \in Pulls : ~Active(p)
    BY <1>7 DEF SaveEdit, Quiet
  <2>2. dest \in File /\ disk[dest] \in Content
    BY <1>7 DEF SaveEdit, TypeOK
  <2>3. [disk[dest] EXCEPT !.holds = @ \cup {e}] \in Content
    BY <2>2 DEF Content, Changes
  <2>4. TypeOK'
    BY <1>7, <2>2, <2>3 DEF SaveEdit, TypeOK
  <2>5. TableIsWhole'
    BY <1>7, <2>2 DEF SaveEdit, TypeOK, TableIsWhole, Content
  <2> QED
    BY <1>7, <2>1, <2>4, <2>5 DEF SaveEdit, OnePull, NamedLate, StillThere, OwnTmp, Active
<1>8. CASE Slip
  <2>1. \A p \in Pulls : ~Active(p)
    BY <1>8 DEF Slip, Quiet
  <2>2. TypeOK'
    BY <1>8 DEF Slip, TypeOK
  <2> QED
    BY <1>8, <2>1, <2>2 DEF Slip, TableIsWhole, OnePull, NamedLate, StillThere, OwnTmp, Active
<1>9. CASE UNCHANGED vars
  BY <1>9 DEF vars, TypeOK, TableIsWhole, OnePull, NamedLate, StillThere, OwnTmp, Active, Held
<1> QED
  BY <1>1, <1>2, <1>3, <1>4, <1>5, <1>6, <1>7, <1>8, <1>9 DEF Next, AllOver

-----------------------------------------------------------------------------
\* One pull at a time: the invariant holds however many pulls there are and wherever
\* they die.
LEMMA FileInvariance ==
  ASSUME ~Overlap
  PROVE  Spec => []FileInv
<1>1. Init => FileInv
  BY FileInvInit
<1>2. FileInv /\ [Next]_vars => FileInv'
  BY FileInvStep
<1> QED
  BY <1>1, <1>2, PTL DEF Spec

\* Every file, and what every pull holds, is well typed, and prices.json is never
\* prices.json.tmp.
THEOREM TypeTheorem ==
  ASSUME ~Overlap
  PROVE  Spec => []TypeOK
<1>1. FileInv => TypeOK
  BY DEF FileInv
<1> QED
  BY <1>1, FileInvariance, PTL

\* As long as pulls do not overlap, no reader ever finds prices.json torn, whatever
\* step a pull dies at (write_table: copy, write aside, rename).
THEOREM WholeTheorem ==
  ASSUME ~Overlap
  PROVE  Spec => []TableIsWhole
<1>1. FileInv => TableIsWhole
  BY DEF FileInv
<1> QED
  BY <1>1, FileInvariance, PTL

\* What readers see under a step of the pulls and the editor: nothing, or one change
\* added to the table they saw.
LEMMA StoreStep ==
  ASSUME ~Overlap, FileInv, [Next]_vars
  PROVE  [Store!Change]_Table
<1> USE DEF FileInv
<1> SUFFICES ASSUME Table' # Table PROVE Store!Change
  OBVIOUS
<1>1. UNION Table = Held
  BY DEF Table, Held
<1>2. ASSUME NEW p \in Pulls, Rename(p) PROVE Store!Change
  <2>1. tmp # None /\ disk[tmp].holds = Held \cup {p} /\ dest' = tmp /\ disk' = disk
    <3>1. tmp # None /\ disk[tmp] = Whole(Held \cup {p})
      BY <1>2 DEF Rename, OwnTmp
    <3>2. dest' = tmp /\ disk' = disk
      BY <1>2, <3>1 DEF Rename
    <3> QED
      BY <3>1, <3>2 DEF Whole
  <2>2. Table' = {Held \cup {p}} /\ p \in Changes
    BY <2>1 DEF Table, Changes
  <2>3. Table' = {(UNION Table) \cup {p}}
    BY <1>1, <2>2
  <2> HIDE DEF FileInv
  <2> QED
    BY <2>2, <2>3, Zenon DEF Store!Change
<1>3. ASSUME NEW e \in Edits, SaveEdit(e) PROVE Store!Change
  <2>1. dest # None /\ dest' = dest /\ disk[dest] \in Content
    BY <1>3 DEF SaveEdit, TypeOK
  <2>2. disk'[dest] = [disk[dest] EXCEPT !.holds = @ \cup {e}]
    BY <1>3, <2>1 DEF SaveEdit, TypeOK
  <2>3. disk'[dest].holds = Held \cup {e}
    BY <2>1, <2>2 DEF Content, Held
  <2>4. Table' = {Held \cup {e}} /\ e \in Changes
    BY <2>1, <2>3 DEF Table, Changes
  <2>5. Table' = {(UNION Table) \cup {e}}
    BY <1>1, <2>4
  <2> HIDE DEF FileInv
  <2> QED
    BY <2>4, <2>5, Zenon DEF Store!Change
<1>4. ASSUME NEW p \in Pulls, OpenTmp(p) PROVE Table' = Table
  <2>1. tmp' # dest
    BY <1>4, PriceFileAssumption DEF OpenTmp, Opened, NamedLate, TypeOK, File
  <2> QED
    BY <1>4, <2>1 DEF OpenTmp, Table, TypeOK
<1>5. ASSUME NEW p \in Pulls, WriteTmp(p) PROVE Table' = Table
  <2>1. handle[p] = tmp /\ tmp # None /\ tmp # dest
    BY <1>5 DEF WriteTmp, OwnTmp, TypeOK
  <2> QED
    BY <1>5, <2>1 DEF WriteTmp, Table, TypeOK
<1>6. ASSUME NEW p \in Pulls,
             \/ Read(p) \/ Malformed(p) \/ StartBackup(p) \/ FinishBackup(p) \/ NoBackup(p)
             \/ Stop(p)
      PROVE  Table' = Table
  BY <1>6 DEF Read, Malformed, StartBackup, FinishBackup, NoBackup, Stop, Table
<1>7. CASE Slip
  BY <1>7 DEF Slip, Table
<1>8. CASE UNCHANGED vars
  BY <1>8 DEF vars, Table
<1> QED
  BY <1>2, <1>3, <1>4, <1>5, <1>6, <1>7, <1>8 DEF Next, AllOver

\* Pulls one at a time implement the abstract store: each is one atomic step for its
\* readers, and nothing that went into the table is lost (apply_pull, write_table).
THEOREM StoreTheorem ==
  ASSUME ~Overlap
  PROVE  Spec => ImplementsStore
<1>1. Init => Store!Init
  BY DEF Init, Store!Init, Table, Whole, File
<1>2. FileInv /\ [Next]_vars => [Store!Change]_Table
  BY StoreStep
<1> QED
  BY <1>1, <1>2, FileInvariance, PTL DEF Spec, ImplementsStore, Store!Spec

\* ... and each leaves what it replaced in prices.json.bak (write_table: fs::copy).
THEOREM PreviousTheorem ==
  ASSUME ~Overlap
  PROVE  Spec => PreviousIsKept
<1>1. FileInv /\ [Next]_vars => [dest' # dest /\ dest # None => bak = disk[dest]]_vars
  <2> SUFFICES ASSUME FileInv, [Next]_vars, dest' # dest, dest # None
               PROVE  bak = disk[dest]
    OBVIOUS
  <2>1. PICK p \in Pulls : Rename(p)
    BY DEF Next, Read, Malformed, StartBackup, FinishBackup, NoBackup, OpenTmp, WriteTmp, Stop,
           SaveEdit, Slip, AllOver, vars
  <2> QED
    BY <2>1 DEF Rename, FileInv, StillThere
<1> QED
  BY <1>1, FileInvariance, PTL DEF Spec, PreviousIsKept

\* ... and none touches a table with a typo in it (read_table's error).
THEOREM TypoTheorem ==
  ASSUME ~Overlap
  PROVE  Spec => TypoIsUntouched
<1>1. FileInv /\ [Next]_vars =>
        [typo => dest' = dest /\ (dest # None => disk'[dest] = disk[dest])]_vars
  <2> SUFFICES ASSUME FileInv, [Next]_vars, typo
               PROVE  dest' = dest /\ disk' = disk
    OBVIOUS
  <2>1. \A p \in Pulls : ~Active(p)
    BY DEF FileInv, OnePull
  <2> QED
    BY <2>1 DEF Next, Read, Malformed, StartBackup, FinishBackup, NoBackup, OpenTmp, WriteTmp,
                Rename, Stop, SaveEdit, Slip, AllOver, vars, Active, Parses
<1> QED
  BY <1>1, FileInvariance, PTL DEF Spec, TypoIsUntouched
=============================================================================
