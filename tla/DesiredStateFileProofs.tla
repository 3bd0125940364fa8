----------------------- MODULE DesiredStateFileProofs -----------------------
(***************************************************************************)
(* With one saving thread, whatever the loaders do and whenever the        *)
(* process dies, the canonical file is never torn.  The inductive          *)
(* invariant says that a write reaches an inode no name but temp and no    *)
(* other thread refers to, and what that inode holds so far.               *)
(***************************************************************************)
EXTENDS DesiredStateFile, TLAPS

OneSaver == \A s, t \in Savers : s = t

(* A reader's inode is a whole text that nobody writes.                    *)
Reading(t) == /\ fd[t] \in Inode /\ fd[t] # temp
              /\ Whole(disk[fd[t]])
              /\ \A s \in Threads : pc[s] = "write" => fd[t] # fd[s]

(* A saver's inode is private, and holds the chunks written so far.        *)
Writing(t) == /\ fd[t] \in Inode /\ fd[t] # canonical
              /\ temp \in {fd[t], Absent}
              /\ at[t] <= Length[want[t]]
              /\ disk[fd[t]] = Prefix(want[t], at[t])

FileInv ==
    /\ FileTypeOK /\ CanonicalWhole /\ LoadsWhole
    /\ canonical # Absent => canonical # temp
    /\ \A t \in Threads :
          /\ pc[t] = "read" => Reading(t)
          /\ pc[t] = "write" => Writing(t)
          /\ pc[t] \in {"create", "write"} => want[t] \in Value
          /\ pc[t] \notin {"read", "write"} => fd[t] = Absent
          /\ pc[t] = "idle" => want[t] = "load"
          /\ want[t] # "load" => t \in Savers

LEMMA TextFacts ==
    /\ \A v \in Value : Prefix(v, 0) = Blank
    /\ \A v \in Value : \A n \in Nat :
          /\ Prefix(v, n) \in [Pos -> Value \union {"hole"}]
          /\ n < Length[v] => [Prefix(v, n) EXCEPT ![n + 1] = v]
                                = Prefix(v, n + 1)
    /\ \A v \in Value : Whole(Prefix(v, Length[v]))
    /\ Blank \in [Pos -> Value \union {"hole"}]
<1>1. Pos \subseteq Nat \ {0}
  BY FileAssumption DEF Pos, FileAssumption
<1>2. ASSUME NEW v \in Value PROVE Prefix(v, 0) = Blank
  BY <1>1 DEF Prefix, Blank
<1>3. ASSUME NEW v \in Value, NEW n \in Nat, n < Length[v]
      PROVE  [Prefix(v, n) EXCEPT ![n + 1] = v] = Prefix(v, n + 1)
  <2>1. \A p \in Pos : p <= n + 1 <=> p <= n \/ p = n + 1
    BY <1>1
  <2>2. ~(n + 1 <= n)
    OBVIOUS
  <2> QED BY <2>1, <2>2 DEF Prefix
<1>4. ASSUME NEW v \in Value PROVE Whole(Prefix(v, Length[v]))
  BY DEF Whole, Text
<1> QED BY <1>2, <1>3, <1>4 DEF Prefix, Blank

LEMMA InitFile == Init => FileInv
<1> SUFFICES ASSUME Init PROVE FileInv
    OBVIOUS
<1>1. FileTypeOK
  BY TextFacts DEF Init, FileTypeOK
<1> QED BY <1>1 DEF Init, FileInv, CanonicalWhole, LoadsWhole

LEMMA StepFile ==
    ASSUME OneSaver, FileInv, [Next]_vars PROVE FileInv'
<1> USE DEF Goto
<1>1. ASSUME NEW t \in Threads, Begin(t) PROVE FileInv'
  <2>1. FileTypeOK'
    BY <1>1 DEF Begin, FileInv, FileTypeOK
  <2>2. /\ UNCHANGED <<canonical, temp, disk, at>> /\ malformed' = {}
        /\ pc[t] = "idle" /\ pc'[t] \in {"clean", "read"}
        /\ want'[t] \in Value \union {"load"}
        /\ want'[t] # "load" => t \in Savers
        /\ pc'[t] = "read" => canonical # Absent /\ fd'[t] = canonical
        /\ pc'[t] = "clean" => fd'[t] = Absent
        /\ \A s \in Threads \ {t} : /\ pc'[s] = pc[s] /\ fd'[s] = fd[s]
                                    /\ want'[s] = want[s]
    BY <1>1 DEF Begin, FileInv, FileTypeOK, LoadsWhole
  <2> QED BY <2>1, <2>2
          DEF FileInv, Reading, Writing, CanonicalWhole, LoadsWhole, FileTypeOK
<1>2. ASSUME NEW t \in Threads, CleanStaleTemp(t) PROVE FileInv'
  BY <1>2, FileAssumption DEF CleanStaleTemp, AfterLoad, FileInv, Reading, Writing,
     CanonicalWhole, LoadsWhole, FileTypeOK, FileAssumption
<1>3. ASSUME NEW t \in Threads, Read(t) PROVE FileInv'
  BY <1>3 DEF Read, AfterLoad, FileInv, Reading, Writing, CanonicalWhole,
     LoadsWhole, FileTypeOK
<1>4. ASSUME NEW t \in Threads, Create(t) PROVE FileInv'
  <2>1. PICK i \in Inode :
           /\ temp' = i /\ fd' = [fd EXCEPT ![t] = i]
           /\ disk' = [disk EXCEPT ![i] = Blank]
           /\ i # canonical
           /\ \A s \in Threads : pc[s] = "read" => fd[s] # i
    <3>1. PICK i \in IF Staged = Absent THEN Inode \ InUse ELSE {Staged} :
             /\ temp' = i /\ fd' = [fd EXCEPT ![t] = i]
             /\ disk' = [disk EXCEPT ![i] = Blank]
      BY <1>4 DEF Create
    <3>2. CASE Staged = Absent
      BY <3>1, <3>2 DEF InUse
    <3>3. CASE Staged # Absent
      BY <3>1, <3>3 DEF Staged, FileInv, FileTypeOK, Reading
    <3> QED BY <3>2, <3>3
  <2>2. \A s \in Threads : pc[s] = "write" => FALSE
    BY <1>4, FileAssumption DEF Create, FileInv, OneSaver, FileAssumption
  <2>3. /\ pc[t] = "create" /\ pc' = [pc EXCEPT ![t] = "write"]
        /\ at' = [at EXCEPT ![t] = 0]
        /\ UNCHANGED <<canonical, want, malformed>>
    BY <1>4 DEF Create
  <2>4. FileTypeOK'
    BY <2>1, <2>3, TextFacts DEF FileInv, FileTypeOK
  <2>5. Writing(t)'
    BY <2>1, <2>3, TextFacts, FileAssumption
       DEF FileInv, FileTypeOK, Writing, FileAssumption
  <2>6. ASSUME NEW s \in Threads, pc'[s] = "read" PROVE Reading(s)'
    BY <2>1, <2>2, <2>3, <2>6 DEF FileInv, FileTypeOK, Reading
  <2> QED BY <2>1, <2>2, <2>3, <2>4, <2>5, <2>6
          DEF FileInv, FileTypeOK, CanonicalWhole, LoadsWhole
<1>5. ASSUME NEW t \in Threads, WriteChunk(t) PROVE FileInv'
  <2>1. /\ pc[t] = "write" /\ Writing(t) /\ at[t] # Length[want[t]]
        /\ want[t] \in Value /\ Length[want[t]] \in Nat /\ at[t] \in Nat
        /\ disk' = [disk EXCEPT ![fd[t]][at[t] + 1] = want[t]]
        /\ at' = [at EXCEPT ![t] = @ + 1]
        /\ UNCHANGED <<canonical, temp, pc, want, fd, malformed>>
    BY <1>5, FileAssumption
       DEF WriteChunk, Written, FileInv, FileTypeOK, FileAssumption
  <2>2. \A s \in Threads : pc[s] = "write" => s = t
    BY <2>1, FileAssumption DEF FileInv, OneSaver, FileAssumption
  <2>3. disk' = [disk EXCEPT ![fd[t]] = Prefix(want[t], at[t] + 1)]
    <3>1. at[t] < Length[want[t]] /\ disk[fd[t]] = Prefix(want[t], at[t])
      BY <2>1 DEF Writing
    <3>2. [disk[fd[t]] EXCEPT ![at[t] + 1] = want[t]]
             = Prefix(want[t], at[t] + 1)
      BY <2>1, <3>1, TextFacts
    <3>3. disk' = [disk EXCEPT ![fd[t]] =
                     [disk[fd[t]] EXCEPT ![at[t] + 1] = want[t]]]
      BY <2>1
    <3> QED BY <3>2, <3>3
  <2>4. Writing(t)'
    <3>1. at'[t] = at[t] + 1 /\ disk'[fd[t]] = Prefix(want[t], at[t] + 1)
      BY <2>1, <2>3 DEF Writing, FileInv, FileTypeOK
    <3> QED BY <2>1, <3>1 DEF Writing
  <2>5. FileTypeOK'
    <3>1. Prefix(want[t], at[t] + 1) \in [Pos -> Value \union {"hole"}]
      <4>1. at[t] + 1 \in Nat
        BY <2>1
      <4> QED BY <2>1, <4>1, TextFacts
    <3>2. disk' \in [Inode -> [Pos -> Value \union {"hole"}]]
      BY <2>3, <3>1 DEF FileInv, FileTypeOK
    <3>3. at' \in [Threads -> Nat]
      BY <2>1 DEF FileInv, FileTypeOK
    <3> QED BY <2>1, <3>2, <3>3 DEF FileInv, FileTypeOK
  <2>6. ASSUME NEW s \in Threads, pc'[s] = "read" PROVE Reading(s)'
    BY <2>1, <2>3, <2>6 DEF FileInv, FileTypeOK, Reading
  <2> QED BY <2>1, <2>2, <2>3, <2>4, <2>5, <2>6
          DEF FileInv, FileTypeOK, CanonicalWhole, LoadsWhole, Writing
<1>6. ASSUME NEW t \in Threads, Rename(t) PROVE FileInv'
  <2>1. /\ pc[t] = "write" /\ temp = fd[t] /\ fd[t] \in Inode
        /\ Whole(disk[temp])
    BY <1>6, TextFacts DEF Rename, Written, FileInv, Writing
  <2>2. \A s \in Threads : pc[s] = "write" => s = t
    BY <2>1, FileAssumption DEF FileInv, OneSaver, FileAssumption
  <2> QED BY <1>6, <2>1, <2>2, FileAssumption
          DEF Rename, FileInv, FileTypeOK, Reading, CanonicalWhole, LoadsWhole,
              FileAssumption
<1>7. ASSUME NEW t \in Threads, RenameFails(t) \/ Fails(t) PROVE FileInv'
  <2>1. CASE RenameFails(t)
    BY <2>1, FileAssumption DEF RenameFails, FileInv, Reading, Writing,
       CanonicalWhole, LoadsWhole, FileTypeOK, FileAssumption
  <2>2. CASE Fails(t)
    BY <2>2, FileAssumption DEF Fails, FileInv, Reading, Writing,
       CanonicalWhole, LoadsWhole, FileTypeOK, FileAssumption
  <2> QED BY <1>7, <2>1, <2>2
<1>8. ASSUME NEW t \in Threads, Undo(t) PROVE FileInv'
  BY <1>8, FileAssumption DEF Undo, Kept, FileInv, Reading, Writing,
     CanonicalWhole, LoadsWhole, FileTypeOK, FileAssumption
<1>9. CASE Crash
  BY <1>9 DEF Crash, FileInv, CanonicalWhole, LoadsWhole, FileTypeOK
<1>10. CASE UNCHANGED vars
  BY <1>10 DEF vars, FileInv, Reading, Writing, CanonicalWhole, LoadsWhole,
     FileTypeOK
<1> QED BY <1>1, <1>2, <1>3, <1>4, <1>5, <1>6, <1>7, <1>8, <1>9, <1>10
        DEF Next, Step

(* Serialised saves never expose a torn file: not in the canonical name at *)
(* any moment, not to any load, through I/O errors and crashes.            *)
THEOREM OneSaverWhole ==
    ASSUME OneSaver
    PROVE  Spec => [](CanonicalWhole /\ LoadsWhole)
<1>1. Init => FileInv
  BY InitFile
<1>2. FileInv /\ [Next]_vars => FileInv'
  BY StepFile
<1>3. FileInv => CanonicalWhole /\ LoadsWhole
  BY DEF FileInv
<1> QED BY <1>1, <1>2, <1>3, PTL DEF Spec

-----------------------------------------------------------------------------
(* The refinement of DesiredStateCell.                                     *)

Loaded == IF canonical = Absent THEN "default"
          ELSE IF Whole(disk[canonical])
          THEN CHOOSE v \in Value : disk[canonical] = Text(v)
          ELSE "torn"
Offered == {want[s] : s \in Savers} \ {"load"}

(* A text is the text of one value only.                                   *)
LEMMA TextNames ==
    ASSUME NEW v \in Value
    PROVE  (CHOOSE u \in Value : Text(v) = Text(u)) = v
<1>1. ASSUME NEW u \in Value PROVE Text(u)[1] = u
  <2>1. 1 \in 1 .. Length[u]
    BY FileAssumption DEF FileAssumption
  <2>2. 1 \in Pos /\ 1 <= Length[u]
    BY <2>1 DEF Pos
  <2> QED BY <2>2 DEF Text, Prefix
<1>2. \A u \in Value : Text(v) = Text(u) => u = v
  BY <1>1
<1> QED BY <1>2

LEMMA LoadedKept ==
    ASSUME UNCHANGED canonical,
           canonical # Absent => disk'[canonical] = disk[canonical]
    PROVE  Loaded' = Loaded
  BY DEF Loaded, Whole

(* What is offered is what the one saver wants.                            *)
LEMMA OfferedChange ==
    ASSUME OneSaver, FileInv, FileInv', NEW t \in Threads, NEW w,
           want' = [want EXCEPT ![t] = w]
    PROVE  /\ t \in Savers => /\ Offered = {want[t]} \ {"load"}
                              /\ Offered' = {w} \ {"load"}
           /\ t \notin Savers => Offered' = Offered
<1>1. CASE t \in Savers
  <2>1. Savers = {t}
    BY <1>1 DEF OneSaver
  <2>2. want'[t] = w
    BY DEF FileInv, FileTypeOK
  <2> QED BY <1>1, <2>1, <2>2 DEF Offered
<1>2. CASE t \notin Savers
  <2>1. \A s \in Savers : want'[s] = want[s]
    BY <1>2 DEF FileInv, FileTypeOK, Threads
  <2> QED BY <1>2, <2>1 DEF Offered
<1> QED BY <1>1, <1>2

LEMMA CellStutter ==
    ASSUME Loaded' = Loaded, Offered' = Offered PROVE UNCHANGED Cell!vars
  BY DEF Cell!vars, Loaded, Offered

LEMMA CellMoves ==
    ASSUME NEW v \in Value, Cell!Offer(v) \/ Cell!Commit(v) \/ Cell!Withdraw(v)
    PROVE  Cell!Next
  BY Zenon DEF Cell!Next

(* The end of a save that did not get there.                               *)
LEMMA CellWithdraw ==
    ASSUME OneSaver, FileInv, FileInv', NEW t \in Threads,
           want' = [want EXCEPT ![t] = "load"], Loaded' = Loaded
    PROVE  Cell!Next \/ UNCHANGED Cell!vars
<1>1. CASE Offered' = Offered
  BY <1>1, CellStutter
<1>2. CASE Offered' # Offered
  <2>1. t \in Savers /\ Offered = {want[t]} \ {"load"} /\ Offered' = {}
    BY <1>2, OfferedChange
  <2>2. want[t] \in Value /\ Offered' = Offered \ {want[t]}
    BY <1>2, <2>1 DEF FileInv, FileTypeOK
  <2>3. PICK v \in Value : v = want[t]
    BY <2>2
  <2>4. Cell!Withdraw(v)
    BY <2>2, <2>3 DEF Cell!Withdraw, Loaded, Offered
  <2> QED BY <2>4, CellMoves
<1> QED BY <1>1, <1>2

LEMMA CellStep ==
    ASSUME OneSaver, FileInv, FileInv', [Next]_vars
    PROVE  Cell!Next \/ UNCHANGED Cell!vars
<1>1. ASSUME NEW t \in Threads, Begin(t)
      PROVE  Cell!Next \/ UNCHANGED Cell!vars
  <2>1. PICK w \in (IF t \in Savers THEN Value ELSE {}) \union {"load"} :
           want' = [want EXCEPT ![t] = w]
    BY <1>1 DEF Begin
  <2>2. Loaded' = Loaded
    BY <1>1, LoadedKept DEF Begin
  <2>3. CASE Offered' = Offered
    BY <2>2, <2>3, CellStutter
  <2>4. CASE Offered' # Offered
    <3>1. want[t] = "load"
      BY <1>1 DEF Begin, FileInv
    <3>2. t \in Savers /\ Offered = {} /\ Offered' = {w} \ {"load"}
      BY <2>1, <2>4, <3>1, OfferedChange
    <3>3. w \in Value /\ Offered' = Offered \union {w}
      BY <2>1, <2>4, <3>2
    <3>4. Cell!Offer(w)
      BY <2>2, <3>3 DEF Cell!Offer, Loaded, Offered
    <3> QED BY <3>3, <3>4, CellMoves
  <2> QED BY <2>3, <2>4
<1>2. ASSUME NEW t \in Threads,
             CleanStaleTemp(t) \/ Read(t) \/ RenameFails(t)
      PROVE  Cell!Next \/ UNCHANGED Cell!vars
  <2>1. UNCHANGED <<canonical, disk, want>>
    BY <1>2 DEF CleanStaleTemp, Read, RenameFails
  <2> QED BY <2>1, LoadedKept, CellStutter DEF Offered
<1>3. ASSUME NEW t \in Threads, Create(t)
      PROVE  Cell!Next \/ UNCHANGED Cell!vars
  <2>1. PICK i \in IF Staged = Absent THEN Inode \ InUse ELSE {Staged} :
           disk' = [disk EXCEPT ![i] = Blank]
    BY <1>3 DEF Create
  <2>2. canonical # Absent => i # canonical
    BY <2>1 DEF InUse, Staged, FileInv
  <2>3. canonical # Absent => disk'[canonical] = disk[canonical]
    BY <2>1, <2>2 DEF FileInv, FileTypeOK
  <2> QED BY <1>3, <2>3, LoadedKept, CellStutter DEF Create, Offered
<1>4. ASSUME NEW t \in Threads, WriteChunk(t)
      PROVE  Cell!Next \/ UNCHANGED Cell!vars
  <2>1. fd[t] # canonical
    BY <1>4 DEF WriteChunk, FileInv, Writing
  <2>2. canonical # Absent => disk'[canonical] = disk[canonical]
    BY <1>4, <2>1 DEF WriteChunk, FileInv, FileTypeOK
  <2> QED BY <1>4, <2>2, LoadedKept, CellStutter DEF WriteChunk, Offered
<1>5. ASSUME NEW t \in Threads, Rename(t)
      PROVE  Cell!Next \/ UNCHANGED Cell!vars
  <2>1. /\ want[t] \in Value /\ want[t] # "load" /\ t \in Savers
        /\ temp = fd[t] /\ disk[temp] = Text(want[t])
    BY <1>5, FileAssumption
       DEF Rename, Written, FileInv, Writing, Text, FileAssumption
  <2>2. canonical' = temp /\ disk' = disk /\ temp # Absent
        /\ want' = [want EXCEPT ![t] = "load"]
    BY <1>5 DEF Rename
  <2>3. Loaded' = want[t]
    <3>1. canonical' # Absent /\ disk'[canonical'] = Text(want[t])
      BY <2>1, <2>2
    <3>2. Loaded' = CHOOSE v \in Value : Text(want[t]) = Text(v)
      BY <2>1, <3>1 DEF Loaded, Whole
    <3> QED BY <2>1, <3>2, TextNames
  <2>4. Offered = {want[t]} /\ Offered' = {}
    BY <2>1, <2>2, OfferedChange
  <2>5. PICK v \in Value : v = want[t]
    BY <2>1
  <2>6. Cell!Commit(v)
    BY <2>3, <2>4, <2>5 DEF Cell!Commit, Loaded, Offered
  <2> QED BY <2>6, CellMoves
<1>6. ASSUME NEW t \in Threads, Undo(t) \/ Fails(t)
      PROVE  Cell!Next \/ UNCHANGED Cell!vars
  <2>1. /\ UNCHANGED <<canonical, disk>>
        /\ want' = [want EXCEPT ![t] = "load"]
    BY <1>6 DEF Undo, Kept, Fails
  <2> QED BY <2>1, LoadedKept, CellWithdraw
<1>7. CASE Crash
  <2>1. Loaded' = Loaded
    BY <1>7, LoadedKept DEF Crash
  <2>2. CASE Savers = {}
    BY <2>1, <2>2, CellStutter DEF Offered
  <2>3. CASE Savers # {}
    <3>1. PICK t \in Savers : TRUE
      BY <2>3
    <3>2. Savers = {t} /\ t \in Threads
      BY <3>1 DEF OneSaver, Threads
    <3>3. Offered = {want[t]} \ {"load"} /\ Offered' = {}
      BY <1>7, <3>2 DEF Crash, Offered
    <3>4. CASE want[t] = "load"
      BY <2>1, <3>3, <3>4, CellStutter
    <3>5. CASE want[t] # "load"
      <4>1. want[t] \in Value
        BY <3>2, <3>5 DEF FileInv, FileTypeOK
      <4>2. PICK v \in Value : v = want[t]
        BY <4>1
      <4>3. Cell!Withdraw(v)
        BY <2>1, <3>3, <3>5, <4>2 DEF Cell!Withdraw, Loaded, Offered
      <4> QED BY <4>3, CellMoves
    <3> QED BY <3>4, <3>5
  <2> QED BY <2>2, <2>3
<1>8. CASE UNCHANGED vars
  BY <1>8, LoadedKept, CellStutter DEF vars, Offered
<1> QED BY <1>1, <1>2, <1>3, <1>4, <1>5, <1>6, <1>7, <1>8 DEF Next, Step

(* Serialised saves change what a load returns in one step, to the value   *)
(* being saved; a save that fails or dies with the process changes nothing.*)
THEOREM OneSaverCell ==
    ASSUME OneSaver PROVE Spec => ImplementsCell
<1>1. Init => Cell!Init
  <2> SUFFICES ASSUME Init PROVE Cell!Init
      OBVIOUS
  <2>1. Loaded = "default" /\ Offered = {}
    BY DEF Init, Loaded, Offered, Threads
  <2> QED BY <2>1 DEF Cell!Init, Loaded, Offered
<1>2. FileInv /\ FileInv' /\ [Next]_vars => [Cell!Next]_(Cell!vars)
  BY CellStep
<1>3. FileInv /\ [Next]_vars => FileInv'
  BY StepFile
<1> QED BY <1>1, <1>2, <1>3, InitFile, PTL DEF Spec, ImplementsCell, Cell!Spec
=============================================================================
