-------------------------- MODULE DesiredStateFile --------------------------
(***************************************************************************)
(* FileDesiredStateBackend (src/desired_state.rs): bg-desired-state.json,  *)
(* its sibling temp file, and the threads that load and save it.  The two  *)
(* names point at inodes; an open file follows its inode, not the name; a  *)
(* write is a series of chunks; and the process may die between any two    *)
(* steps, which the disk survives.                                         *)
(***************************************************************************)
EXTENDS Naturals

CONSTANTS Savers,     \* threads that save (each save loads first)
          Loaders,    \* threads that only load
          Value,      \* the states saved
          Length,     \* per value, the chunks of its JSON text
          Inode       \* enough inodes: one per name and open file

Threads == Savers \union Loaders
Absent == 0

ASSUME FileAssumption ==
    /\ Inode \subseteq Nat \ {Absent}
    /\ Savers \intersect Loaders = {}
    /\ Length \in [Value -> Nat \ {0}]
    /\ "hole" \notin Value /\ "load" \notin Value

Pos == UNION {1 .. Length[v] : v \in Value}
Blank == [p \in Pos |-> "hole"]
(* The first n chunks of v, and nothing after them.                        *)
Prefix(v, n) == [p \in Pos |-> IF p <= n THEN v ELSE "hole"]
Text(v) == Prefix(v, Length[v])
Whole(text) == \E v \in Value : text = Text(v)

VARIABLES
    canonical,  \* the inode under the canonical name, or Absent
    temp,       \* the inode under the temp name, or Absent
    disk,       \* per inode, its chunks
    pc,         \* per thread, where it is in load or save
    want,       \* per thread, the value it saves, or "load"
    fd,         \* per thread, the inode of its open file
    at,         \* per thread, the chunks it has written
    malformed   \* the threads whose last load failed to parse

vars == <<canonical, temp, disk, pc, want, fd, at, malformed>>

Init ==
    /\ canonical = Absent /\ temp = Absent
    /\ disk = [i \in Inode |-> Blank]
    /\ pc = [t \in Threads |-> "idle"] /\ want = [t \in Threads |-> "load"]
    /\ fd = [t \in Threads |-> Absent] /\ at = [t \in Threads |-> 0]
    /\ malformed = {}

Goto(t, where) == pc' = [pc EXCEPT ![t] = where]
(* Where a finished load leads: into the save it was for, if any.          *)
AfterLoad(t) == IF want[t] = "load" THEN "idle" ELSE "create"

-----------------------------------------------------------------------------
(* load.                                                                   *)

Begin(t) ==
    /\ pc[t] = "idle"
    /\ \E w \in (IF t \in Savers THEN Value ELSE {}) \union {"load"} :
           want' = [want EXCEPT ![t] = w]
    /\ malformed' = malformed \ {t}
    /\ IF canonical = Absent
       THEN Goto(t, "clean") /\ UNCHANGED fd
       ELSE Goto(t, "read") /\ fd' = [fd EXCEPT ![t] = canonical]
    /\ UNCHANGED <<canonical, temp, disk, at>>

(* No canonical file: whatever temp file there is counts as stale.         *)
CleanStaleTemp(t) ==
    /\ pc[t] = "clean" /\ Goto(t, AfterLoad(t))
    /\ temp' = Absent
    /\ UNCHANGED <<canonical, disk, want, fd, at, malformed>>

(* A text that does not parse is an error, and to every saver a default.   *)
Read(t) ==
    /\ pc[t] = "read" /\ Goto(t, AfterLoad(t))
    /\ malformed' = IF Whole(disk[fd[t]]) THEN malformed
                    ELSE malformed \union {t}
    /\ fd' = [fd EXCEPT ![t] = Absent]
    /\ UNCHANGED <<canonical, temp, disk, want, at>>

-----------------------------------------------------------------------------
(* save.                                                                   *)

Staged == temp                    \* the existing file that create truncates

Written(t) == at[t] = Length[want[t]]

InUse == {canonical, temp} \union {fd[t] : t \in Threads}

Create(t) ==
    /\ pc[t] = "create" /\ Goto(t, "write")
    /\ \E i \in IF Staged = Absent THEN Inode \ InUse ELSE {Staged} :
           /\ temp' = i /\ fd' = [fd EXCEPT ![t] = i]
           /\ disk' = [disk EXCEPT ![i] = Blank]
    /\ at' = [at EXCEPT ![t] = 0]
    /\ UNCHANGED <<canonical, want, malformed>>

WriteChunk(t) ==
    /\ pc[t] = "write" /\ ~Written(t)
    /\ disk' = [disk EXCEPT ![fd[t]][at[t] + 1] = want[t]]
    /\ at' = [at EXCEPT ![t] = @ + 1]
    /\ UNCHANGED <<canonical, temp, pc, want, fd, malformed>>

(* rename takes what is under the temp name by now, and fails on nothing.  *)
Rename(t) ==
    /\ pc[t] = "write" /\ Written(t) /\ temp # Absent
    /\ canonical' = temp /\ temp' = Absent
    /\ Goto(t, "idle") /\ fd' = [fd EXCEPT ![t] = Absent]
    /\ want' = [want EXCEPT ![t] = "load"] /\ at' = [at EXCEPT ![t] = 0]
    /\ UNCHANGED <<disk, malformed>>

RenameFails(t) ==
    /\ pc[t] = "write" /\ Written(t)
    /\ Goto(t, "undo") /\ fd' = [fd EXCEPT ![t] = Absent]
    /\ UNCHANGED <<canonical, temp, disk, want, at, malformed>>

MutKept == Absent
Kept == canonical                 \* the canonical name after a failed rename

Undo(t) ==
    /\ pc[t] = "undo" /\ Goto(t, "idle")
    /\ temp' = Absent /\ canonical' = Kept
    /\ want' = [want EXCEPT ![t] = "load"] /\ at' = [at EXCEPT ![t] = 0]
    /\ UNCHANGED <<disk, fd, malformed>>

(* create or write returns an I/O error: the temp file stays behind.       *)
Fails(t) ==
    /\ pc[t] \in {"create", "write"} /\ Goto(t, "idle")
    /\ fd' = [fd EXCEPT ![t] = Absent]
    /\ want' = [want EXCEPT ![t] = "load"] /\ at' = [at EXCEPT ![t] = 0]
    /\ UNCHANGED <<canonical, temp, disk, malformed>>

-----------------------------------------------------------------------------
(* The process dies and starts again: only names and inodes are left.      *)
Crash ==
    /\ pc' = [t \in Threads |-> "idle"] /\ want' = [t \in Threads |-> "load"]
    /\ fd' = [t \in Threads |-> Absent] /\ at' = [t \in Threads |-> 0]
    /\ malformed' = {}
    /\ UNCHANGED <<canonical, temp, disk>>

Step(t) == \/ Begin(t) \/ CleanStaleTemp(t) \/ Read(t)
           \/ Create(t) \/ WriteChunk(t) \/ Rename(t)
           \/ RenameFails(t) \/ Undo(t) \/ Fails(t)

Next == Crash \/ \E t \in Threads : Step(t)
Spec == Init /\ [][Next]_vars

-----------------------------------------------------------------------------
FileTypeOK ==
    /\ canonical \in Inode \union {Absent} /\ temp \in Inode \union {Absent}
    /\ disk \in [Inode -> [Pos -> Value \union {"hole"}]]
    /\ pc \in [Threads -> {"idle", "clean", "read", "create", "write", "undo"}]
    /\ want \in [Threads -> Value \union {"load"}]
    /\ fd \in [Threads -> Inode \union {Absent}]
    /\ at \in [Threads -> Nat]
    /\ malformed \subseteq Threads

(* The canonical file is never truncated or torn: it is absent or parses.  *)
CanonicalWhole == canonical # Absent => Whole(disk[canonical])

(* No load finds a malformed file, even one that opened it before a        *)
(* concurrent save replaced it.                                            *)
LoadsWhole == malformed = {}

(* A load at this moment.  A file is absent before the first save, which   *)
(* reads as the default state.                                             *)
Cell == INSTANCE DesiredStateCell
          WITH Default <- "default",
               value <- IF canonical = Absent THEN "default"
                        ELSE IF Whole(disk[canonical])
                        THEN CHOOSE v \in Value : disk[canonical] = Text(v)
                        ELSE "torn",
               offered <- {want[s] : s \in Savers} \ {"load"}

(* The backend is such a cell: saves replace the state in one step, and a  *)
(* save that fails, or dies with the process, changes nothing.             *)
ImplementsCell == Cell!Spec
=============================================================================
